------------------------ MODULE MessageQueue_proofs -------------------------
(***************************************************************************)
(* Theorems about MessageQueue, for rings of any size.                     *)
(***************************************************************************)
EXTENDS MessageQueue, TLAPS

-----------------------------------------------------------------------------
(* Arithmetic on a ring: the modulus is taken away once, here.             *)

LEMMA IncByCase ==
  ASSUME NEW p \in Ptr
  PROVE  Inc(p) \in Ptr /\ Inc(p) = IF p = Q - 1 THEN 0 ELSE p + 1
BY QueueAssumption DEF Ptr, Inc

LEMMA AheadByCase ==
  ASSUME NEW p \in Ptr, NEW q \in Ptr
  PROVE  Ahead(p, q) = IF p <= q THEN q - p ELSE q - p + Q
BY QueueAssumption DEF Ptr, Ahead

-----------------------------------------------------------------------------
(* Types.                                                                  *)

LEMMA WordType ==
  ASSUME NEW m \in Seq(Nat), NEW i \in Nat, i <= Len(m)
  PROVE  WordOf(m, i) \in Nat
BY DEF WordOf

LEMMA EmptyTypes == <<>> \in Seq(Nat) /\ <<>> \in Seq(Seq(Nat))
OBVIOUS

LEMMA DataAppend == ASSUME NEW s \in Seq(Nat), NEW w \in Nat PROVE Append(s, w) \in Seq(Nat)
OBVIOUS

LEMMA LogAppend ==
  ASSUME NEW s \in Seq(Seq(Nat)), NEW m \in Seq(Nat)
  PROVE  Append(s, m) \in Seq(Seq(Nat))
OBVIOUS

LEMMA InitTypes == Init => QueueTypeOK
<1> SUFFICES ASSUME Init PROVE QueueTypeOK
  OBVIOUS
<1>1. 0 \in Ptr
  BY QueueAssumption DEF Ptr
<1>2. drx \in DriverReader /\ dtx \in DriverWriter
  BY <1>1, EmptyTypes DEF Init, DriverInit, DriverIdle, SenderIdle, DriverReader, DriverWriter
<1>3. srx \in StreamReader /\ stx \in StreamWriter
  BY <1>1, EmptyTypes DEF Init, StreamInit, DriverIdle, SenderIdle, StreamReader, StreamWriter
<1>4. DeviceTypeOK
  BY <1>1 DEF Init, DeviceInit, DeviceTypeOK
<1>5. \A log \in {inSent, inGot, outSent, outGot} : log \in Seq(Seq(Nat))
  BY EmptyTypes DEF Init
<1> QED
  BY <1>2, <1>3, <1>4, <1>5
     DEF Init, DriverInit, StreamInit, QueueTypeOK, DriverTypeOK, StreamTypeOK

LEMMA DriverReadsTypes ==
  ASSUME QueueTypeOK, DriverReads
  PROVE  QueueTypeOK'
<1> USE DEF QueueTypeOK, DeviceTypeOK, DriverTypeOK, inRing
<1>1. drx.rp \in Ptr /\ mem[drx.rp] \in Nat /\ Inc(drx.rp) \in Ptr
  <2>1. drx.rp \in Ptr
    BY DEF DriverReader
  <2>2. drx.rp \in Addr
    BY <2>1, QueueAssumption, SMTT(60) DEF Ptr, Addr
  <2> QED BY <2>1, <2>2, IncByCase
<1>2. drx' \in DriverReader /\ inRd' \in Ptr /\ driverSz' \in Nat \cup {-1}
  <2>1. CASE DrvPeek
    BY <1>1, EmptyTypes, <2>1 DEF DrvPeek, DriverReader
  <2>2. CASE DrvPeekRp
    BY <1>1, EmptyTypes, <2>2 DEF DrvPeekRp, DriverReader
  <2>3. CASE DrvPeekWp
    BY <1>1, EmptyTypes, <2>3 DEF DrvPeekWp, DriverReader
  <2>4. CASE DrvPeekWord
    BY <1>1, EmptyTypes, <2>4 DEF DrvPeekWord, DriverReader
  <2>5. CASE DrvPeekPub
    BY <1>1, EmptyTypes, <2>5 DEF DrvPeekPub, DriverReader
  <2>6. CASE DrvRead
    BY <1>1, EmptyTypes, <2>6 DEF DrvRead, DriverReader
  <2>7. CASE DrvReadRp
    BY <1>1, EmptyTypes, <2>7 DEF DrvReadRp, DriverReader
  <2>8. CASE DrvReadWp
    BY <1>1, EmptyTypes, <2>8 DEF DrvReadWp, DriverReader
  <2>9. CASE DrvReadWord
    <3>1. Append(drx.data, mem[drx.rp]) \in Seq(Nat)
      BY <1>1, DataAppend DEF DriverReader
    <3> QED BY <1>1, <2>9, <3>1 DEF DrvReadWord, DriverReader
  <2>10. CASE DrvReadDrained
    BY <1>1, EmptyTypes, <2>10 DEF DrvReadDrained, DriverReader
  <2>11. CASE DrvReadEnd
    BY <1>1, EmptyTypes, <2>11 DEF DrvReadEnd, DriverReader
  <2> QED BY <2>1, <2>2, <2>3, <2>4, <2>5, <2>6, <2>7, <2>8, <2>9, <2>10, <2>11 DEF DriverReads
<1>3. inWr' = inWr /\ inReq' = inReq
  BY DEF DriverReads, DrvPeek, DrvPeekRp, DrvPeekWp, DrvPeekWord, DrvPeekPub, DrvRead,
         DrvReadRp, DrvReadWp, DrvReadWord, DrvReadDrained, DrvReadEnd
<1>4. inGot' \in Seq(Seq(Nat))
  <2>1. drx.data \in Seq(Nat) /\ inGot \in Seq(Seq(Nat))
    BY DEF DriverReader
  <2>2. inGot' = inGot \/ inGot' = Append(inGot, drx.data)
    BY DEF DriverReads
  <2> QED BY <2>1, <2>2, LogAppend
<1>5. UNCHANGED <<outRd, outWr, outReq, mem, dtx, srx, streamSz, stx, inSent, outSent, outGot>>
  BY DEF DriverReads, outRing, streamVars, outLog
<1> QED BY <1>2, <1>3, <1>4, <1>5 DEF StreamTypeOK

LEMMA StreamReadsTypes ==
  ASSUME QueueTypeOK, StreamReads
  PROVE  QueueTypeOK'
<1> USE DEF QueueTypeOK, DeviceTypeOK, StreamTypeOK, outRing
<1>1. srx.rp \in Ptr /\ mem[Q + srx.rp] \in Nat /\ Inc(srx.rp) \in Ptr
  <2>1. srx.rp \in Ptr
    BY DEF StreamReader
  <2>2. Q + srx.rp \in Addr
    BY <2>1, QueueAssumption, SMTT(60) DEF Ptr, Addr
  <2> QED BY <2>1, <2>2, IncByCase
<1>2. srx' \in StreamReader /\ outRd' \in Ptr /\ streamSz' \in Nat \cup {-1}
  <2>1. CASE StrPeek
    BY <1>1, EmptyTypes, <2>1 DEF StrPeek, StreamReader
  <2>2. CASE StrPeekSome
    BY <1>1, EmptyTypes, <2>2 DEF StrPeekSome, StreamReader
  <2>3. CASE StrPeekNone
    BY <1>1, EmptyTypes, <2>3 DEF StrPeekNone, StreamReader
  <2>4. CASE StrPeekWord
    BY <1>1, EmptyTypes, <2>4 DEF StrPeekWord, StreamReader
  <2>5. CASE StrRead
    BY <1>1, EmptyTypes, <2>5 DEF StrRead, StreamReader
  <2>6. CASE StrReadPtrs
    BY <1>1, EmptyTypes, <2>6 DEF StrReadPtrs, StreamReader
  <2>7. CASE StrReadWord
    <3>1. Append(srx.data, mem[Q + srx.rp]) \in Seq(Nat)
      BY <1>1, DataAppend DEF StreamReader
    <3> QED BY <1>1, <2>7, <3>1 DEF StrReadWord, StreamReader
  <2>8. CASE StrReadDrained
    BY <1>1, EmptyTypes, <2>8 DEF StrReadDrained, StreamReader
  <2>9. CASE StrReadEnd
    BY <1>1, EmptyTypes, <2>9 DEF StrReadEnd, StreamReader
  <2> QED BY <2>1, <2>2, <2>3, <2>4, <2>5, <2>6, <2>7, <2>8, <2>9 DEF StreamReads
<1>3. outWr' = outWr
  BY DEF StreamReads, StrPeek, StrPeekSome, StrPeekNone, StrPeekWord, StrRead, StrReadPtrs,
         StrReadWord, StrReadDrained, StrReadEnd
<1>4. outReq' \in BOOLEAN
  BY Zenon DEF StreamReads, StrPeek, StrPeekSome, StrPeekNone, StrPeekWord, StrRead,
                StrReadPtrs, StrReadWord, StrReadDrained, StrReadEnd
<1>5. outGot' \in Seq(Seq(Nat))
  <2>1. srx.data \in Seq(Nat) /\ outGot \in Seq(Seq(Nat))
    BY DEF StreamReader
  <2>2. outGot' = outGot \/ outGot' = Append(outGot, srx.data)
    BY DEF StreamReads
  <2> QED BY <2>1, <2>2, LogAppend
<1>6. UNCHANGED <<inRd, inWr, inReq, mem, stx, drx, driverSz, dtx, inSent, inGot, outSent>>
  BY DEF StreamReads, inRing, driverVars, inLog
<1> QED BY <1>2, <1>3, <1>4, <1>5, <1>6 DEF DriverTypeOK

LEMMA DriverWritesTypes ==
  ASSUME QueueTypeOK, DriverSends \/ DriverWrites
  PROVE  QueueTypeOK'
<1> USE DEF QueueTypeOK, DeviceTypeOK, DriverTypeOK, outRing
<1>1. dtx.wp \in Ptr /\ Q + dtx.wp \in Addr /\ Inc(dtx.wp) \in Ptr
  <2>1. dtx.wp \in Ptr
    BY DEF DriverWriter
  <2>2. Q + dtx.wp \in Addr
    BY <2>1, QueueAssumption, SMTT(60) DEF Ptr, Addr
  <2> QED BY <2>1, <2>2, IncByCase
<1>2. dtx' \in DriverWriter /\ outWr' \in Ptr /\ mem' \in [Addr -> Nat] /\ outSent' \in Seq(Seq(Nat))
  <2>1. CASE DriverSends
    <3>1. PICK m \in Messages : DrvWrite(m) /\ outSent' = Append(outSent, m)
      BY <2>1 DEF DriverSends
    <3>2. m \in Seq(Nat)
      BY MessageAssumption
    <3>3. outSent' \in Seq(Seq(Nat))
      BY <3>1, <3>2, LogAppend
    <3> QED BY <3>1, <3>2, <3>3 DEF DrvWrite, DriverWriter
  <2>2. CASE DriverWrites
    <3>0. outSent' = outSent
      BY <2>2 DEF DriverWrites, outLog
    <3>1. CASE DrvWriteWord
      <4>1. WordOf(dtx.msg, dtx.i) \in Nat
        BY <3>1, WordType DEF DrvWriteWord, DriverWriter
      <4>2. mem' \in [Addr -> Nat]
        BY <1>1, <3>1, <4>1 DEF DrvWriteWord
      <4>3. [dtx EXCEPT !.i = @ + 1, !.wp = Inc(@)] \in DriverWriter
        <5>1. dtx \in DriverWriter /\ dtx.i + 1 \in Nat
          BY DEF DriverWriter
        <5> HIDE DEF QueueTypeOK, DeviceTypeOK, DriverTypeOK
        <5>2. \A k \in Nat : \A p \in Ptr : [dtx EXCEPT !.i = k, !.wp = p] \in DriverWriter
          BY <5>1 DEF DriverWriter
        <5> QED BY <1>1, <5>1, <5>2
      <4>4. dtx' \in DriverWriter /\ outWr' \in Ptr
        BY <3>1, <4>3 DEF DrvWriteWord
      <4> QED BY <3>0, <4>2, <4>4
    <3>2. CASE DrvWriteWp \/ DrvWriteRp
      BY <3>0, <3>2 DEF DrvWriteWp, DrvWriteRp, DriverWriter
    <3>3. CASE DrvWriteFull \/ DrvWriteEnd
      BY <1>1, <3>0, <3>3 DEF DrvWriteFull, DrvWriteEnd, DriverWriter
    <3> QED BY <2>2, <3>1, <3>2, <3>3 DEF DriverWrites
  <2> QED BY <2>1, <2>2
<1>3. outRd' = outRd /\ outReq' = outReq
  BY DEF DriverSends, DriverWrites, DrvWrite, DrvWriteWp, DrvWriteRp, DrvWriteWord,
         DrvWriteFull, DrvWriteEnd
<1>4. UNCHANGED <<inRd, inWr, inReq, drx, driverSz, srx, streamSz, stx, inSent, inGot, outGot>>
  BY DEF DriverSends, DriverWrites, inRing, streamVars, inLog, outLog
<1> QED BY <1>2, <1>3, <1>4 DEF StreamTypeOK

LEMMA StreamWritesTypes ==
  ASSUME QueueTypeOK, StreamSends \/ StreamWrites
  PROVE  QueueTypeOK'
<1> USE DEF QueueTypeOK, DeviceTypeOK, StreamTypeOK, inRing
<1>1. stx.wp \in Ptr /\ stx.wp \in Addr /\ Inc(stx.wp) \in Ptr
  <2>1. stx.wp \in Ptr
    BY DEF StreamWriter
  <2>2. stx.wp \in Addr
    BY <2>1, QueueAssumption, SMTT(60) DEF Ptr, Addr
  <2> QED BY <2>1, <2>2, IncByCase
<1>2. stx' \in StreamWriter /\ inWr' \in Ptr /\ mem' \in [Addr -> Nat] /\ inSent' \in Seq(Seq(Nat))
  <2>1. CASE StreamSends
    <3>1. PICK m \in Messages : StrWrite(m) /\ inSent' = Append(inSent, m)
      BY <2>1 DEF StreamSends
    <3>2. m \in Seq(Nat)
      BY MessageAssumption
    <3>3. inSent' \in Seq(Seq(Nat))
      BY <3>1, <3>2, LogAppend
    <3> QED BY <3>1, <3>2, <3>3 DEF StrWrite, StreamWriter
  <2>2. CASE StreamWrites
    <3>0. inSent' = inSent
      BY <2>2 DEF StreamWrites, inLog
    <3>1. CASE StrWriteWord
      <4>1. WordOf(stx.msg, stx.i) \in Nat
        BY <3>1, WordType DEF StrWriteWord, StreamWriter
      <4>2. mem' \in [Addr -> Nat]
        BY <1>1, <3>1, <4>1 DEF StrWriteWord
      <4>3. [stx EXCEPT !.i = @ + 1, !.wp = Inc(@)] \in StreamWriter
        <5>1. stx \in StreamWriter /\ stx.i + 1 \in Nat
          BY DEF StreamWriter
        <5> HIDE DEF QueueTypeOK, DeviceTypeOK, StreamTypeOK
        <5>2. \A k \in Nat : \A p \in Ptr : [stx EXCEPT !.i = k, !.wp = p] \in StreamWriter
          BY <5>1 DEF StreamWriter
        <5> QED BY <1>1, <5>1, <5>2
      <4>4. stx' \in StreamWriter /\ inWr' \in Ptr
        BY <3>1, <4>3 DEF StrWriteWord
      <4> QED BY <3>0, <4>2, <4>4
    <3>2. CASE StrWritePtrs
      BY <3>0, <3>2 DEF StrWritePtrs, StreamWriter
    <3>3. CASE StrWriteFull \/ StrWriteEnd
      BY <1>1, <3>0, <3>3 DEF StrWriteFull, StrWriteEnd, StreamWriter
    <3> QED BY <2>2, <3>1, <3>2, <3>3 DEF StreamWrites
  <2> QED BY <2>1, <2>2
<1>3. inRd' = inRd
  BY DEF StreamSends, StreamWrites, StrWrite, StrWritePtrs, StrWriteWord, StrWriteFull,
         StrWriteEnd
<1>4. inReq' \in BOOLEAN
  BY Zenon DEF StreamSends, StreamWrites, StrWrite, StrWritePtrs, StrWriteWord,
                StrWriteFull, StrWriteEnd
<1>5. UNCHANGED <<outRd, outWr, outReq, drx, driverSz, dtx, srx, streamSz, inGot, outSent, outGot>>
  BY DEF StreamSends, StreamWrites, outRing, driverVars, inLog, outLog
<1> QED BY <1>2, <1>3, <1>4, <1>5 DEF DriverTypeOK

LEMMA MonitorTypes ==
  ASSUME QueueTypeOK, MonitorInbound \/ MonitorOutbound
  PROVE  QueueTypeOK'
<1> USE DEF QueueTypeOK, DeviceTypeOK, DriverTypeOK, StreamTypeOK
<1>1. CASE MonitorInbound
  <2>1. stx' \in StreamWriter
    BY <1>1 DEF MonitorInbound, StrWriteWake, StreamWriter
  <2>2. inReq' = FALSE
    BY <1>1 DEF MonitorInbound, StrWriteWake
  <2>3. UNCHANGED <<inRd, inWr, outRd, outWr, outReq, mem, drx, driverSz, dtx, srx, streamSz,
                    inSent, inGot, outSent, outGot>>
    BY <1>1 DEF MonitorInbound, StrWriteWake, outRing, driverVars, inLog, outLog
  <2> QED BY <2>1, <2>2, <2>3
<1>2. CASE MonitorOutbound
  <2>1. srx' \in StreamReader
    BY <1>2 DEF MonitorOutbound, StrReadWake, StreamReader
  <2>2. outReq' = FALSE
    BY <1>2 DEF MonitorOutbound, StrReadWake
  <2>3. UNCHANGED <<inRd, inWr, inReq, outRd, outWr, mem, drx, driverSz, dtx, streamSz, stx,
                    inSent, inGot, outSent, outGot>>
    BY <1>2 DEF MonitorOutbound, StrReadWake, inRing, driverVars, inLog, outLog
  <2> QED BY <2>1, <2>2, <2>3
<1> QED BY <1>1, <1>2

LEMMA NextTypes ==
  ASSUME QueueTypeOK, [Next]_vars
  PROVE  QueueTypeOK'
<1>1. CASE UNCHANGED vars
  BY <1>1 DEF vars, QueueTypeOK, DeviceTypeOK, DriverTypeOK, StreamTypeOK, inRing, outRing,
              driverVars, streamVars, inLog, outLog
<1> QED
  BY <1>1, DriverReadsTypes, StreamReadsTypes, DriverWritesTypes, StreamWritesTypes,
     MonitorTypes DEF Next

\* Pointers stay on their rings, sizes are sizes, and every log is a sequence of
\* messages, for rings and messages of any length.
THEOREM QueueTypeCorrect == Spec => []QueueTypeOK
<1>1. Init => QueueTypeOK
  BY InitTypes
<1>2. QueueTypeOK /\ [Next]_vars => QueueTypeOK'
  BY NextTypes
<1> QED BY <1>1, <1>2, PTL DEF Spec

-----------------------------------------------------------------------------
(***************************************************************************)
(* The order of the pointers.  Besides the four positions of               *)
(* PointersInOrder each ring has two old copies: the writer's copy of the  *)
(* read pointer, which is behind it, and the reader's copy of the write    *)
(* pointer, which is behind that one but not behind the reader.  The six   *)
(* stand in order, counted from the first, and every step of a thread      *)
(* moves one of them up to the next, or, where the code tests for it, one  *)
(* word on.                                                                *)
(***************************************************************************)
Chain(a, b, c, d, e, f) ==
  /\ Ahead(a, b) <= Ahead(a, c) /\ Ahead(a, c) <= Ahead(a, d)
  /\ Ahead(a, d) <= Ahead(a, e) /\ Ahead(a, e) <= Ahead(a, f)

\* The copies, where the threads have them; the pointers themselves elsewhere.
InOld   == IF stx.pc = "loop" THEN stx.rp ELSE inRd
InSeen  == IF drx.pc = "sz_word" \/ (drx.pc = "rd_loop" /\ driverSz > 0) THEN drx.wp ELSE inWr
OutOld  == IF dtx.pc = "loop" THEN dtx.rp ELSE outRd
OutSeen == IF srx.pc \in {"sz_word", "rd_loop"} THEN srx.wp ELSE outWr

InChain ==
  /\ Chain(InOld, inRd, DriverAt, InSeen, inWr, StreamTop)
  /\ drx.pc \in {"sz_wp", "sz_word"} => drx.rp = inRd
  /\ drx.pc = "sz_word" => drx.wp # drx.rp

OutChain ==
  /\ Chain(OutOld, outRd, StreamAt, OutSeen, outWr, DriverTop)
  /\ srx.pc = "sz_word" => srx.rp = outRd /\ srx.wp # srx.rp

RingInv == QueueTypeOK /\ InChain /\ OutChain

\* The writer's old copy may be dropped for the pointer it was read from.
LEMMA WriterForgets ==
  ASSUME NEW a \in Ptr, NEW b \in Ptr, NEW c \in Ptr, NEW d \in Ptr, NEW e \in Ptr,
         NEW f \in Ptr, Chain(a, b, c, d, e, f)
  PROVE  Chain(b, b, c, d, e, f)
<1>1. /\ Q \in Nat /\ Q > 1
      /\ \A x \in {a, b, c, d, e, f} : x \in Int /\ 0 <= x /\ x < Q
  BY QueueAssumption DEF Ptr
<1>2. \A x \in {a, b, c, d, e, f} :
        /\ Ahead(a, x) = IF a <= x THEN x - a ELSE x - a + Q
        /\ Ahead(b, x) = IF b <= x THEN x - b ELSE x - b + Q
  BY AheadByCase
<1>3. \A x, y \in {b, c, d, e, f} :
        Ahead(a, b) <= Ahead(a, x) /\ Ahead(a, x) <= Ahead(a, y) => Ahead(b, x) <= Ahead(b, y)
  BY <1>1, <1>2
<1>4. \A x \in {b, c, d, e, f} : Ahead(a, x) \in Int
  BY <1>1, <1>2
<1> QED BY <1>3, <1>4 DEF Chain

LEMMA ReaderStep ==
  ASSUME NEW a \in Ptr, NEW c \in Ptr, NEW d \in Ptr, c # d, Ahead(a, c) <= Ahead(a, d)
  PROVE  Ahead(a, c) <= Ahead(a, Inc(c)) /\ Ahead(a, Inc(c)) <= Ahead(a, d)
<1>1. Inc(c) \in Ptr /\ Inc(c) = IF c = Q - 1 THEN 0 ELSE c + 1
  BY IncByCase
<1>2. /\ Q \in Nat /\ Q > 1
      /\ \A x \in {a, c, d, Inc(c)} : x \in Int /\ 0 <= x /\ x < Q
  BY <1>1, QueueAssumption DEF Ptr
<1>3. \A x \in {a, c, d, Inc(c)} : Ahead(a, x) = IF a <= x THEN x - a ELSE x - a + Q
  BY <1>1, AheadByCase
<1> QED BY <1>1, <1>2, <1>3

LEMMA WriterStep ==
  ASSUME NEW a \in Ptr, NEW f \in Ptr, Inc(f) # a
  PROVE  Ahead(a, f) <= Ahead(a, Inc(f))
<1>1. Inc(f) \in Ptr /\ Inc(f) = IF f = Q - 1 THEN 0 ELSE f + 1
  BY IncByCase
<1>2. /\ Q \in Nat /\ Q > 1
      /\ \A x \in {a, f, Inc(f)} : x \in Int /\ 0 <= x /\ x < Q
  BY <1>1, QueueAssumption DEF Ptr
<1>3. \A x \in {a, f, Inc(f)} : Ahead(a, x) = IF a <= x THEN x - a ELSE x - a + Q
  BY <1>1, AheadByCase
<1> QED BY <1>1, <1>2, <1>3

\* What the steps of the two threads of a ring do to its chain.
Moves(a, b, c, d, e, f) ==
  /\ Chain(b, b, c, d, e, f)                       \* the writer looks
  /\ Chain(b, b, c, d, f, f)                       \* it shows its words and forgets
  /\ Chain(b, b, c, f, f, f)
  /\ Chain(a, b, c, e, e, f)                       \* the reader looks
  /\ Chain(a, b, b, e, e, f)                       \* it begins where the pointer is
  /\ Chain(a, c, c, e, e, f)                       \* it gives words back and forgets
  /\ Chain(c, c, c, e, e, f)
  /\ c # d => Chain(a, b, Inc(c), d, e, f)         \* it takes a word
  /\ c # d => Chain(a, b, Inc(c), e, e, f)
  /\ c # d => Chain(a, Inc(c), Inc(c), e, e, f)    \* ... and gives it back
  /\ c # d => Chain(Inc(c), Inc(c), Inc(c), e, e, f)
  /\ Inc(f) # a => Chain(a, b, c, d, e, Inc(f))    \* the writer stores a word

LEMMA ChainMoves ==
  ASSUME NEW a \in Ptr, NEW b \in Ptr, NEW c \in Ptr, NEW d \in Ptr, NEW e \in Ptr,
         NEW f \in Ptr, Chain(a, b, c, d, e, f)
  PROVE  Moves(a, b, c, d, e, f)
<1>1. Inc(c) \in Ptr /\ Inc(f) \in Ptr
  BY IncByCase
<1>2. \A x \in Ptr : Ahead(a, x) \in Int
  BY AheadByCase, QueueAssumption DEF Ptr
<1>3. Chain(a, b, c, e, e, f) /\ Chain(a, b, b, e, e, f) /\ Chain(a, c, c, e, e, f)
  BY <1>2 DEF Chain
<1>4. Chain(a, b, c, d, f, f) /\ Chain(a, b, c, f, f, f)
  BY <1>2 DEF Chain
<1>5. c # d => /\ Chain(a, b, Inc(c), d, e, f) /\ Chain(a, b, Inc(c), e, e, f)
               /\ Chain(a, Inc(c), Inc(c), e, e, f)
  BY <1>1, <1>2, ReaderStep DEF Chain
<1>6. Inc(f) # a => Chain(a, b, c, d, e, Inc(f))
  BY <1>1, <1>2, WriterStep DEF Chain
<1>7. Chain(b, b, c, d, e, f) /\ Chain(b, b, c, d, f, f) /\ Chain(b, b, c, f, f, f)
  BY <1>4, WriterForgets
<1>8. Chain(c, c, c, e, e, f)
  BY <1>3, WriterForgets
<1>9. c # d => Chain(Inc(c), Inc(c), Inc(c), e, e, f)
  BY <1>1, <1>5, WriterForgets
<1> QED BY <1>3, <1>5, <1>6, <1>7, <1>8, <1>9 DEF Moves

LEMMA ChainOrders ==
  ASSUME NEW a \in Ptr, NEW b \in Ptr, NEW c \in Ptr, NEW d \in Ptr, NEW e \in Ptr,
         NEW f \in Ptr, Chain(a, b, c, d, e, f)
  PROVE  InOrder(b, c, e, f)
<1>1. /\ Q \in Nat /\ Q > 1
      /\ \A x \in {a, b, c, d, e, f} : x \in Int /\ 0 <= x /\ x < Q
  BY QueueAssumption DEF Ptr
<1>2. \A x, y \in {a, b, c, d, e, f} : Ahead(x, y) = IF x <= y THEN y - x ELSE y - x + Q
  BY AheadByCase
<1>3. Ahead(a, b) <= Ahead(a, c) /\ Ahead(a, c) <= Ahead(a, e) /\ Ahead(a, e) <= Ahead(a, f)
  BY <1>1, <1>2 DEF Chain
<1>4. Ahead(b, c) + Ahead(c, e) + Ahead(e, f) = Ahead(b, f)
  BY <1>1, <1>2, <1>3
<1> QED BY <1>4 DEF InOrder

-----------------------------------------------------------------------------
(* The inbound ring: the processor reads, the stream side writes.          *)

LEMMA InMoves ==
  ASSUME RingInv
  PROVE  /\ Chain(InOld, inRd, DriverAt, InSeen, inWr, StreamTop)
         /\ Moves(InOld, inRd, DriverAt, InSeen, inWr, StreamTop)
<1>1. inRd \in Ptr /\ inWr \in Ptr /\ drx.rp \in Ptr /\ drx.wp \in Ptr /\ stx.rp \in Ptr /\ stx.wp \in Ptr
  BY DEF RingInv, QueueTypeOK, DeviceTypeOK, DriverTypeOK, StreamTypeOK, DriverReader, StreamWriter
<1>2. InOld \in Ptr /\ DriverAt \in Ptr /\ InSeen \in Ptr /\ StreamTop \in Ptr
  BY <1>1 DEF InOld, DriverAt, InSeen, StreamTop
<1> QED BY <1>1, <1>2, ChainMoves DEF RingInv, InChain

LEMMA DriverReadsInChain ==
  ASSUME RingInv, DriverReads
  PROVE  InChain'
<1> USE DEF InChain, InOld, InSeen, DriverAt, StreamTop, inRing
<1>1. drx \in DriverReader /\ InChain
  BY DEF RingInv, QueueTypeOK, DriverTypeOK
<1>2. Moves(InOld, inRd, DriverAt, InSeen, inWr, StreamTop)
  BY InMoves
<1>3. stx' = stx
  BY DEF DriverReads, streamVars
<1>4. CASE DrvPeek
  BY <1>1, <1>2, <1>3, <1>4 DEF DrvPeek, Moves, DriverReader
<1>5. CASE DrvPeekRp
  BY <1>1, <1>2, <1>3, <1>5 DEF DrvPeekRp, Moves, DriverReader
<1>6. CASE DrvPeekWp
  BY <1>1, <1>2, <1>3, <1>6 DEF DrvPeekWp, Moves, DriverReader
<1>7. CASE DrvPeekWord
  BY <1>1, <1>2, <1>3, <1>7 DEF DrvPeekWord, Moves, DriverReader
<1>8. CASE DrvPeekPub
  BY <1>1, <1>2, <1>3, <1>8 DEF DrvPeekPub, Moves, DriverReader
<1>9. CASE DrvRead
  BY <1>1, <1>2, <1>3, <1>9 DEF DrvRead, Moves, DriverReader
<1>10. CASE DrvReadRp
  BY <1>1, <1>2, <1>3, <1>10 DEF DrvReadRp, Moves, DriverReader
<1>11. CASE DrvReadWp
  BY <1>1, <1>2, <1>3, <1>11 DEF DrvReadWp, Moves, DriverReader
<1>12. CASE DrvReadWord
  <2>1. driverSz > 0 /\ driverSz' = driverSz
    <3>1. driverSz \in Nat \cup {-1} /\ Len(drx.data) \in Nat
      BY DEF RingInv, QueueTypeOK, DriverTypeOK, DriverReader
    <3> QED BY <1>12, <3>1 DEF DrvReadWord
  <2>2. drx'.pc = "rd_loop" /\ drx'.rp = Inc(drx.rp) /\ drx'.wp = drx.wp
    BY <1>1, <1>12 DEF DrvReadWord, DriverReader
  <2> QED BY <1>1, <1>2, <1>3, <1>12, <2>1, <2>2 DEF DrvReadWord, Moves
<1>13. CASE DrvReadDrained
  BY <1>1, <1>2, <1>3, <1>13 DEF DrvReadDrained, Moves, DriverReader
<1>14. CASE DrvReadEnd
  BY <1>1, <1>2, <1>3, <1>14 DEF DrvReadEnd, Moves, DriverReader
<1> QED BY <1>4, <1>5, <1>6, <1>7, <1>8, <1>9, <1>10, <1>11, <1>12, <1>13, <1>14 DEF DriverReads

LEMMA StreamWritesInChain ==
  ASSUME RingInv, StreamSends \/ StreamWrites
  PROVE  InChain'
<1> USE DEF InChain, InOld, InSeen, DriverAt, StreamTop, inRing
<1>1. stx \in StreamWriter /\ InChain
  BY DEF RingInv, QueueTypeOK, StreamTypeOK
<1>2. Moves(InOld, inRd, DriverAt, InSeen, inWr, StreamTop)
  BY InMoves
<1>3. drx' = drx /\ driverSz' = driverSz
  BY DEF StreamSends, StreamWrites, driverVars
<1>4. CASE StrWritePtrs
  BY <1>1, <1>2, <1>3, <1>4 DEF StrWritePtrs, Room, Moves, StreamWriter
<1>5. CASE StrWriteWord
  BY <1>1, <1>2, <1>3, <1>5 DEF StrWriteWord, Room, Moves, StreamWriter
<1>6. CASE StrWriteFull
  BY <1>1, <1>2, <1>3, <1>6 DEF StrWriteFull, Room, Moves, StreamWriter
<1>7. CASE StrWriteEnd
  BY <1>1, <1>2, <1>3, <1>7 DEF StrWriteEnd, Room, Moves, StreamWriter
<1>8. CASE StreamSends
  <2>1. PICK m \in Messages : StrWrite(m)
    BY <1>8 DEF StreamSends
  <2> QED BY <1>1, <1>2, <1>3, <2>1 DEF StrWrite, Moves, StreamWriter
<1> QED BY <1>4, <1>5, <1>6, <1>7, <1>8 DEF StreamWrites

\* Nobody else touches the inbound ring, and a wake-up moves no pointer.
LEMMA OthersInChain ==
  ASSUME RingInv, UNCHANGED <<inRd, inWr, drx, driverSz>>,
         stx' = stx \/ (stx.pc = "asleep" /\ stx' = [stx EXCEPT !.pc = "ptrs"])
  PROVE  InChain'
<1>1. stx \in StreamWriter /\ InChain
  BY DEF RingInv, QueueTypeOK, StreamTypeOK
<1>2. InOld' = InOld /\ InSeen' = InSeen /\ DriverAt' = DriverAt /\ StreamTop' = StreamTop
  BY <1>1 DEF InOld, InSeen, DriverAt, StreamTop, StreamWriter
<1> QED BY <1>1, <1>2 DEF InChain

-----------------------------------------------------------------------------
(* The outbound ring: the stream side reads, the processor writes.         *)

LEMMA OutMoves ==
  ASSUME RingInv
  PROVE  /\ Chain(OutOld, outRd, StreamAt, OutSeen, outWr, DriverTop)
         /\ Moves(OutOld, outRd, StreamAt, OutSeen, outWr, DriverTop)
<1>1. outRd \in Ptr /\ outWr \in Ptr /\ srx.rp \in Ptr /\ srx.wp \in Ptr /\ dtx.rp \in Ptr /\ dtx.wp \in Ptr
  BY DEF RingInv, QueueTypeOK, DeviceTypeOK, DriverTypeOK, StreamTypeOK, StreamReader, DriverWriter
<1>2. OutOld \in Ptr /\ StreamAt \in Ptr /\ OutSeen \in Ptr /\ DriverTop \in Ptr
  BY <1>1 DEF OutOld, StreamAt, OutSeen, DriverTop
<1> QED BY <1>1, <1>2, ChainMoves DEF RingInv, OutChain

LEMMA StreamReadsOutChain ==
  ASSUME RingInv, StreamReads
  PROVE  OutChain'
<1> USE DEF OutChain, OutOld, OutSeen, StreamAt, DriverTop, outRing
<1>1. srx \in StreamReader /\ OutChain
  BY DEF RingInv, QueueTypeOK, StreamTypeOK
<1>2. Moves(OutOld, outRd, StreamAt, OutSeen, outWr, DriverTop)
  BY OutMoves
<1>3. dtx' = dtx
  BY DEF StreamReads, driverVars
<1>4. CASE StrPeek
  BY <1>1, <1>2, <1>3, <1>4 DEF StrPeek, Moves, StreamReader
<1>5. CASE StrPeekSome
  BY <1>1, <1>2, <1>3, <1>5 DEF StrPeekSome, Moves, StreamReader
<1>6. CASE StrPeekNone
  BY <1>1, <1>2, <1>3, <1>6 DEF StrPeekNone, Moves, StreamReader
<1>7. CASE StrPeekWord
  BY <1>1, <1>2, <1>3, <1>7 DEF StrPeekWord, Moves, StreamReader
<1>8. CASE StrRead
  BY <1>1, <1>2, <1>3, <1>8 DEF StrRead, Moves, StreamReader
<1>9. CASE StrReadPtrs
  BY <1>1, <1>2, <1>3, <1>9 DEF StrReadPtrs, Moves, StreamReader
<1>10. CASE StrReadWord
  BY <1>1, <1>2, <1>3, <1>10 DEF StrReadWord, Moves, StreamReader
<1>11. CASE StrReadDrained
  BY <1>1, <1>2, <1>3, <1>11 DEF StrReadDrained, Moves, StreamReader
<1>12. CASE StrReadEnd
  BY <1>1, <1>2, <1>3, <1>12 DEF StrReadEnd, Moves, StreamReader
<1> QED BY <1>4, <1>5, <1>6, <1>7, <1>8, <1>9, <1>10, <1>11, <1>12 DEF StreamReads

LEMMA DriverWritesOutChain ==
  ASSUME RingInv, DriverSends \/ DriverWrites
  PROVE  OutChain'
<1> USE DEF OutChain, OutOld, OutSeen, StreamAt, DriverTop, outRing
<1>1. dtx \in DriverWriter /\ OutChain
  BY DEF RingInv, QueueTypeOK, DriverTypeOK
<1>2. Moves(OutOld, outRd, StreamAt, OutSeen, outWr, DriverTop)
  BY OutMoves
<1>3. srx' = srx
  BY DEF DriverSends, DriverWrites, streamVars
<1>4. CASE DrvWriteWp
  BY <1>1, <1>2, <1>3, <1>4 DEF DrvWriteWp, Room, Moves, DriverWriter
<1>5. CASE DrvWriteRp
  BY <1>1, <1>2, <1>3, <1>5 DEF DrvWriteRp, Room, Moves, DriverWriter
<1>6. CASE DrvWriteWord
  BY <1>1, <1>2, <1>3, <1>6 DEF DrvWriteWord, Room, Moves, DriverWriter
<1>7. CASE DrvWriteFull
  BY <1>1, <1>2, <1>3, <1>7 DEF DrvWriteFull, Room, Moves, DriverWriter
<1>8. CASE DrvWriteEnd
  BY <1>1, <1>2, <1>3, <1>8 DEF DrvWriteEnd, Room, Moves, DriverWriter
<1>9. CASE DriverSends
  <2>1. PICK m \in Messages : DrvWrite(m)
    BY <1>9 DEF DriverSends
  <2> QED BY <1>1, <1>2, <1>3, <2>1 DEF DrvWrite, Moves, DriverWriter
<1> QED BY <1>4, <1>5, <1>6, <1>7, <1>8, <1>9 DEF DriverWrites

LEMMA OthersOutChain ==
  ASSUME RingInv, UNCHANGED <<outRd, outWr, dtx>>,
         \/ srx' = srx
         \/ srx.pc = "sz_asleep" /\ srx' = [srx EXCEPT !.pc = "sz_ptrs"]
         \/ srx.pc = "rd_asleep" /\ srx' = [srx EXCEPT !.pc = "rd_ptrs"]
  PROVE  OutChain'
<1>1. srx \in StreamReader /\ OutChain
  BY DEF RingInv, QueueTypeOK, StreamTypeOK
<1>2. OutOld' = OutOld /\ OutSeen' = OutSeen /\ StreamAt' = StreamAt /\ DriverTop' = DriverTop
  BY <1>1 DEF OutOld, OutSeen, StreamAt, DriverTop, StreamReader
<1>3. srx'.pc = "sz_word" => srx' = srx
  BY <1>1 DEF StreamReader
<1> QED BY <1>1, <1>2, <1>3 DEF OutChain

-----------------------------------------------------------------------------
LEMMA RingInit == Init => RingInv
<1> SUFFICES ASSUME Init PROVE RingInv
  OBVIOUS
<1>1. 0 \in Ptr /\ Ahead(0, 0) = 0
  <2>1. 0 \in Ptr
    BY QueueAssumption DEF Ptr
  <2> QED BY <2>1, AheadByCase
<1>2. Chain(0, 0, 0, 0, 0, 0)
  BY <1>1 DEF Chain
<1>3. InChain
  BY <1>2 DEF Init, DeviceInit, DriverInit, StreamInit, DriverIdle, SenderIdle, InChain, InOld,
              InSeen, DriverAt, StreamTop
<1>4. OutChain
  BY <1>2 DEF Init, DeviceInit, DriverInit, StreamInit, DriverIdle, SenderIdle, OutChain, OutOld,
              OutSeen, StreamAt, DriverTop
<1> QED BY <1>3, <1>4, InitTypes DEF RingInv

LEMMA RingNext ==
  ASSUME RingInv, [Next]_vars
  PROVE  RingInv'
<1> USE DEF inRing, outRing, driverVars, streamVars
<1>1. QueueTypeOK'
  BY NextTypes DEF RingInv
<1>2. InChain'
  <2>1. CASE StreamSends \/ StreamWrites
    BY <2>1, StreamWritesInChain
  <2>2. CASE DriverReads
    BY <2>2, DriverReadsInChain
  <2>3. CASE MonitorInbound
    BY <2>3, OthersInChain DEF MonitorInbound, StrWriteWake
  <2>4. CASE DriverSends \/ DriverWrites
    BY <2>4, OthersInChain DEF DriverSends, DriverWrites
  <2>5. CASE StreamReads
    BY <2>5, OthersInChain DEF StreamReads
  <2>6. CASE MonitorOutbound
    BY <2>6, OthersInChain DEF MonitorOutbound
  <2>7. CASE UNCHANGED vars
    BY <2>7, OthersInChain DEF vars
  <2> QED BY <2>1, <2>2, <2>3, <2>4, <2>5, <2>6, <2>7 DEF Next
<1>3. OutChain'
  <2>1. CASE DriverSends \/ DriverWrites
    BY <2>1, DriverWritesOutChain
  <2>2. CASE StreamReads
    BY <2>2, StreamReadsOutChain
  <2>3. CASE MonitorOutbound
    BY <2>3, OthersOutChain DEF MonitorOutbound, StrReadWake
  <2>4. CASE StreamSends \/ StreamWrites
    BY <2>4, OthersOutChain DEF StreamSends, StreamWrites
  <2>5. CASE DriverReads
    BY <2>5, OthersOutChain DEF DriverReads
  <2>6. CASE MonitorInbound
    BY <2>6, OthersOutChain DEF MonitorInbound
  <2>7. CASE UNCHANGED vars
    BY <2>7, OthersOutChain DEF vars
  <2> QED BY <2>1, <2>2, <2>3, <2>4, <2>5, <2>6, <2>7 DEF Next
<1> QED BY <1>1, <1>2, <1>3 DEF RingInv

LEMMA RingImplies == RingInv => PointersInOrder
<1> SUFFICES ASSUME RingInv PROVE PointersInOrder
  OBVIOUS
<1>1. /\ inRd \in Ptr /\ inWr \in Ptr /\ outRd \in Ptr /\ outWr \in Ptr
      /\ drx.rp \in Ptr /\ drx.wp \in Ptr /\ stx.rp \in Ptr /\ stx.wp \in Ptr
      /\ srx.rp \in Ptr /\ srx.wp \in Ptr /\ dtx.rp \in Ptr /\ dtx.wp \in Ptr
  BY DEF RingInv, QueueTypeOK, DeviceTypeOK, DriverTypeOK, StreamTypeOK, DriverReader,
         DriverWriter, StreamReader, StreamWriter
<1>2. /\ InOld \in Ptr /\ DriverAt \in Ptr /\ InSeen \in Ptr /\ StreamTop \in Ptr
      /\ OutOld \in Ptr /\ StreamAt \in Ptr /\ OutSeen \in Ptr /\ DriverTop \in Ptr
  BY <1>1 DEF InOld, DriverAt, InSeen, StreamTop, OutOld, StreamAt, OutSeen, DriverTop
<1>3. InOrder(inRd, DriverAt, inWr, StreamTop)
  BY <1>1, <1>2, InMoves, ChainOrders
<1>4. InOrder(outRd, StreamAt, outWr, DriverTop)
  BY <1>1, <1>2, OutMoves, ChainOrders
<1> QED BY <1>3, <1>4 DEF PointersInOrder

\* No reader passes what is published and no writer passes what is given back, for
\* rings of any size, messages of any length and any order of the four threads.
THEOREM PointersOrdered == Spec => []PointersInOrder
<1>1. Init => RingInv
  BY RingInit
<1>2. RingInv /\ [Next]_vars => RingInv'
  BY RingNext
<1>3. RingInv => PointersInOrder
  BY RingImplies
<1> QED BY <1>1, <1>2, <1>3, PTL DEF Spec
-----------------------------------------------------------------------------
(***************************************************************************)
(* MessageQueue implements a MsgFifo each way, for rings of any size and   *)
(* messages of any length.  The words of the messages sent, each after its *)
(* size, are one stream.  The invariant says which word of the stream is   *)
(* in each slot between the reader and the writer: where each message      *)
(* starts in the stream is a bound variable, extended when one is sent, so *)
(* that nothing has to be summed up by recursion.                          *)
(***************************************************************************)


-----------------------------------------------------------------------------
(* One direction: sent and got, how many words of the next message have    *)
(* been taken, how many of the last are still to be written, the ring and  *)
(* the positions of its reader and its writer.                             *)

\* Message k starts at word start[k] of the stream, and ends before the next.
Laid(start, sent) ==
  /\ \A k \in 1 .. Len(sent) : start[k + 1] = start[k] + Len(sent[k]) + 1
  /\ \A k \in 1 .. Len(sent), l \in 1 .. Len(sent) + 1 :
       k < l => start[k] + Len(sent[k]) + 1 <= start[l]

HoldsAt(start, ring, sent, got, taken, left, at, top) ==
  /\ Laid(start, sent)
  /\ Ahead(at, top) = start[Len(sent) + 1] - left - (start[Len(got) + 1] + taken)
  /\ \A k \in 1 .. Len(sent) : \A i \in 0 .. Len(sent[k]), s \in Ptr :
       /\ Ahead(at, s) = start[k] + i - (start[Len(got) + 1] + taken)
       /\ Ahead(at, s) < Ahead(at, top)
       => ring[s] = WordOf(sent[k], i)

Holds(ring, sent, got, taken, left, at, top) ==
  \E start \in [Nat -> Nat] : HoldsAt(start, ring, sent, got, taken, left, at, top)

\* What the reader has is the beginning of the next message, with its size.
Begun(sent, got, taken, sz) ==
  /\ Len(got) <= Len(sent)
  /\ taken > 0 => Len(got) < Len(sent) /\ sz = Len(sent[Len(got) + 1])

Prefix(sent, got, data, sz) ==
  Len(data) <= sz /\ \A j \in DOMAIN data : data[j] = sent[Len(got) + 1][j]

\* What the writer has left is the end of the last message.
Ending(sent, t) ==
  t.pc # "idle" => sent # <<>> /\ t.msg = sent[Len(sent)] /\ t.i <= Len(t.msg) + 1

Left(t) == IF t.pc = "idle" THEN 0 ELSE Len(t.msg) + 1 - t.i

-----------------------------------------------------------------------------
InWords  == [s \in Ptr |-> mem[s]]
OutWords == [s \in Ptr |-> mem[Q + s]]

InTaken ==
  CASE drx.pc \in {"sz_pub", "peeked"} -> 1
    [] drx.pc \in {"rd_rp", "rd_wp", "rd_loop"} -> Len(drx.data) + 1
    [] OTHER -> 0

OutTaken ==
  CASE srx.pc = "peeked" -> 1
    [] srx.pc \in {"rd_ptrs", "rd_loop", "rd_asleep"} -> Len(srx.data) + 1
    [] OTHER -> 0

InStream ==
  /\ Begun(inSent, inGot, InTaken, driverSz)
  /\ drx.pc \in {"rd_rp", "rd_wp", "rd_loop"} => Prefix(inSent, inGot, drx.data, driverSz)
  /\ drx.pc = "rd_rp" => drx.data = <<>>
  /\ Ending(inSent, stx)
  /\ Holds(InWords, inSent, inGot, InTaken, Left(stx), DriverAt, StreamTop)

OutStream ==
  /\ Begun(outSent, outGot, OutTaken, streamSz)
  /\ srx.pc \in {"rd_ptrs", "rd_loop", "rd_asleep"} => Prefix(outSent, outGot, srx.data, streamSz)
  /\ Ending(outSent, dtx)
  /\ Holds(OutWords, outSent, outGot, OutTaken, Left(dtx), StreamAt, DriverTop)

FifoInv == RingInv /\ InStream /\ OutStream
-----------------------------------------------------------------------------
(* A step of the reader or the writer around the ring.                     *)

LEMMA AheadFacts ==
  ASSUME NEW p \in Ptr, NEW q \in Ptr
  PROVE  /\ Ahead(p, q) \in Nat /\ Ahead(p, q) < Q
         /\ Ahead(p, q) = 0 <=> p = q
         /\ \A s \in Ptr : Ahead(p, q) = Ahead(p, s) => q = s
         /\ Inc(q) # p => Ahead(p, Inc(q)) = Ahead(p, q) + 1
         /\ p # q => Ahead(Inc(p), q) = Ahead(p, q) - 1
         /\ Ahead(Inc(p), p) = Q - 1
<1>1. /\ Q \in Nat /\ Q > 1 /\ p \in Int /\ 0 <= p /\ p < Q /\ q \in Int /\ 0 <= q /\ q < Q
      /\ \A s \in Ptr : s \in Int /\ 0 <= s /\ s < Q
  BY QueueAssumption DEF Ptr
<1>2. /\ Inc(p) \in Ptr /\ Inc(p) = IF p = Q - 1 THEN 0 ELSE p + 1
      /\ Inc(q) \in Ptr /\ Inc(q) = IF q = Q - 1 THEN 0 ELSE q + 1
  BY IncByCase
<1>3. \A s \in Ptr : Ahead(p, s) = IF p <= s THEN s - p ELSE s - p + Q BY AheadByCase
<1>4. Ahead(p, Inc(q)) = IF p <= Inc(q) THEN Inc(q) - p ELSE Inc(q) - p + Q BY <1>2, <1>3
<1>5. \A s \in Ptr : Ahead(Inc(p), s) = IF Inc(p) <= s THEN s - Inc(p) ELSE s - Inc(p) + Q
  BY <1>2, AheadByCase
<1>6. /\ Ahead(p, q) \in Nat /\ Ahead(p, q) < Q /\ (Ahead(p, q) = 0 <=> p = q)
      /\ \A s \in Ptr : Ahead(p, q) = Ahead(p, s) => q = s
  BY <1>1, <1>3
<1>7. Inc(q) # p => Ahead(p, Inc(q)) = Ahead(p, q) + 1 BY <1>1, <1>2, <1>3, <1>4
<1>8. p # q => Ahead(Inc(p), q) = Ahead(p, q) - 1 BY <1>1, <1>2, <1>3, <1>5
<1>9. Ahead(Inc(p), p) = Q - 1 BY <1>1, <1>2, <1>5
<1> QED BY <1>6, <1>7, <1>8, <1>9

-----------------------------------------------------------------------------
(* What a direction's steps do to the stream.                              *)

LEMMA Lengths ==
  ASSUME NEW sent \in Seq(Seq(Nat))
  PROVE  /\ Len(sent) \in Nat /\ DOMAIN sent = 1 .. Len(sent)
         /\ \A k \in 1 .. Len(sent) : sent[k] \in Seq(Nat) /\ Len(sent[k]) \in Nat
<1>1. Len(sent) \in Nat /\ DOMAIN sent = 1 .. Len(sent) OBVIOUS
<1>2. \A k \in 1 .. Len(sent) : sent[k] \in Seq(Nat) BY <1>1
<1>3. \A s \in Seq(Nat) : Len(s) \in Nat OBVIOUS
<1> QED BY <1>1, <1>2, <1>3

LEMMA NextMessage ==
  ASSUME NEW sent \in Seq(Seq(Nat)), NEW got \in Seq(Seq(Nat)), Len(got) < Len(sent)
  PROVE  sent[Len(got) + 1] \in Seq(Nat)
<1>1. PICK n \in Nat, g \in Nat : n = Len(sent) /\ g = Len(got) BY Lengths
<1>2. g + 1 \in 1 .. n BY <1>1
<1> QED BY <1>1, <1>2, Lengths

LEMMA LastAppended ==
  ASSUME NEW sent \in Seq(Seq(Nat)), NEW m \in Seq(Nat)
  PROVE  /\ Append(sent, m) # <<>> /\ Append(sent, m)[Len(Append(sent, m))] = m
         /\ 0 <= Len(m) + 1
<1>1. Len(Append(sent, m)) = Len(sent) + 1 /\ Append(sent, m)[Len(sent) + 1] = m OBVIOUS
<1>2. Len(sent) + 1 # 0 /\ Len(m) \in Nat BY Lengths
<1>3. Append(sent, m) # <<>> BY <1>1, <1>2
<1> QED BY <1>1, <1>2, <1>3

\* A message more is laid behind the last.
LEMMA HoldsSend ==
  ASSUME NEW sent \in Seq(Seq(Nat)), NEW got \in Seq(Seq(Nat)), NEW m \in Seq(Nat),
         NEW ring, NEW taken \in Nat, NEW at \in Ptr, NEW top \in Ptr,
         Len(got) <= Len(sent), Holds(ring, sent, got, taken, 0, at, top)
  PROVE  Holds(ring, Append(sent, m), got, taken, Len(m) + 1, at, top)
<1>1. PICK start \in [Nat -> Nat] : HoldsAt(start, ring, sent, got, taken, 0, at, top)
  BY DEF Holds
<1>2. PICK n \in Nat, g \in Nat, c \in Nat : n = Len(sent) /\ g = Len(got) /\ c = Len(m)
  BY Lengths
<1>3. g <= n BY <1>2
<1> DEFINE longer == Append(sent, m)
<1>4. /\ Len(longer) = n + 1 /\ longer[n + 1] = m
      /\ \A k \in 1 .. n : longer[k] = sent[k]
  BY <1>2
<1>5. \A k \in 1 .. n : Len(sent[k]) \in Nat BY <1>2, Lengths
<1> HIDE DEF longer
<1>0. PICK a \in Nat, b \in Nat : a = start[n + 1] /\ b = start[g + 1]
  <2>1. n + 1 \in Nat /\ g + 1 \in Nat OBVIOUS
  <2>2. start[n + 1] \in Nat /\ start[g + 1] \in Nat BY <2>1
  <2> QED BY <2>2
<1> DEFINE more == [start EXCEPT ![n + 2] = a + c + 1]
<1>6. more \in [Nat -> Nat] /\ more[n + 2] = a + c + 1 /\ more[n + 1] = a /\ more[g + 1] = b
      /\ \A k \in 1 .. n + 1 : more[k] = start[k] /\ start[k] \in Nat
  <2>1. n + 2 \in Nat /\ a + c + 1 \in Nat OBVIOUS
  <2>2. more \in [Nat -> Nat] /\ more[n + 2] = a + c + 1 BY <2>1
  <2>3. \A k \in 1 .. n + 1 : k \in Nat /\ k # n + 2 OBVIOUS
  <2>4. \A k \in 1 .. n + 1 : more[k] = start[k] /\ start[k] \in Nat BY <2>3
  <2>5. n + 1 \in 1 .. n + 1 /\ g + 1 \in 1 .. n + 1 BY <1>3
  <2> HIDE DEF more
  <2> QED BY <1>0, <2>2, <2>4, <2>5
<1> HIDE DEF more
<1>7. /\ \A k \in 1 .. n : start[k + 1] = start[k] + Len(sent[k]) + 1
      /\ \A k \in 1 .. n, l \in 1 .. n + 1 : k < l => start[k] + Len(sent[k]) + 1 <= start[l]
  BY <1>1, <1>2 DEF HoldsAt, Laid
<1>8. Laid(more, longer)
  <2>1. ASSUME NEW k \in 1 .. n + 1
        PROVE  more[k + 1] = more[k] + Len(longer[k]) + 1
    <3>1. CASE k = n + 1
      <4>1. k + 1 = n + 2 /\ longer[k] = m BY <1>4, <3>1
      <4>2. more[k + 1] = a + c + 1 /\ more[k] = a /\ Len(longer[k]) = c
        BY <1>2, <1>6, <3>1, <4>1
      <4> QED BY <4>2
    <3>2. CASE k # n + 1
      <4>1. k \in 1 .. n /\ k + 1 \in 1 .. n + 1 BY <3>2
      <4> QED BY <1>4, <1>6, <1>7, <4>1
    <3> QED BY <3>1, <3>2
  <2>2. ASSUME NEW k \in 1 .. n + 1, NEW l \in 1 .. n + 2, k < l
        PROVE  more[k] + Len(longer[k]) + 1 <= more[l]
    <3>1. CASE k = n + 1
      <4>1. l = n + 2 BY <2>2, <3>1
      <4>2. more[l] = a + c + 1 /\ more[k] = a /\ Len(longer[k]) = c
        BY <1>2, <1>4, <1>6, <3>1, <4>1
      <4> QED BY <4>2
    <3>2. CASE k \in 1 .. n /\ l \in 1 .. n + 1 BY <1>4, <1>6, <1>7, <2>2, <3>2
    <3>3. CASE k \in 1 .. n /\ l = n + 2
      <4>1. n + 1 \in 1 .. n + 1 /\ k < n + 1 BY <3>3
      <4>2. start[k] + Len(sent[k]) + 1 <= a BY <1>0, <1>7, <3>3, <4>1
      <4>3. PICK x \in Nat, y \in Nat : x = start[k] /\ y = Len(sent[k]) BY <1>5, <1>6, <3>3
      <4>4. more[k] = x /\ Len(longer[k]) = y /\ more[l] = a + c + 1
        BY <1>4, <1>6, <3>3, <4>3
      <4>5. x + y + 1 <= a
        <5>1. start[k] \in Nat /\ Len(sent[k]) \in Nat BY <1>5, <1>6, <3>3
        <5> QED BY <4>2, <4>3, <5>1
      <4>6. x + y + 1 <= a + c + 1 BY <4>5
      <4> QED BY <4>4, <4>6
    <3> QED BY <3>1, <3>2, <3>3
  <2>3. Len(longer) = n + 1 /\ Len(longer) + 1 = n + 2 BY <1>4
  <2> QED BY <2>1, <2>2, <2>3 DEF Laid
<1>9. Ahead(at, top) = a - (b + taken)
  <2>1. Ahead(at, top) = start[n + 1] - 0 - (start[g + 1] + taken) BY <1>1, <1>2 DEF HoldsAt
  <2> QED BY <1>0, <2>1
<1>10. ASSUME NEW k \in 1 .. n + 1, NEW i \in 0 .. Len(longer[k]), NEW s \in Ptr,
              Ahead(at, s) = more[k] + i - (b + taken), Ahead(at, s) < Ahead(at, top)
       PROVE  ring[s] = WordOf(longer[k], i)
  <2>1. CASE k = n + 1
    <3>1. Len(longer[k]) = c /\ more[k] = a BY <1>2, <1>4, <1>6, <2>1
    <3>2. i \in Nat BY <3>1
    <3> QED BY <1>9, <1>10, <3>1, <3>2
  <2>2. CASE k \in 1 .. n
    <3>1. longer[k] = sent[k] /\ more[k] = start[k] BY <1>4, <1>6, <2>2
    <3> QED BY <1>0, <1>1, <1>2, <1>10, <2>2, <3>1 DEF HoldsAt
  <2> QED BY <2>1, <2>2
<1>11. HoldsAt(more, ring, longer, got, taken, c + 1, at, top)
  <2>1. Len(longer) + 1 = n + 2 BY <1>4
  <2>2. more[Len(longer) + 1] - (c + 1) = a BY <1>6, <2>1
  <2> QED BY <1>2, <1>4, <1>6, <1>8, <1>9, <1>10, <2>2 DEF HoldsAt
<1> QED BY <1>2, <1>6, <1>11 DEF Holds, longer

\* The next word of the last message is stored at the writer.
LEMMA HoldsWrite ==
  ASSUME NEW sent \in Seq(Seq(Nat)), NEW got \in Seq(Seq(Nat)),
         NEW ring, DOMAIN ring = Ptr, NEW taken \in Nat, NEW at \in Ptr, NEW top \in Ptr,
         NEW i \in Nat, sent # <<>>, i <= Len(sent[Len(sent)]), Inc(top) # at,
         Holds(ring, sent, got, taken, Len(sent[Len(sent)]) + 1 - i, at, top)
  PROVE  Holds([ring EXCEPT ![top] = WordOf(sent[Len(sent)], i)], sent, got, taken,
               Len(sent[Len(sent)]) + 1 - (i + 1), at, Inc(top))
<1>1. PICK n \in Nat, c \in Nat : n = Len(sent) /\ c = Len(sent[n]) /\ n >= 1
  <2>1. Len(sent) \in 1 .. Len(sent) OBVIOUS
  <2> QED BY <2>1, Lengths
<1>2. PICK start \in [Nat -> Nat] : HoldsAt(start, ring, sent, got, taken, c + 1 - i, at, top)
  BY <1>1 DEF Holds
<1> DEFINE stored == [ring EXCEPT ![top] = WordOf(sent[n], i)]
<1>3. stored[top] = WordOf(sent[n], i) /\ \A s \in Ptr : s # top => stored[s] = ring[s]
  OBVIOUS
<1> HIDE DEF stored
<1>4. PICK d \in Nat, z \in Nat, r \in Nat :
        d = start[n] /\ z = start[n + 1] /\ r = start[Len(got) + 1]
  <2>1. n \in Nat /\ n + 1 \in Nat /\ Len(got) + 1 \in Nat OBVIOUS
  <2> QED BY <2>1
<1>5. z = d + c + 1
  <2>1. n \in 1 .. n BY <1>1
  <2>2. start[n + 1] = start[n] + Len(sent[n]) + 1 BY <1>1, <1>2, <2>1 DEF HoldsAt, Laid
  <2> QED BY <1>1, <1>4, <2>2
<1>6. Ahead(at, top) = z - (c + 1 - i) - (r + taken) BY <1>1, <1>2, <1>4 DEF HoldsAt
<1>7. Ahead(at, Inc(top)) = Ahead(at, top) + 1 /\ Ahead(at, top) \in Nat BY AheadFacts
<1>8. Ahead(at, Inc(top)) = z - (c + 1 - (i + 1)) - (r + taken) BY <1>6, <1>7
<1>9. ASSUME NEW k \in 1 .. n, NEW j \in 0 .. Len(sent[k]), NEW s \in Ptr,
             Ahead(at, s) = start[k] + j - (r + taken), Ahead(at, s) < Ahead(at, Inc(top))
      PROVE  stored[s] = WordOf(sent[k], j)
  <2>1. PICK x \in Nat, y \in Nat, u \in Nat, v \in Nat, e \in Nat :
          /\ x = start[k] /\ y = Len(sent[k])
          /\ u = Ahead(at, s) /\ v = Ahead(at, top) /\ e = j
    <3>1. k \in Nat OBVIOUS
    <3>2. start[k] \in Nat BY <3>1
    <3>3. Len(sent[k]) \in Nat BY <1>1, Lengths
    <3>4. Ahead(at, s) \in Nat BY AheadFacts
    <3>5. j \in Nat BY <3>3
    <3> QED BY <1>7, <3>2, <3>3, <3>4, <3>5
  <2>2. u = x + e - (r + taken) /\ u < v + 1 /\ e <= y
    BY <1>7, <1>9, <2>1
  <2>3. CASE u < v
    <3>1. s # top BY <2>1, <2>3, <1>7
    <3>2. ring[s] = WordOf(sent[k], j) BY <1>1, <1>2, <1>4, <1>9, <2>1, <2>3 DEF HoldsAt
    <3> QED BY <1>3, <3>1, <3>2
  <2>4. CASE u = v
    <3>1. s = top
      <4>1. Ahead(at, s) = Ahead(at, top) BY <2>1, <2>4
      <4> QED BY <4>1, AheadFacts
    <3>2. x + e = d + i
      <4>1. v = z - (c + 1 - i) - (r + taken) BY <1>6, <2>1
      <4>2. z - (c + 1 - i) = d + i BY <1>5
      <4>3. PICK p \in Nat, q \in Nat, w \in Nat : p = x + e /\ q = d + i /\ w = r + taken
        <5>1. x + e \in Nat /\ d + i \in Nat /\ r + taken \in Nat
          OBVIOUS
        <5> QED BY <5>1
      <4>4. v = q - w /\ v = p - w
        BY <2>2, <2>4, <4>1, <4>2, <4>3
      <4>5. p = q
        BY <4>4
      <4> QED BY <4>3, <4>5
    <3>3. k = n
      <4> SUFFICES ASSUME k < n PROVE FALSE OBVIOUS
      <4>1. n \in 1 .. n + 1 BY <1>1
      <4>2. start[k] + Len(sent[k]) + 1 <= start[n] BY <1>1, <1>2, <4>1 DEF HoldsAt, Laid
      <4>3. start[k] \in Nat /\ Len(sent[k]) \in Nat BY <2>1
      <4>4. x + y + 1 <= d BY <1>4, <2>1, <4>2, <4>3
      <4>5. x + e + 1 <= d BY <2>2, <4>4
      <4> QED BY <3>2, <4>5
    <3>4. x = d /\ y = c BY <1>1, <1>4, <2>1, <3>3
    <3>5. j = i BY <1>5, <2>1, <2>2, <3>2, <3>4
    <3> QED BY <1>3, <3>1, <3>3, <3>5
  <2> QED BY <2>2, <2>3, <2>4
<1>10. HoldsAt(start, stored, sent, got, taken, c + 1 - (i + 1), at, Inc(top))
  <2>1. Laid(start, sent) BY <1>2 DEF HoldsAt
  <2> QED BY <1>1, <1>4, <1>8, <1>9, <2>1 DEF HoldsAt
<1> QED BY <1>1, <1>10 DEF Holds, stored

\* The next word of the message is taken where the reader is.
LEMMA HoldsRead ==
  ASSUME NEW sent \in Seq(Seq(Nat)), NEW got \in Seq(Seq(Nat)),
         NEW ring, NEW taken \in Nat, NEW left \in Nat, NEW at \in Ptr, NEW top \in Ptr,
         Len(got) < Len(sent), taken <= Len(sent[Len(got) + 1]), at # top,
         Holds(ring, sent, got, taken, left, at, top)
  PROVE  /\ ring[at] = WordOf(sent[Len(got) + 1], taken)
         /\ Holds(ring, sent, got, taken + 1, left, Inc(at), top)
<1>1. PICK n \in Nat, k \in Nat : n = Len(sent) /\ k = Len(got) + 1 /\ k \in 1 .. n
  <2>1. Len(sent) \in Nat /\ Len(got) \in Nat /\ Len(got) + 1 \in 1 .. Len(sent) BY Lengths
  <2> QED BY <2>1
<1>2. PICK start \in [Nat -> Nat] : HoldsAt(start, ring, sent, got, taken, left, at, top)
  BY DEF Holds
<1>3. PICK d \in Nat, z \in Nat : d = start[k] /\ z = start[n + 1]
  <2>1. n + 1 \in Nat OBVIOUS
  <2> QED BY <2>1
<1>4. Ahead(at, at) = 0 /\ Ahead(at, top) \in Nat \ {0} /\ Ahead(at, top) < Q BY AheadFacts
<1>5. taken \in 0 .. Len(sent[k]) BY <1>1, Lengths
<1>6. ring[at] = WordOf(sent[k], taken)
  <2>1. Ahead(at, at) = start[k] + taken - (start[Len(got) + 1] + taken) BY <1>1, <1>3, <1>4
  <2>2. k \in 1 .. Len(sent) /\ Ahead(at, at) < Ahead(at, top) BY <1>1, <1>4
  <2> QED BY <1>1, <1>2, <1>5, <2>1, <2>2 DEF HoldsAt
<1>7. Ahead(at, top) = z - left - (d + taken) BY <1>1, <1>2, <1>3 DEF HoldsAt
<1>8. Ahead(Inc(at), top) = Ahead(at, top) - 1 /\ Inc(at) \in Ptr BY AheadFacts, IncByCase
<1>9. Ahead(Inc(at), top) = z - left - (d + (taken + 1)) BY <1>4, <1>7, <1>8
<1>10. ASSUME NEW l \in 1 .. n, NEW j \in 0 .. Len(sent[l]), NEW s \in Ptr,
              Ahead(Inc(at), s) = start[l] + j - (d + (taken + 1)),
              Ahead(Inc(at), s) < Ahead(Inc(at), top)
       PROVE  ring[s] = WordOf(sent[l], j)
  <2>1. s # at
    <3>1. Ahead(Inc(at), at) = Q - 1 BY AheadFacts
    <3> QED BY <1>4, <1>8, <1>10, <3>1, QueueAssumption
  <2>2. PICK x \in Nat, u \in Nat : x = start[l] /\ u = Ahead(at, s)
    <3>1. l \in Nat OBVIOUS
    <3>2. start[l] \in Nat BY <3>1
    <3>3. Ahead(at, s) \in Nat BY AheadFacts
    <3> QED BY <3>2, <3>3
  <2>3. Ahead(Inc(at), s) = u - 1 BY <2>1, <2>2, AheadFacts
  <2>4. j \in Nat BY <1>1, Lengths
  <2>5. u - 1 = x + j - (d + (taken + 1)) /\ u - 1 < Ahead(at, top) - 1
    BY <1>8, <1>10, <2>2, <2>3
  <2>6. u = x + j - (d + taken) /\ u < Ahead(at, top) BY <1>4, <2>4, <2>5
  <2> QED BY <1>1, <1>2, <1>3, <2>2, <2>6 DEF HoldsAt
<1>11. HoldsAt(start, ring, sent, got, taken + 1, left, Inc(at), top)
  <2>1. Laid(start, sent) BY <1>2 DEF HoldsAt
  <2> QED BY <1>1, <1>3, <1>9, <1>10, <2>1 DEF HoldsAt
<1> QED BY <1>1, <1>6, <1>11 DEF Holds

\* A message that has been taken whole is followed by the next.
LEMMA HoldsNext ==
  ASSUME NEW sent \in Seq(Seq(Nat)), NEW got \in Seq(Seq(Nat)), NEW m \in Seq(Nat),
         NEW ring, NEW taken \in Nat, NEW left, NEW at, NEW top,
         Len(got) < Len(sent), taken = Len(sent[Len(got) + 1]) + 1,
         Holds(ring, sent, got, taken, left, at, top)
  PROVE  Holds(ring, sent, Append(got, m), 0, left, at, top)
<1>1. PICK n \in Nat, k \in Nat : n = Len(sent) /\ k = Len(got) + 1 /\ k \in 1 .. n
  <2>1. Len(sent) \in Nat /\ Len(got) \in Nat /\ Len(got) + 1 \in 1 .. Len(sent) BY Lengths
  <2> QED BY <2>1
<1>2. PICK start \in [Nat -> Nat] : HoldsAt(start, ring, sent, got, taken, left, at, top)
  BY DEF Holds
<1>3. start[k + 1] + 0 = start[k] + taken
  <2>1. start[k + 1] = start[k] + Len(sent[k]) + 1 BY <1>1, <1>2 DEF HoldsAt, Laid
  <2>2. start[k] \in Nat /\ start[k + 1] \in Nat
    <3>1. k \in Nat /\ k + 1 \in Nat OBVIOUS
    <3> QED BY <3>1
  <2>3. Len(sent[k]) \in Nat BY <1>1, Lengths
  <2> QED BY <1>1, <2>1, <2>2, <2>3
<1>4. Len(Append(got, m)) + 1 = k + 1 BY <1>1
<1>5. HoldsAt(start, ring, sent, Append(got, m), 0, left, at, top)
  BY <1>1, <1>2, <1>3, <1>4 DEF HoldsAt
<1> QED BY <1>5 DEF Holds

\* Where there is a word and none of the next message has been taken, there is a message.
LEMMA MessageThere ==
  ASSUME NEW sent \in Seq(Seq(Nat)), NEW got \in Seq(Seq(Nat)),
         NEW ring, NEW left \in Nat, NEW at \in Ptr, NEW top \in Ptr,
         Len(got) <= Len(sent), at # top, Holds(ring, sent, got, 0, left, at, top)
  PROVE  Len(got) < Len(sent)
<1>1. PICK n \in Nat, g \in Nat : n = Len(sent) /\ g = Len(got) BY Lengths
<1>2. PICK start \in [Nat -> Nat] : HoldsAt(start, ring, sent, got, 0, left, at, top)
  BY DEF Holds
<1>3. Ahead(at, top) = start[n + 1] - left - (start[g + 1] + 0) BY <1>1, <1>2 DEF HoldsAt
<1>4. Ahead(at, top) \in Nat \ {0} BY AheadFacts
<1>5. start[n + 1] \in Nat BY <1>1
<1>6. g # n BY <1>3, <1>4, <1>5
<1> QED BY <1>1, <1>6

-----------------------------------------------------------------------------
(* What the order of the pointers gives the threads.                       *)

LEMMA ChainGives ==
  ASSUME NEW a \in Ptr, NEW b \in Ptr, NEW c \in Ptr, NEW d \in Ptr, NEW e \in Ptr, NEW f \in Ptr,
         Chain(a, b, c, d, e, f)
  PROVE  /\ c # d => c # f
         /\ Inc(f) # a => Inc(f) # c
<1>1. PICK x \in Nat, y \in Nat, z \in Nat, u \in Nat :
        x = Ahead(a, c) /\ y = Ahead(a, d) /\ z = Ahead(a, e) /\ u = Ahead(a, f)
  BY AheadFacts
<1>2. x <= y /\ y <= z /\ z <= u BY <1>1 DEF Chain
<1>3. c # d => x # y BY <1>1, AheadFacts
<1>4. c # d => c # f BY <1>1, <1>2, <1>3
<1>5. ASSUME Inc(f) # a, Inc(f) = c PROVE FALSE
  <2>1. x = u + 1 BY <1>1, <1>5, AheadFacts
  <2> QED BY <1>2, <2>1
<1> QED BY <1>4, <1>5

LEMMA Places ==
  ASSUME RingInv
  PROVE  /\ inRd \in Ptr /\ inWr \in Ptr /\ outRd \in Ptr /\ outWr \in Ptr
         /\ InOld \in Ptr /\ DriverAt \in Ptr /\ InSeen \in Ptr /\ StreamTop \in Ptr
         /\ OutOld \in Ptr /\ StreamAt \in Ptr /\ OutSeen \in Ptr /\ DriverTop \in Ptr
<1>1. /\ inRd \in Ptr /\ inWr \in Ptr /\ outRd \in Ptr /\ outWr \in Ptr
      /\ drx.rp \in Ptr /\ drx.wp \in Ptr /\ stx.rp \in Ptr /\ stx.wp \in Ptr
      /\ srx.rp \in Ptr /\ srx.wp \in Ptr /\ dtx.rp \in Ptr /\ dtx.wp \in Ptr
  BY DEF RingInv, QueueTypeOK, DeviceTypeOK, DriverTypeOK, StreamTypeOK, DriverReader,
         DriverWriter, StreamReader, StreamWriter
<1> QED BY <1>1 DEF InOld, DriverAt, InSeen, StreamTop, OutOld, StreamAt, OutSeen, DriverTop

\* So no reader meets the writer before the published end, and no writer the reader.
LEMMA RingGives ==
  ASSUME RingInv
  PROVE  /\ DriverAt # InSeen => DriverAt # StreamTop
         /\ Inc(StreamTop) # InOld => Inc(StreamTop) # DriverAt
         /\ StreamAt # OutSeen => StreamAt # DriverTop
         /\ Inc(DriverTop) # OutOld => Inc(DriverTop) # StreamAt
<1>1. /\ DriverAt # InSeen => DriverAt # StreamTop
      /\ Inc(StreamTop) # InOld => Inc(StreamTop) # DriverAt
  <2>1. PICK a \in Ptr, b \in Ptr, c \in Ptr, d \in Ptr, e \in Ptr, f \in Ptr :
          /\ a = InOld /\ b = inRd /\ c = DriverAt /\ d = InSeen /\ e = inWr /\ f = StreamTop
          /\ Chain(a, b, c, d, e, f)
    BY Places DEF RingInv, InChain
  <2>2. c # d => c # f BY <2>1, ChainGives
  <2>3. Inc(f) # a => Inc(f) # c BY <2>1, ChainGives
  <2> QED BY <2>1, <2>2, <2>3
<1>2. /\ StreamAt # OutSeen => StreamAt # DriverTop
      /\ Inc(DriverTop) # OutOld => Inc(DriverTop) # StreamAt
  <2>1. PICK a \in Ptr, b \in Ptr, c \in Ptr, d \in Ptr, e \in Ptr, f \in Ptr :
          /\ a = OutOld /\ b = outRd /\ c = StreamAt /\ d = OutSeen /\ e = outWr /\ f = DriverTop
          /\ Chain(a, b, c, d, e, f)
    BY Places DEF RingInv, OutChain
  <2>2. c # d => c # f BY <2>1, ChainGives
  <2>3. Inc(f) # a => Inc(f) # c BY <2>1, ChainGives
  <2> QED BY <2>1, <2>2, <2>3
<1> QED BY <1>1, <1>2

LEMMA Fields ==
  ASSUME RingInv
  PROVE  /\ drx \in DriverReader /\ dtx \in DriverWriter
         /\ srx \in StreamReader /\ stx \in StreamWriter
         /\ drx.data \in Seq(Nat) /\ srx.data \in Seq(Nat)
         /\ stx.msg \in Seq(Nat) /\ dtx.msg \in Seq(Nat) /\ stx.i \in Nat /\ dtx.i \in Nat
         /\ Len(stx.msg) \in Nat /\ Len(dtx.msg) \in Nat
         /\ Len(drx.data) \in Nat /\ Len(srx.data) \in Nat
         /\ driverSz \in Nat \cup {-1} /\ streamSz \in Nat \cup {-1}
         /\ inSent \in Seq(Seq(Nat)) /\ inGot \in Seq(Seq(Nat))
         /\ outSent \in Seq(Seq(Nat)) /\ outGot \in Seq(Seq(Nat))
         /\ mem \in [Addr -> Nat]
<1>1. /\ drx \in DriverReader /\ dtx \in DriverWriter
      /\ srx \in StreamReader /\ stx \in StreamWriter
      /\ driverSz \in Nat \cup {-1} /\ streamSz \in Nat \cup {-1}
      /\ mem \in [Addr -> Nat]
  BY DEF RingInv, QueueTypeOK, DeviceTypeOK, DriverTypeOK, StreamTypeOK
<1>2. /\ inSent \in Seq(Seq(Nat)) /\ inGot \in Seq(Seq(Nat))
      /\ outSent \in Seq(Seq(Nat)) /\ outGot \in Seq(Seq(Nat))
  BY DEF RingInv, QueueTypeOK
<1>3. /\ drx.data \in Seq(Nat) /\ srx.data \in Seq(Nat)
      /\ stx.msg \in Seq(Nat) /\ dtx.msg \in Seq(Nat) /\ stx.i \in Nat /\ dtx.i \in Nat
  BY <1>1 DEF DriverReader, DriverWriter, StreamReader, StreamWriter
<1>4. \A s \in Seq(Nat) : Len(s) \in Nat OBVIOUS
<1> QED BY <1>1, <1>2, <1>3, <1>4

LEMMA LeftNat ==
  ASSUME RingInv
  PROVE  /\ Ending(inSent, stx) => Left(stx) \in Nat
         /\ Ending(outSent, dtx) => Left(dtx) \in Nat
<1>1. PICK i \in Nat, j \in Nat, c \in Nat, d \in Nat :
        i = stx.i /\ j = dtx.i /\ c = Len(stx.msg) /\ d = Len(dtx.msg)
  BY Fields
<1>2. (i <= c + 1 => c + 1 - i \in Nat) /\ (j <= d + 1 => d + 1 - j \in Nat) OBVIOUS
<1> QED BY <1>1, <1>2 DEF Ending, Left

\* What has been taken stays the beginning of its message when another is sent.
LEMMA BegunSend ==
  ASSUME NEW sent \in Seq(Seq(Nat)), NEW got \in Seq(Seq(Nat)), NEW m \in Seq(Nat),
         NEW taken, NEW sz, Begun(sent, got, taken, sz)
  PROVE  /\ Begun(Append(sent, m), got, taken, sz)
         /\ taken > 0 => Append(sent, m)[Len(got) + 1] = sent[Len(got) + 1]
<1>1. PICK n \in Nat, g \in Nat : n = Len(sent) /\ g = Len(got) BY Lengths
<1>2. Len(Append(sent, m)) = n + 1 /\ \A k \in 1 .. n : Append(sent, m)[k] = sent[k] BY <1>1
<1>3. g <= n /\ (taken > 0 => g < n) BY <1>1 DEF Begun
<1>4. g <= n + 1 /\ (taken > 0 => g < n + 1 /\ g + 1 \in 1 .. n) BY <1>3
<1>5. taken > 0 => Append(sent, m)[g + 1] = sent[g + 1] BY <1>2, <1>4
<1> QED BY <1>1, <1>2, <1>4, <1>5 DEF Begun

-----------------------------------------------------------------------------
(* The stream to the processor.                                            *)

LEMMA InSends ==
  ASSUME RingInv, InStream, StreamSends
  PROVE  InStream'
<1>1. PICK m \in Messages : StrWrite(m) /\ inSent' = Append(inSent, m) BY DEF StreamSends
<1>2. m \in Seq(Nat) BY MessageAssumption
<1>3. /\ stx.pc = "idle" /\ stx'.pc = "ptrs" /\ stx'.i = 0 /\ stx'.msg = m
      /\ UNCHANGED <<inRd, inWr, mem, drx, driverSz, inGot>>
  BY <1>1, Fields DEF StrWrite, StreamWriter, StreamSends, driverVars, inRing
<1>4. /\ DriverAt' = DriverAt /\ StreamTop' = StreamTop /\ InWords' = InWords
      /\ InTaken' = InTaken
  BY <1>3 DEF DriverAt, StreamTop, InWords, InTaken
<1>5. Left(stx) = 0 /\ Left(stx)' = Len(m) + 1
  <2>1. Len(m) + 1 - 0 = Len(m) + 1 BY <1>2
  <2> QED BY <1>3, <2>1 DEF Left
<1>6. InTaken \in Nat BY Fields DEF InTaken
<1>7. Begun(inSent, inGot, InTaken, driverSz) BY DEF InStream
<1>8. /\ Begun(Append(inSent, m), inGot, InTaken, driverSz)
      /\ InTaken > 0 => Append(inSent, m)[Len(inGot) + 1] = inSent[Len(inGot) + 1]
  BY <1>2, <1>7, Fields, BegunSend
<1>9. Holds(InWords, Append(inSent, m), inGot, InTaken, Len(m) + 1, DriverAt, StreamTop)
  <2>1. Len(inGot) <= Len(inSent) BY <1>7 DEF Begun
  <2>2. Holds(InWords, inSent, inGot, InTaken, 0, DriverAt, StreamTop) BY <1>5 DEF InStream
  <2> QED BY <1>2, <1>6, <2>1, <2>2, Fields, Places, HoldsSend
<1>10. drx.pc \in {"rd_rp", "rd_wp", "rd_loop"} => Prefix(Append(inSent, m), inGot, drx.data, driverSz)
  <2>1. drx.pc \in {"rd_rp", "rd_wp", "rd_loop"} => InTaken > 0 BY Fields DEF InTaken
  <2> QED BY <1>8, <2>1 DEF InStream, Prefix
<1>11. Ending(inSent, stx)'
  <2>1. /\ Append(inSent, m) # <<>> /\ Append(inSent, m)[Len(Append(inSent, m))] = m
        /\ 0 <= Len(m) + 1
    BY <1>2, Fields, LastAppended
  <2> QED BY <1>1, <1>3, <2>1 DEF Ending
<1> QED BY <1>1, <1>3, <1>4, <1>5, <1>8, <1>9, <1>10, <1>11 DEF InStream

\* A step that stores nothing and leaves the reader alone.
LEMMA InReaderKept ==
  ASSUME InStream, UNCHANGED <<inSent, inGot, driverSz, drx, inRd>>,
         InWords' = InWords, StreamTop' = StreamTop, Left(stx)' = Left(stx), Ending(inSent, stx)'
  PROVE  InStream'
<1>1. DriverAt' = DriverAt /\ InTaken' = InTaken BY DEF DriverAt, InTaken
<1> QED BY <1>1 DEF InStream

LEMMA InWrites ==
  ASSUME RingInv, InStream, StreamWrites
  PROVE  InStream'
<1>1. UNCHANGED <<inSent, inGot, driverSz, drx, inRd>>
  BY DEF StreamWrites, driverVars, inLog, inRing, StrWritePtrs, StrWriteWord, StrWriteFull,
         StrWriteEnd
<1>2. Ending(inSent, stx) BY DEF InStream
<1>3. CASE StrWritePtrs
  <2>1. /\ stx.pc = "ptrs" /\ stx'.pc = "loop" /\ stx'.i = stx.i /\ stx'.msg = stx.msg
        /\ stx'.wp = inWr /\ mem' = mem /\ inWr' = inWr
    BY <1>3, Fields DEF StrWritePtrs, StreamWriter, inRing
  <2>2. InWords' = InWords /\ StreamTop' = StreamTop /\ Left(stx)' = Left(stx)
    BY <2>1 DEF InWords, StreamTop, Left
  <2>3. Ending(inSent, stx)' BY <1>1, <1>2, <2>1 DEF Ending
  <2> QED BY <1>1, <2>2, <2>3, InReaderKept
<1>4. CASE StrWriteFull
  <2>1. /\ stx.pc = "loop" /\ stx'.pc = "asleep" /\ stx'.i = stx.i /\ stx'.msg = stx.msg
        /\ mem' = mem /\ inWr' = stx.wp
    BY <1>4, Fields DEF StrWriteFull, StreamWriter
  <2>2. InWords' = InWords /\ StreamTop' = StreamTop /\ Left(stx)' = Left(stx)
    BY <2>1 DEF InWords, StreamTop, Left
  <2>3. Ending(inSent, stx)' BY <1>1, <1>2, <2>1 DEF Ending
  <2> QED BY <1>1, <2>2, <2>3, InReaderKept
<1>5. CASE StrWriteEnd
  <2>1. /\ stx.pc = "loop" /\ stx'.pc = "idle" /\ stx.i > Len(stx.msg)
        /\ mem' = mem /\ inWr' = stx.wp
    BY <1>5, Fields DEF StrWriteEnd, StreamWriter
  <2>2. InWords' = InWords /\ StreamTop' = StreamTop BY <2>1 DEF InWords, StreamTop
  <2>3. Left(stx)' = Left(stx)
    <3>1. stx.i <= Len(stx.msg) + 1 BY <1>2, <2>1 DEF Ending
    <3>2. PICK i \in Nat, c \in Nat : i = stx.i /\ c = Len(stx.msg) BY Fields
    <3>3. i = c + 1 BY <2>1, <3>1, <3>2
    <3>4. c + 1 - i = 0 BY <3>3
    <3> QED BY <2>1, <3>2, <3>4 DEF Left
  <2>4. Ending(inSent, stx)' BY <2>1 DEF Ending
  <2> QED BY <1>1, <2>2, <2>3, <2>4, InReaderKept
<1>6. CASE StrWriteWord
  <2>1. /\ stx.pc = "loop" /\ stx'.pc = "loop" /\ stx'.i = stx.i + 1 /\ stx'.msg = stx.msg
        /\ stx'.wp = Inc(stx.wp) /\ inWr' = inWr
        /\ stx.i <= Len(stx.msg) /\ Room(stx.wp, stx.rp)
        /\ mem' = [mem EXCEPT ![stx.wp] = WordOf(stx.msg, stx.i)]
    BY <1>6, Fields DEF StrWriteWord, StreamWriter, inRing
  <2>2. StreamTop = stx.wp /\ StreamTop' = Inc(stx.wp) /\ InOld = stx.rp /\ stx.wp \in Ptr
    BY <2>1, Places DEF StreamTop, InOld
  <2>3. InWords' = [InWords EXCEPT ![stx.wp] = WordOf(stx.msg, stx.i)]
    <3>1. \A s \in Ptr : s \in Addr BY QueueAssumption DEF Ptr, Addr
    <3> QED BY <2>1, <2>2, <3>1, Fields DEF InWords
  <2>4. Inc(stx.wp) # DriverAt BY <2>1, <2>2, RingGives DEF Room
  <2>5. inSent # <<>> /\ stx.msg = inSent[Len(inSent)] BY <1>2, <2>1 DEF Ending
  <2>6. InTaken \in Nat BY Fields DEF InTaken
  <2>7. Holds(InWords, inSent, inGot, InTaken, Len(inSent[Len(inSent)]) + 1 - stx.i, DriverAt, stx.wp)
    BY <2>1, <2>2, <2>5 DEF InStream, Left
  <2>8. DOMAIN InWords = Ptr BY DEF InWords
  <2>9. PICK i \in Nat : i = stx.i BY Fields
  <2>10. Holds([InWords EXCEPT ![stx.wp] = WordOf(inSent[Len(inSent)], i)], inSent, inGot, InTaken,
               Len(inSent[Len(inSent)]) + 1 - (i + 1), DriverAt, Inc(stx.wp))
    BY <2>1, <2>2, <2>4, <2>5, <2>6, <2>7, <2>8, <2>9, Fields, Places, HoldsWrite
  <2>11. Left(stx)' = Len(inSent[Len(inSent)]) + 1 - (i + 1) BY <2>1, <2>5, <2>9 DEF Left
  <2>12. DriverAt' = DriverAt /\ InTaken' = InTaken BY <1>1 DEF DriverAt, InTaken
  <2>13. Holds(InWords, inSent, inGot, InTaken, Left(stx), DriverAt, StreamTop)'
    BY <1>1, <2>2, <2>3, <2>5, <2>9, <2>10, <2>11, <2>12
  <2>14. Ending(inSent, stx)'
    <3>1. stx.i + 1 <= Len(stx.msg) + 1 BY <2>1, Fields
    <3> QED BY <1>1, <1>2, <2>1, <3>1 DEF Ending
  <2> QED BY <1>1, <2>12, <2>13, <2>14 DEF InStream
<1> QED BY <1>3, <1>4, <1>5, <1>6 DEF StreamWrites

\* A step of the reader that takes no word.
LEMMA InWriterKept ==
  ASSUME InStream, UNCHANGED <<inSent, inGot, driverSz, stx, inWr, mem>>,
         DriverAt' = DriverAt, InTaken' = InTaken,
         drx'.pc \in {"rd_rp", "rd_wp", "rd_loop"} => Prefix(inSent, inGot, drx'.data, driverSz),
         drx'.pc = "rd_rp" => drx'.data = <<>>
  PROVE  InStream'
<1>1. StreamTop' = StreamTop /\ Left(stx)' = Left(stx) /\ InWords' = InWords
  BY DEF StreamTop, Left, InWords
<1>2. Ending(inSent, stx)' BY DEF InStream, Ending
<1> QED BY <1>1, <1>2 DEF InStream

\* A step of the reader that takes the next word.
LEMMA InTakes ==
  ASSUME RingInv, InStream, DriverAt # StreamTop,
         UNCHANGED <<inSent, inGot, stx, inWr, mem>>,
         Len(inGot) < Len(inSent), InTaken <= Len(inSent[Len(inGot) + 1]), InTaken \in Nat,
         DriverAt' = Inc(DriverAt), InTaken' = InTaken + 1
  PROVE  /\ mem[DriverAt] = WordOf(inSent[Len(inGot) + 1], InTaken)
         /\ Holds(InWords, inSent, inGot, InTaken, Left(stx), DriverAt, StreamTop)'
         /\ Ending(inSent, stx)'
<1>1. StreamTop' = StreamTop /\ Left(stx)' = Left(stx) /\ InWords' = InWords
  BY DEF StreamTop, Left, InWords
<1>2. Ending(inSent, stx)' BY DEF InStream, Ending
<1>3. Holds(InWords, inSent, inGot, InTaken, Left(stx), DriverAt, StreamTop) BY DEF InStream
<1>4. Left(stx) \in Nat BY LeftNat DEF InStream
<1>5. /\ InWords[DriverAt] = WordOf(inSent[Len(inGot) + 1], InTaken)
      /\ Holds(InWords, inSent, inGot, InTaken + 1, Left(stx), Inc(DriverAt), StreamTop)
  BY <1>3, <1>4, Fields, Places, HoldsRead
<1>6. InWords[DriverAt] = mem[DriverAt] BY Places DEF InWords
<1>7. Holds(InWords, inSent, inGot, InTaken, Left(stx), DriverAt, StreamTop)'
  BY <1>1, <1>5
<1> QED BY <1>2, <1>5, <1>6, <1>7

LEMMA InPeeksWord ==
  ASSUME RingInv, InStream, DrvPeekWord, UNCHANGED <<mem, stx, inSent, inGot>>
  PROVE  InStream'
<1>1. /\ drx.pc = "sz_word" /\ drx'.pc = "sz_pub" /\ drx'.rp = Inc(drx.rp)
      /\ driverSz' = mem[drx.rp] /\ inRd' = inRd /\ inWr' = inWr
  BY Fields DEF DrvPeekWord, DriverReader, inRing
<1>2. DriverAt = inRd /\ drx.rp = inRd /\ DriverAt' = Inc(DriverAt) /\ DriverAt # InSeen
  BY <1>1 DEF DriverAt, InSeen, RingInv, InChain
<1>3. DriverAt # StreamTop BY <1>2, RingGives
<1>4. InTaken = 0 /\ InTaken' = 1 BY <1>1 DEF InTaken
<1>5. Len(inGot) < Len(inSent)
  <2>1. Len(inGot) <= Len(inSent) BY DEF InStream, Begun
  <2>2. Holds(InWords, inSent, inGot, 0, Left(stx), DriverAt, StreamTop) /\ Left(stx) \in Nat
    BY <1>4, LeftNat DEF InStream
  <2> QED BY <1>3, <2>1, <2>2, Fields, Places, MessageThere
<1>6. PICK m \in Seq(Nat) : m = inSent[Len(inGot) + 1]
  BY <1>5, Fields, NextMessage
<1>7. InTaken <= Len(m) /\ InTaken \in Nat /\ InTaken' = InTaken + 1 BY <1>4
<1>8. /\ mem[DriverAt] = WordOf(m, 0)
      /\ Holds(InWords, inSent, inGot, InTaken, Left(stx), DriverAt, StreamTop)'
      /\ Ending(inSent, stx)'
  BY <1>1, <1>2, <1>3, <1>4, <1>5, <1>6, <1>7, InTakes
<1>9. Begun(inSent, inGot, InTaken, driverSz)'
  <2>1. driverSz' = Len(m) BY <1>1, <1>2, <1>8 DEF WordOf
  <2>2. Len(inGot) <= Len(inSent) BY DEF InStream, Begun
  <2> QED BY <1>5, <1>6, <2>1, <2>2 DEF Begun
<1> QED BY <1>1, <1>8, <1>9 DEF InStream

LEMMA InReadsWord ==
  ASSUME RingInv, InStream, DrvReadWord, UNCHANGED <<mem, stx, inSent, inGot>>
  PROVE  InStream'
<1>1. /\ drx.pc = "rd_loop" /\ drx'.pc = "rd_loop" /\ drx'.rp = Inc(drx.rp)
      /\ drx.rp # drx.wp /\ Len(drx.data) < driverSz
      /\ drx'.data = Append(drx.data, mem[drx.rp])
      /\ driverSz' = driverSz /\ inRd' = inRd /\ inWr' = inWr
  BY Fields DEF DrvReadWord, DriverReader, inRing
<1>2. PICK d \in Seq(Nat), z \in Nat, c \in Nat : d = drx.data /\ z = driverSz /\ c = Len(d)
  <2>1. driverSz > 0 BY <1>1, Fields
  <2>2. driverSz \in Nat BY <2>1, Fields
  <2> QED BY <2>2, Fields
<1>3. DriverAt = drx.rp /\ DriverAt' = Inc(DriverAt) /\ DriverAt # InSeen
  <2>1. driverSz > 0 BY <1>1, <1>2
  <2> QED BY <1>1, <2>1 DEF DriverAt, InSeen
<1>4. DriverAt # StreamTop BY <1>3, RingGives
<1>5. InTaken = c + 1 /\ c < z BY <1>1, <1>2 DEF InTaken
<1>6. Begun(inSent, inGot, InTaken, driverSz) /\ Prefix(inSent, inGot, d, z)
  BY <1>1, <1>2 DEF InStream
<1>7. /\ Len(inGot) < Len(inSent) /\ z = Len(inSent[Len(inGot) + 1])
      /\ \A j \in DOMAIN d : d[j] = inSent[Len(inGot) + 1][j]
  BY <1>2, <1>5, <1>6 DEF Begun, Prefix
<1>8. PICK m \in Seq(Nat) : m = inSent[Len(inGot) + 1]
  BY <1>7, Fields, NextMessage
<1>9. PICK w \in Nat : w = mem[DriverAt]
  <2>1. DriverAt \in Addr BY Places, QueueAssumption DEF Ptr, Addr
  <2> QED BY <2>1, Fields
<1>10. Len(Append(d, w)) = c + 1 BY <1>2
<1>11. InTaken' = InTaken + 1 /\ InTaken <= z /\ InTaken \in Nat
  <2>1. drx'.data = Append(d, w) BY <1>1, <1>2, <1>3, <1>9
  <2>2. InTaken' = Len(drx'.data) + 1 BY <1>1 DEF InTaken
  <2> QED BY <1>5, <1>10, <2>1, <2>2
<1>12. /\ w = WordOf(m, c + 1)
       /\ Holds(InWords, inSent, inGot, InTaken, Left(stx), DriverAt, StreamTop)'
       /\ Ending(inSent, stx)'
  BY <1>1, <1>3, <1>4, <1>5, <1>7, <1>8, <1>9, <1>11, InTakes
<1>13. Begun(inSent, inGot, InTaken, driverSz)' BY <1>1, <1>5, <1>6 DEF Begun
<1>14. Prefix(inSent, inGot, Append(d, w), z)
  <2>1. w = m[c + 1] BY <1>12 DEF WordOf
  <2>2. \A j \in DOMAIN Append(d, w) :
          \/ j \in DOMAIN d /\ Append(d, w)[j] = d[j]
          \/ j = c + 1 /\ Append(d, w)[j] = w
    BY <1>2
  <2>3. Len(Append(d, w)) <= z BY <1>5, <1>10
  <2> QED BY <1>7, <1>8, <2>1, <2>2, <2>3 DEF Prefix
<1>15. drx'.data = Append(d, w) BY <1>1, <1>2, <1>3, <1>9
<1>16. Prefix(inSent, inGot, drx.data, driverSz)' BY <1>1, <1>2, <1>14, <1>15 DEF Prefix
<1> QED BY <1>1, <1>12, <1>13, <1>16 DEF InStream

\* The message whose last word has been taken is read: it is the next one sent.
LEMMA InReadsEnd ==
  ASSUME RingInv, InStream, DrvReadEnd, inGot' = Append(inGot, drx.data),
         UNCHANGED <<mem, stx, inSent>>
  PROVE  /\ InStream'
         /\ Len(inGot) < Len(inSent) /\ drx.data = inSent[Len(inGot) + 1]
<1>1. /\ drx.pc = "rd_loop" /\ drx'.pc = "idle" /\ Len(drx.data) = driverSz
      /\ inRd' = drx.rp /\ inWr' = inWr
  BY Fields DEF DrvReadEnd, DriverReader
<1>2. PICK d \in Seq(Nat), c \in Nat : d = drx.data /\ c = Len(d) /\ c = driverSz
  BY <1>1, Fields
<1>3. InTaken = c + 1 /\ InTaken > 0 BY <1>1, <1>2 DEF InTaken
<1>4. Begun(inSent, inGot, InTaken, driverSz) /\ Prefix(inSent, inGot, d, c)
  BY <1>1, <1>2 DEF InStream
<1>5. /\ Len(inGot) < Len(inSent) /\ c = Len(inSent[Len(inGot) + 1])
      /\ \A j \in DOMAIN d : d[j] = inSent[Len(inGot) + 1][j]
  BY <1>2, <1>3, <1>4 DEF Begun, Prefix
<1>6. PICK m \in Seq(Nat) : m = inSent[Len(inGot) + 1] BY <1>5, Fields, NextMessage
<1>7. d = m
  <2>1. d \in [1 .. c -> Nat] /\ DOMAIN d = 1 .. c
    <3>1. Len(d) = c BY <1>2
    <3> QED BY <3>1
  <2>2. m \in [1 .. c -> Nat]
    <3>1. Len(m) = c BY <1>5, <1>6
    <3> QED BY <3>1
  <2>3. \A j \in 1 .. c : d[j] = m[j] BY <1>5, <1>6, <2>1
  <2> QED BY <2>1, <2>2, <2>3
<1>8. DriverAt' = DriverAt /\ StreamTop' = StreamTop /\ InWords' = InWords
      /\ Left(stx)' = Left(stx) /\ InTaken' = 0
  BY <1>1 DEF DriverAt, StreamTop, InWords, Left, InTaken
<1>9. Holds(InWords, inSent, inGot, c + 1, Left(stx), DriverAt, StreamTop)
  BY <1>3 DEF InStream
<1>10. c + 1 = Len(inSent[Len(inGot) + 1]) + 1 /\ c + 1 \in Nat BY <1>5
<1>11. Holds(InWords, inSent, Append(inGot, d), 0, Left(stx), DriverAt, StreamTop)
  BY <1>5, <1>9, <1>10, Fields, HoldsNext
<1>12. Begun(inSent, inGot, InTaken, driverSz)'
  <2>1. PICK g \in Nat, n \in Nat : g = Len(inGot) /\ n = Len(inSent) BY Fields, Lengths
  <2>2. g + 1 <= n BY <1>5, <2>1
  <2>3. Len(Append(inGot, d)) = g + 1 BY <1>2, <2>1, Fields
  <2> QED BY <1>2, <1>8, <2>1, <2>2, <2>3 DEF Begun
<1>13. Ending(inSent, stx)' BY DEF InStream, Ending
<1> QED BY <1>1, <1>2, <1>5, <1>6, <1>7, <1>8, <1>11, <1>12, <1>13 DEF InStream

LEMMA InReads ==
  ASSUME RingInv, InStream, DriverReads
  PROVE  InStream'
<1>1. UNCHANGED <<mem, stx, inSent>> BY DEF DriverReads, streamVars
<1>2. drx.pc \in {"rd_rp", "rd_wp", "rd_loop"} => Prefix(inSent, inGot, drx.data, driverSz)
  BY DEF InStream
<1>3. InChain BY DEF RingInv
<1>4. CASE DrvReadEnd /\ inGot' = Append(inGot, drx.data) BY <1>1, <1>4, InReadsEnd
<1>5. CASE DrvPeekWord /\ UNCHANGED inGot BY <1>1, <1>5, InPeeksWord
<1>6. CASE DrvReadWord /\ UNCHANGED inGot BY <1>1, <1>6, InReadsWord
<1>7. CASE (DrvPeek \/ DrvPeekRp \/ DrvPeekWp \/ DrvPeekPub) /\ UNCHANGED inGot
  <2>1. /\ drx'.pc \notin {"rd_rp", "rd_wp", "rd_loop"} /\ driverSz' = driverSz /\ inWr' = inWr
        /\ InTaken' = InTaken /\ DriverAt' = DriverAt
    BY <1>7, Fields DEF DrvPeek, DrvPeekRp, DrvPeekWp, DrvPeekPub, DriverReader, inRing,
       InTaken, DriverAt
  <2> QED BY <1>1, <1>7, <2>1, InWriterKept
<1>8. CASE DrvRead /\ UNCHANGED inGot
  <2>1. /\ drx.pc = "peeked" /\ drx'.pc = "rd_rp" /\ drx'.data = <<>>
        /\ driverSz' = driverSz /\ inWr' = inWr /\ inRd' = inRd
    BY <1>8, Fields DEF DrvRead, DriverReader, inRing
  <2>2. InTaken' = InTaken /\ InTaken = 1
    <3>1. Len(<<>>) + 1 = 1 OBVIOUS
    <3> QED BY <2>1, <3>1 DEF InTaken
  <2>3. DriverAt' = DriverAt BY <2>1 DEF DriverAt
  <2>4. Prefix(inSent, inGot, <<>>, driverSz)
    <3>1. Begun(inSent, inGot, InTaken, driverSz) BY DEF InStream
    <3>2. Len(inGot) < Len(inSent) /\ driverSz = Len(inSent[Len(inGot) + 1])
      BY <2>2, <3>1 DEF Begun
    <3>3. inSent[Len(inGot) + 1] \in Seq(Nat) BY <3>2, Fields, NextMessage
    <3>4. 0 <= driverSz BY <3>2, <3>3
    <3>5. Len(<<>>) = 0 /\ DOMAIN <<>> = {} OBVIOUS
    <3> QED BY <3>4, <3>5 DEF Prefix
  <2> QED BY <1>1, <1>8, <2>1, <2>2, <2>3, <2>4, InWriterKept
<1>9. CASE (DrvReadRp \/ DrvReadWp) /\ UNCHANGED inGot
  <2>1. /\ drx.pc \in {"rd_rp", "rd_wp"} /\ drx'.pc \in {"rd_wp", "rd_loop"}
        /\ drx'.data = drx.data /\ driverSz' = driverSz /\ inWr' = inWr /\ inRd' = inRd
    BY <1>9, Fields DEF DrvReadRp, DrvReadWp, DriverReader, inRing
  <2>2. drx'.rp = DriverAt
    BY <1>9, Fields DEF DrvReadRp, DrvReadWp, DriverReader, DriverAt
  <2>3. InTaken' = InTaken BY <2>1 DEF InTaken
  <2>4. DriverAt' = DriverAt BY <2>1, <2>2 DEF DriverAt
  <2> QED BY <1>1, <1>2, <1>9, <2>1, <2>3, <2>4, InWriterKept
<1>10. CASE DrvReadDrained /\ UNCHANGED inGot
  <2>1. /\ drx.pc = "rd_loop" /\ drx'.pc = "rd_wp" /\ drx'.rp = drx.rp
        /\ drx'.data = drx.data /\ driverSz' = driverSz /\ inWr' = inWr
    BY <1>10, Fields DEF DrvReadDrained, DriverReader
  <2>2. InTaken' = InTaken /\ DriverAt' = DriverAt BY <2>1 DEF InTaken, DriverAt
  <2> QED BY <1>1, <1>2, <1>10, <2>1, <2>2, InWriterKept
<1> QED BY <1>4, <1>5, <1>6, <1>7, <1>8, <1>9, <1>10 DEF DriverReads

\* A step of anyone else leaves the stream alone.
LEMMA InOthers ==
  ASSUME RingInv, InStream, UNCHANGED <<inRd, inWr, drx, driverSz, inLog>>,
         InWords' = InWords,
         UNCHANGED stx \/ (stx.pc = "asleep" /\ stx' = [stx EXCEPT !.pc = "ptrs"])
  PROVE  InStream'
<1>1. UNCHANGED <<inSent, inGot>> BY DEF inLog
<1>2. /\ (stx'.pc = "idle" <=> stx.pc = "idle") /\ (stx'.pc = "loop" <=> stx.pc = "loop")
      /\ stx'.msg = stx.msg /\ stx'.i = stx.i /\ stx'.wp = stx.wp
  BY Fields DEF StreamWriter
<1>3. StreamTop' = StreamTop /\ Left(stx)' = Left(stx)
  BY <1>2 DEF StreamTop, Left
<1>4. Ending(inSent, stx)' BY <1>1, <1>2 DEF InStream, Ending
<1> QED BY <1>1, <1>3, <1>4, InReaderKept

LEMMA InStreamKept ==
  ASSUME RingInv, InStream, [Next]_vars
  PROVE  InStream'
<1> USE DEF inRing, outRing, driverVars, streamVars, inLog, outLog
<1>1. CASE StreamSends BY <1>1, InSends
<1>2. CASE StreamWrites BY <1>2, InWrites
<1>3. CASE DriverReads BY <1>3, InReads
<1>4. CASE MonitorInbound
  <2>1. UNCHANGED stx \/ (stx.pc = "asleep" /\ stx' = [stx EXCEPT !.pc = "ptrs"])
    BY <1>4 DEF MonitorInbound, StrWriteWake
  <2>2. UNCHANGED <<inRd, inWr, drx, driverSz, inLog, mem>>
    BY <1>4 DEF MonitorInbound, StrWriteWake
  <2>3. InWords' = InWords BY <2>2 DEF InWords
  <2> QED BY <2>1, <2>2, <2>3, InOthers
<1>5. CASE DriverSends \/ DriverWrites
  <2>1. UNCHANGED <<inRd, inWr, drx, driverSz, inLog, stx>>
    BY <1>5 DEF DriverSends, DriverWrites
  <2>2. InWords' = InWords
    <3>1. CASE UNCHANGED mem BY <3>1 DEF InWords
    <3>2. CASE DriverWrites /\ DrvWriteWord
      <4>1. mem' = [mem EXCEPT ![Q + dtx.wp] = WordOf(dtx.msg, dtx.i)]
        BY <3>2 DEF DrvWriteWord
      <4>2. dtx.wp \in Ptr BY Fields DEF DriverWriter
      <4>3. ASSUME NEW s \in Ptr PROVE s # Q + dtx.wp BY <4>2, QueueAssumption DEF Ptr
      <4>4. \A s \in Ptr : mem'[s] = mem[s] BY <4>1, <4>3, Fields
      <4> QED BY <4>4 DEF InWords
    <3> QED BY <1>5, <3>1, <3>2
         DEF DriverSends, DriverWrites, DrvWrite, DrvWriteWp, DrvWriteRp, DrvWriteFull, DrvWriteEnd
  <2> QED BY <2>1, <2>2, InOthers
<1>6. CASE StreamReads \/ MonitorOutbound \/ UNCHANGED vars
  <2>1. UNCHANGED <<inRd, inWr, drx, driverSz, inLog, stx, mem>>
    BY <1>6 DEF StreamReads, MonitorOutbound, vars
  <2>2. InWords' = InWords BY <2>1 DEF InWords
  <2> QED BY <2>1, <2>2, InOthers
<1> QED BY <1>1, <1>2, <1>3, <1>4, <1>5, <1>6 DEF Next
-----------------------------------------------------------------------------
(* The stream from the processor.                                          *)

LEMMA OutSends ==
  ASSUME RingInv, OutStream, DriverSends
  PROVE  OutStream'
<1>1. PICK m \in Messages : DrvWrite(m) /\ outSent' = Append(outSent, m) BY DEF DriverSends
<1>2. m \in Seq(Nat) BY MessageAssumption
<1>3. /\ dtx.pc = "idle" /\ dtx'.pc = "wp" /\ dtx'.i = 0 /\ dtx'.msg = m
      /\ UNCHANGED <<outRd, outWr, mem, srx, streamSz, outGot>>
  BY <1>1, Fields DEF DrvWrite, DriverWriter, DriverSends, streamVars, outRing
<1>4. /\ StreamAt' = StreamAt /\ DriverTop' = DriverTop /\ OutWords' = OutWords
      /\ OutTaken' = OutTaken
  BY <1>3 DEF StreamAt, DriverTop, OutWords, OutTaken
<1>5. Left(dtx) = 0 /\ Left(dtx)' = Len(m) + 1
  <2>1. Len(m) + 1 - 0 = Len(m) + 1 BY <1>2
  <2> QED BY <1>3, <2>1 DEF Left
<1>6. OutTaken \in Nat BY Fields DEF OutTaken
<1>7. Begun(outSent, outGot, OutTaken, streamSz) BY DEF OutStream
<1>8. /\ Begun(Append(outSent, m), outGot, OutTaken, streamSz)
      /\ OutTaken > 0 => Append(outSent, m)[Len(outGot) + 1] = outSent[Len(outGot) + 1]
  BY <1>2, <1>7, Fields, BegunSend
<1>9. Holds(OutWords, Append(outSent, m), outGot, OutTaken, Len(m) + 1, StreamAt, DriverTop)
  <2>1. Len(outGot) <= Len(outSent) BY <1>7 DEF Begun
  <2>2. Holds(OutWords, outSent, outGot, OutTaken, 0, StreamAt, DriverTop) BY <1>5 DEF OutStream
  <2> QED BY <1>2, <1>6, <2>1, <2>2, Fields, Places, HoldsSend
<1>10. srx.pc \in {"rd_ptrs", "rd_loop", "rd_asleep"} => Prefix(Append(outSent, m), outGot, srx.data, streamSz)
  <2>1. srx.pc \in {"rd_ptrs", "rd_loop", "rd_asleep"} => OutTaken > 0 BY Fields DEF OutTaken
  <2> QED BY <1>8, <2>1 DEF OutStream, Prefix
<1>11. Ending(outSent, dtx)'
  <2>1. /\ Append(outSent, m) # <<>> /\ Append(outSent, m)[Len(Append(outSent, m))] = m
        /\ 0 <= Len(m) + 1
    BY <1>2, Fields, LastAppended
  <2> QED BY <1>1, <1>3, <2>1 DEF Ending
<1> QED BY <1>1, <1>3, <1>4, <1>5, <1>8, <1>9, <1>10, <1>11 DEF OutStream

\* A step that stores nothing and leaves the reader alone.
LEMMA OutReaderKept ==
  ASSUME OutStream, UNCHANGED <<outSent, outGot, streamSz, srx, outRd>>,
         OutWords' = OutWords, DriverTop' = DriverTop, Left(dtx)' = Left(dtx), Ending(outSent, dtx)'
  PROVE  OutStream'
<1>1. StreamAt' = StreamAt /\ OutTaken' = OutTaken BY DEF StreamAt, OutTaken
<1> QED BY <1>1 DEF OutStream

LEMMA OutWrites ==
  ASSUME RingInv, OutStream, DriverWrites
  PROVE  OutStream'
<1>1. UNCHANGED <<outSent, outGot, streamSz, srx, outRd>>
  BY DEF DriverWrites, streamVars, outLog, outRing, DrvWriteWp, DrvWriteRp, DrvWriteWord,
         DrvWriteFull, DrvWriteEnd
<1>2. Ending(outSent, dtx) BY DEF OutStream
<1>3. CASE DrvWriteWp \/ DrvWriteRp
  <2>1. /\ dtx.pc # "idle" /\ dtx'.pc # "idle" /\ dtx'.i = dtx.i /\ dtx'.msg = dtx.msg
        /\ mem' = mem /\ outWr' = outWr
    BY <1>3, Fields DEF DrvWriteWp, DrvWriteRp, DriverWriter, outRing
  <2>2. DriverTop' = DriverTop
    BY <1>3, <2>1, Fields DEF DrvWriteWp, DrvWriteRp, DriverWriter, DriverTop
  <2>3. OutWords' = OutWords /\ Left(dtx)' = Left(dtx) BY <2>1 DEF OutWords, Left
  <2>4. Ending(outSent, dtx)' BY <1>1, <1>2, <2>1 DEF Ending
  <2> QED BY <1>1, <2>2, <2>3, <2>4, OutReaderKept
<1>4. CASE DrvWriteFull
  <2>1. /\ dtx.pc = "loop" /\ dtx'.pc = "rp" /\ dtx'.i = dtx.i /\ dtx'.msg = dtx.msg
        /\ mem' = mem /\ outWr' = dtx.wp /\ dtx'.wp = dtx.wp
    BY <1>4, Fields DEF DrvWriteFull, DriverWriter
  <2>2. OutWords' = OutWords /\ DriverTop' = DriverTop /\ Left(dtx)' = Left(dtx)
    BY <2>1 DEF OutWords, DriverTop, Left
  <2>3. Ending(outSent, dtx)' BY <1>1, <1>2, <2>1 DEF Ending
  <2> QED BY <1>1, <2>2, <2>3, OutReaderKept
<1>5. CASE DrvWriteEnd
  <2>1. /\ dtx.pc = "loop" /\ dtx'.pc = "idle" /\ dtx.i > Len(dtx.msg)
        /\ mem' = mem /\ outWr' = dtx.wp
    BY <1>5, Fields DEF DrvWriteEnd, DriverWriter
  <2>2. OutWords' = OutWords /\ DriverTop' = DriverTop BY <2>1 DEF OutWords, DriverTop
  <2>3. Left(dtx)' = Left(dtx)
    <3>1. dtx.i <= Len(dtx.msg) + 1 BY <1>2, <2>1 DEF Ending
    <3>2. PICK i \in Nat, c \in Nat : i = dtx.i /\ c = Len(dtx.msg) BY Fields
    <3>3. i = c + 1 BY <2>1, <3>1, <3>2
    <3>4. c + 1 - i = 0 BY <3>3
    <3> QED BY <2>1, <3>2, <3>4 DEF Left
  <2>4. Ending(outSent, dtx)' BY <2>1 DEF Ending
  <2> QED BY <1>1, <2>2, <2>3, <2>4, OutReaderKept
<1>6. CASE DrvWriteWord
  <2>1. /\ dtx.pc = "loop" /\ dtx'.pc = "loop" /\ dtx'.i = dtx.i + 1 /\ dtx'.msg = dtx.msg
        /\ dtx'.wp = Inc(dtx.wp) /\ outWr' = outWr
        /\ dtx.i <= Len(dtx.msg) /\ Room(dtx.wp, dtx.rp)
        /\ mem' = [mem EXCEPT ![Q + dtx.wp] = WordOf(dtx.msg, dtx.i)]
    BY <1>6, Fields DEF DrvWriteWord, DriverWriter, outRing
  <2>2. DriverTop = dtx.wp /\ DriverTop' = Inc(dtx.wp) /\ OutOld = dtx.rp /\ dtx.wp \in Ptr
    BY <2>1, Places DEF DriverTop, OutOld
  <2>3. OutWords' = [OutWords EXCEPT ![dtx.wp] = WordOf(dtx.msg, dtx.i)]
    <3>1. \A s \in Ptr : Q + s \in Addr /\ (Q + s = Q + dtx.wp <=> s = dtx.wp)
      BY <2>2, QueueAssumption DEF Ptr, Addr
    <3> QED BY <2>1, <2>2, <3>1, Fields DEF OutWords
  <2>4. Inc(dtx.wp) # StreamAt BY <2>1, <2>2, RingGives DEF Room
  <2>5. outSent # <<>> /\ dtx.msg = outSent[Len(outSent)] BY <1>2, <2>1 DEF Ending
  <2>6. OutTaken \in Nat BY Fields DEF OutTaken
  <2>7. Holds(OutWords, outSent, outGot, OutTaken, Len(outSent[Len(outSent)]) + 1 - dtx.i, StreamAt, dtx.wp)
    BY <2>1, <2>2, <2>5 DEF OutStream, Left
  <2>8. DOMAIN OutWords = Ptr BY DEF OutWords
  <2>9. PICK i \in Nat : i = dtx.i BY Fields
  <2>10. Holds([OutWords EXCEPT ![dtx.wp] = WordOf(outSent[Len(outSent)], i)], outSent, outGot, OutTaken,
               Len(outSent[Len(outSent)]) + 1 - (i + 1), StreamAt, Inc(dtx.wp))
    BY <2>1, <2>2, <2>4, <2>5, <2>6, <2>7, <2>8, <2>9, Fields, Places, HoldsWrite
  <2>11. Left(dtx)' = Len(outSent[Len(outSent)]) + 1 - (i + 1) BY <2>1, <2>5, <2>9 DEF Left
  <2>12. StreamAt' = StreamAt /\ OutTaken' = OutTaken BY <1>1 DEF StreamAt, OutTaken
  <2>13. Holds(OutWords, outSent, outGot, OutTaken, Left(dtx), StreamAt, DriverTop)'
    BY <1>1, <2>2, <2>3, <2>5, <2>9, <2>10, <2>11, <2>12
  <2>14. Ending(outSent, dtx)'
    <3>1. dtx.i + 1 <= Len(dtx.msg) + 1 BY <2>1, Fields
    <3> QED BY <1>1, <1>2, <2>1, <3>1 DEF Ending
  <2> QED BY <1>1, <2>12, <2>13, <2>14 DEF OutStream
<1> QED BY <1>3, <1>4, <1>5, <1>6 DEF DriverWrites

\* A step of the reader that takes no word.
LEMMA OutWriterKept ==
  ASSUME OutStream, UNCHANGED <<outSent, outGot, streamSz, dtx, outWr, mem>>,
         StreamAt' = StreamAt, OutTaken' = OutTaken,
         srx'.pc \in {"rd_ptrs", "rd_loop", "rd_asleep"} => Prefix(outSent, outGot, srx'.data, streamSz)
  PROVE  OutStream'
<1>1. DriverTop' = DriverTop /\ Left(dtx)' = Left(dtx) /\ OutWords' = OutWords
  BY DEF DriverTop, Left, OutWords
<1>2. Ending(outSent, dtx)' BY DEF OutStream, Ending
<1> QED BY <1>1, <1>2 DEF OutStream

\* A step of the reader that takes the next word.
LEMMA OutTakes ==
  ASSUME RingInv, OutStream, StreamAt # DriverTop,
         UNCHANGED <<outSent, outGot, dtx, outWr, mem>>,
         Len(outGot) < Len(outSent), OutTaken <= Len(outSent[Len(outGot) + 1]), OutTaken \in Nat,
         StreamAt' = Inc(StreamAt), OutTaken' = OutTaken + 1
  PROVE  /\ mem[Q + StreamAt] = WordOf(outSent[Len(outGot) + 1], OutTaken)
         /\ Holds(OutWords, outSent, outGot, OutTaken, Left(dtx), StreamAt, DriverTop)'
         /\ Ending(outSent, dtx)'
<1>1. DriverTop' = DriverTop /\ Left(dtx)' = Left(dtx) /\ OutWords' = OutWords
  BY DEF DriverTop, Left, OutWords
<1>2. Ending(outSent, dtx)' BY DEF OutStream, Ending
<1>3. Holds(OutWords, outSent, outGot, OutTaken, Left(dtx), StreamAt, DriverTop) BY DEF OutStream
<1>4. Left(dtx) \in Nat BY LeftNat DEF OutStream
<1>5. /\ OutWords[StreamAt] = WordOf(outSent[Len(outGot) + 1], OutTaken)
      /\ Holds(OutWords, outSent, outGot, OutTaken + 1, Left(dtx), Inc(StreamAt), DriverTop)
  BY <1>3, <1>4, Fields, Places, HoldsRead
<1>6. OutWords[StreamAt] = mem[Q + StreamAt] BY Places DEF OutWords
<1>7. Holds(OutWords, outSent, outGot, OutTaken, Left(dtx), StreamAt, DriverTop)'
  BY <1>1, <1>5
<1> QED BY <1>2, <1>5, <1>6, <1>7

LEMMA OutPeeksWord ==
  ASSUME RingInv, OutStream, StrPeekWord, UNCHANGED <<mem, dtx, outSent, outGot>>
  PROVE  OutStream'
<1>1. /\ srx.pc = "sz_word" /\ srx'.pc = "peeked"
      /\ streamSz' = mem[Q + srx.rp] /\ outRd' = Inc(srx.rp) /\ outWr' = outWr
  BY Fields DEF StrPeekWord, StreamReader, outRing
<1>2. StreamAt = outRd /\ srx.rp = outRd /\ StreamAt' = Inc(StreamAt) /\ StreamAt # OutSeen
  BY <1>1 DEF StreamAt, OutSeen, RingInv, OutChain
<1>3. StreamAt # DriverTop BY <1>2, RingGives
<1>4. OutTaken = 0 /\ OutTaken' = 1 BY <1>1 DEF OutTaken
<1>5. Len(outGot) < Len(outSent)
  <2>1. Len(outGot) <= Len(outSent) BY DEF OutStream, Begun
  <2>2. Holds(OutWords, outSent, outGot, 0, Left(dtx), StreamAt, DriverTop) /\ Left(dtx) \in Nat
    BY <1>4, LeftNat DEF OutStream
  <2> QED BY <1>3, <2>1, <2>2, Fields, Places, MessageThere
<1>6. PICK m \in Seq(Nat) : m = outSent[Len(outGot) + 1]
  BY <1>5, Fields, NextMessage
<1>7. OutTaken <= Len(m) /\ OutTaken \in Nat /\ OutTaken' = OutTaken + 1 BY <1>4
<1>8. /\ mem[Q + StreamAt] = WordOf(m, 0)
      /\ Holds(OutWords, outSent, outGot, OutTaken, Left(dtx), StreamAt, DriverTop)'
      /\ Ending(outSent, dtx)'
  BY <1>1, <1>2, <1>3, <1>4, <1>5, <1>6, <1>7, OutTakes
<1>9. Begun(outSent, outGot, OutTaken, streamSz)'
  <2>1. streamSz' = Len(m) BY <1>1, <1>2, <1>8 DEF WordOf
  <2>2. Len(outGot) <= Len(outSent) BY DEF OutStream, Begun
  <2> QED BY <1>5, <1>6, <2>1, <2>2 DEF Begun
<1> QED BY <1>1, <1>8, <1>9 DEF OutStream

LEMMA OutReadsWord ==
  ASSUME RingInv, OutStream, StrReadWord, UNCHANGED <<mem, dtx, outSent, outGot>>
  PROVE  OutStream'
<1>1. /\ srx.pc = "rd_loop" /\ srx'.pc = "rd_loop" /\ srx'.rp = Inc(srx.rp)
      /\ srx.rp # srx.wp /\ Len(srx.data) < streamSz
      /\ srx'.data = Append(srx.data, mem[Q + srx.rp])
      /\ streamSz' = streamSz /\ outRd' = outRd /\ outWr' = outWr
  BY Fields DEF StrReadWord, StreamReader, outRing
<1>2. PICK d \in Seq(Nat), z \in Nat, c \in Nat : d = srx.data /\ z = streamSz /\ c = Len(d)
  <2>1. streamSz > 0 BY <1>1, Fields
  <2>2. streamSz \in Nat BY <2>1, Fields
  <2> QED BY <2>2, Fields
<1>3. StreamAt = srx.rp /\ StreamAt' = Inc(StreamAt) /\ StreamAt # OutSeen
  BY <1>1 DEF StreamAt, OutSeen
<1>4. StreamAt # DriverTop BY <1>3, RingGives
<1>5. OutTaken = c + 1 /\ c < z BY <1>1, <1>2 DEF OutTaken
<1>6. Begun(outSent, outGot, OutTaken, streamSz) /\ Prefix(outSent, outGot, d, z)
  BY <1>1, <1>2 DEF OutStream
<1>7. /\ Len(outGot) < Len(outSent) /\ z = Len(outSent[Len(outGot) + 1])
      /\ \A j \in DOMAIN d : d[j] = outSent[Len(outGot) + 1][j]
  BY <1>2, <1>5, <1>6 DEF Begun, Prefix
<1>8. PICK m \in Seq(Nat) : m = outSent[Len(outGot) + 1]
  BY <1>7, Fields, NextMessage
<1>9. PICK w \in Nat : w = mem[Q + StreamAt]
  <2>1. \A p \in Ptr : Q + p \in Addr BY QueueAssumption DEF Ptr, Addr
  <2>2. Q + StreamAt \in Addr BY <2>1, Places
  <2> QED BY <2>2, Fields
<1>10. Len(Append(d, w)) = c + 1 BY <1>2
<1>11. OutTaken' = OutTaken + 1 /\ OutTaken <= z /\ OutTaken \in Nat
  <2>1. srx'.data = Append(d, w) BY <1>1, <1>2, <1>3, <1>9
  <2>2. OutTaken' = Len(srx'.data) + 1 BY <1>1 DEF OutTaken
  <2> QED BY <1>5, <1>10, <2>1, <2>2
<1>12. /\ w = WordOf(m, c + 1)
       /\ Holds(OutWords, outSent, outGot, OutTaken, Left(dtx), StreamAt, DriverTop)'
       /\ Ending(outSent, dtx)'
  BY <1>1, <1>3, <1>4, <1>5, <1>7, <1>8, <1>9, <1>11, OutTakes
<1>13. Begun(outSent, outGot, OutTaken, streamSz)' BY <1>1, <1>5, <1>6 DEF Begun
<1>14. Prefix(outSent, outGot, Append(d, w), z)
  <2>1. w = m[c + 1] BY <1>12 DEF WordOf
  <2>2. \A j \in DOMAIN Append(d, w) :
          \/ j \in DOMAIN d /\ Append(d, w)[j] = d[j]
          \/ j = c + 1 /\ Append(d, w)[j] = w
    BY <1>2
  <2>3. Len(Append(d, w)) <= z BY <1>5, <1>10
  <2> QED BY <1>7, <1>8, <2>1, <2>2, <2>3 DEF Prefix
<1>15. srx'.data = Append(d, w) BY <1>1, <1>2, <1>3, <1>9
<1>16. Prefix(outSent, outGot, srx.data, streamSz)' BY <1>1, <1>2, <1>14, <1>15 DEF Prefix
<1> QED BY <1>1, <1>12, <1>13, <1>16 DEF OutStream

\* The message whose last word has been taken is read: it is the next one sent.
LEMMA OutReadsEnd ==
  ASSUME RingInv, OutStream, StrReadEnd, outGot' = Append(outGot, srx.data),
         UNCHANGED <<mem, dtx, outSent>>
  PROVE  /\ OutStream'
         /\ Len(outGot) < Len(outSent) /\ srx.data = outSent[Len(outGot) + 1]
<1>1. /\ srx.pc = "rd_loop" /\ srx'.pc = "idle" /\ Len(srx.data) = streamSz
      /\ outRd' = srx.rp /\ outWr' = outWr
  BY Fields DEF StrReadEnd, StreamReader
<1>2. PICK d \in Seq(Nat), c \in Nat : d = srx.data /\ c = Len(d) /\ c = streamSz
  BY <1>1, Fields
<1>3. OutTaken = c + 1 /\ OutTaken > 0 BY <1>1, <1>2 DEF OutTaken
<1>4. Begun(outSent, outGot, OutTaken, streamSz) /\ Prefix(outSent, outGot, d, c)
  BY <1>1, <1>2 DEF OutStream
<1>5. /\ Len(outGot) < Len(outSent) /\ c = Len(outSent[Len(outGot) + 1])
      /\ \A j \in DOMAIN d : d[j] = outSent[Len(outGot) + 1][j]
  BY <1>2, <1>3, <1>4 DEF Begun, Prefix
<1>6. PICK m \in Seq(Nat) : m = outSent[Len(outGot) + 1] BY <1>5, Fields, NextMessage
<1>7. d = m
  <2>1. d \in [1 .. c -> Nat] /\ DOMAIN d = 1 .. c
    <3>1. Len(d) = c BY <1>2
    <3> QED BY <3>1
  <2>2. m \in [1 .. c -> Nat]
    <3>1. Len(m) = c BY <1>5, <1>6
    <3> QED BY <3>1
  <2>3. \A j \in 1 .. c : d[j] = m[j] BY <1>5, <1>6, <2>1
  <2> QED BY <2>1, <2>2, <2>3
<1>8. StreamAt' = StreamAt /\ DriverTop' = DriverTop /\ OutWords' = OutWords
      /\ Left(dtx)' = Left(dtx) /\ OutTaken' = 0
  BY <1>1 DEF StreamAt, DriverTop, OutWords, Left, OutTaken
<1>9. Holds(OutWords, outSent, outGot, c + 1, Left(dtx), StreamAt, DriverTop)
  BY <1>3 DEF OutStream
<1>10. c + 1 = Len(outSent[Len(outGot) + 1]) + 1 /\ c + 1 \in Nat BY <1>5
<1>11. Holds(OutWords, outSent, Append(outGot, d), 0, Left(dtx), StreamAt, DriverTop)
  BY <1>5, <1>9, <1>10, Fields, HoldsNext
<1>12. Begun(outSent, outGot, OutTaken, streamSz)'
  <2>1. PICK g \in Nat, n \in Nat : g = Len(outGot) /\ n = Len(outSent) BY Fields, Lengths
  <2>2. g + 1 <= n BY <1>5, <2>1
  <2>3. Len(Append(outGot, d)) = g + 1 BY <1>2, <2>1, Fields
  <2> QED BY <1>2, <1>8, <2>1, <2>2, <2>3 DEF Begun
<1>13. Ending(outSent, dtx)' BY DEF OutStream, Ending
<1> QED BY <1>1, <1>2, <1>5, <1>6, <1>7, <1>8, <1>11, <1>12, <1>13 DEF OutStream

LEMMA OutReads ==
  ASSUME RingInv, OutStream, StreamReads
  PROVE  OutStream'
<1>1. UNCHANGED <<mem, dtx, outSent>> BY DEF StreamReads, driverVars
<1>2. srx.pc \in {"rd_ptrs", "rd_loop", "rd_asleep"} => Prefix(outSent, outGot, srx.data, streamSz)
  BY DEF OutStream
<1>4. CASE StrReadEnd /\ outGot' = Append(outGot, srx.data) BY <1>1, <1>4, OutReadsEnd
<1>5. CASE StrPeekWord /\ UNCHANGED outGot BY <1>1, <1>5, OutPeeksWord
<1>6. CASE StrReadWord /\ UNCHANGED outGot BY <1>1, <1>6, OutReadsWord
<1>7. CASE (StrPeek \/ StrPeekSome \/ StrPeekNone) /\ UNCHANGED outGot
  <2>1. /\ srx'.pc \notin {"rd_ptrs", "rd_loop", "rd_asleep"} /\ streamSz' = streamSz /\ outWr' = outWr
        /\ OutTaken' = OutTaken /\ StreamAt' = StreamAt
    BY <1>7, Fields DEF StrPeek, StrPeekSome, StrPeekNone, StreamReader, outRing,
       OutTaken, StreamAt
  <2> QED BY <1>1, <1>7, <2>1, OutWriterKept
<1>8. CASE StrRead /\ UNCHANGED outGot
  <2>1. /\ srx.pc = "peeked" /\ srx'.pc = "rd_ptrs" /\ srx'.data = <<>>
        /\ streamSz' = streamSz /\ outWr' = outWr /\ outRd' = outRd
    BY <1>8, Fields DEF StrRead, StreamReader, outRing
  <2>2. OutTaken' = OutTaken /\ OutTaken = 1
    <3>1. Len(<<>>) + 1 = 1 OBVIOUS
    <3> QED BY <2>1, <3>1 DEF OutTaken
  <2>3. StreamAt' = StreamAt BY <2>1 DEF StreamAt
  <2>4. Prefix(outSent, outGot, <<>>, streamSz)
    <3>1. Begun(outSent, outGot, OutTaken, streamSz) BY DEF OutStream
    <3>2. Len(outGot) < Len(outSent) /\ streamSz = Len(outSent[Len(outGot) + 1])
      BY <2>2, <3>1 DEF Begun
    <3>3. outSent[Len(outGot) + 1] \in Seq(Nat) BY <3>2, Fields, NextMessage
    <3>4. 0 <= streamSz BY <3>2, <3>3
    <3>5. Len(<<>>) = 0 /\ DOMAIN <<>> = {} OBVIOUS
    <3> QED BY <3>4, <3>5 DEF Prefix
  <2> QED BY <1>1, <1>8, <2>1, <2>2, <2>3, <2>4, OutWriterKept
<1>9. CASE StrReadPtrs /\ UNCHANGED outGot
  <2>1. /\ srx.pc = "rd_ptrs" /\ srx'.pc = "rd_loop" /\ srx'.rp = outRd
        /\ srx'.data = srx.data /\ streamSz' = streamSz /\ outWr' = outWr /\ outRd' = outRd
    BY <1>9, Fields DEF StrReadPtrs, StreamReader, outRing
  <2>2. OutTaken' = OutTaken /\ StreamAt' = StreamAt BY <2>1 DEF OutTaken, StreamAt
  <2> QED BY <1>1, <1>2, <1>9, <2>1, <2>2, OutWriterKept
<1>10. CASE StrReadDrained /\ UNCHANGED outGot
  <2>1. /\ srx.pc = "rd_loop" /\ srx'.pc = "rd_asleep" /\ outRd' = srx.rp
        /\ srx'.data = srx.data /\ streamSz' = streamSz /\ outWr' = outWr
    BY <1>10, Fields DEF StrReadDrained, StreamReader
  <2>2. OutTaken' = OutTaken /\ StreamAt' = StreamAt BY <2>1 DEF OutTaken, StreamAt
  <2> QED BY <1>1, <1>2, <1>10, <2>1, <2>2, OutWriterKept
<1> QED BY <1>4, <1>5, <1>6, <1>7, <1>8, <1>9, <1>10 DEF StreamReads

\* A step of anyone else leaves the stream alone.
LEMMA OutOthers ==
  ASSUME OutStream, UNCHANGED <<outRd, outWr, srx, streamSz, dtx, outLog>>, OutWords' = OutWords
  PROVE  OutStream'
<1>1. UNCHANGED <<outSent, outGot>> BY DEF outLog
<1>2. DriverTop' = DriverTop /\ Left(dtx)' = Left(dtx) BY DEF DriverTop, Left
<1>3. Ending(outSent, dtx)' BY <1>1 DEF OutStream, Ending
<1> QED BY <1>1, <1>2, <1>3, OutReaderKept

\* The monitor wakes the reader where it was.
LEMMA OutWakes ==
  ASSUME RingInv, OutStream, MonitorOutbound
  PROVE  OutStream'
<1>1. UNCHANGED <<outSent, outGot, streamSz, dtx, outRd, outWr, mem>>
  BY DEF MonitorOutbound, StrReadWake, driverVars, outLog
<1>2. \/ srx.pc = "sz_asleep" /\ srx'.pc = "sz_ptrs"
      \/ srx.pc = "rd_asleep" /\ srx'.pc = "rd_ptrs" /\ srx'.data = srx.data
      \/ srx' = srx
  BY Fields DEF MonitorOutbound, StrReadWake, StreamReader
<1>3. OutTaken' = OutTaken /\ StreamAt' = StreamAt BY <1>1, <1>2 DEF OutTaken, StreamAt
<1>4. srx'.pc \in {"rd_ptrs", "rd_loop", "rd_asleep"} => Prefix(outSent, outGot, srx'.data, streamSz)
  BY <1>2 DEF OutStream
<1> QED BY <1>1, <1>3, <1>4, OutWriterKept

LEMMA OutStreamKept ==
  ASSUME RingInv, OutStream, [Next]_vars
  PROVE  OutStream'
<1> USE DEF outRing, inRing, streamVars, driverVars, outLog, inLog
<1>1. CASE DriverSends BY <1>1, OutSends
<1>2. CASE DriverWrites BY <1>2, OutWrites
<1>3. CASE StreamReads BY <1>3, OutReads
<1>4. CASE MonitorOutbound BY <1>4, OutWakes
<1>5. CASE StreamSends \/ StreamWrites
  <2>1. UNCHANGED <<outRd, outWr, srx, streamSz, outLog, dtx>>
    BY <1>5 DEF StreamSends, StreamWrites
  <2>2. OutWords' = OutWords
    <3>1. CASE UNCHANGED mem BY <3>1 DEF OutWords
    <3>2. CASE StreamWrites /\ StrWriteWord
      <4>1. mem' = [mem EXCEPT ![stx.wp] = WordOf(stx.msg, stx.i)]
        BY <3>2 DEF StrWriteWord
      <4>2. stx.wp \in Ptr BY Fields DEF StreamWriter
      <4>3. ASSUME NEW s \in Ptr PROVE Q + s # stx.wp /\ Q + s \in Addr
        BY <4>2, QueueAssumption DEF Ptr, Addr
      <4>4. \A s \in Ptr : mem'[Q + s] = mem[Q + s] BY <4>1, <4>3, Fields
      <4> QED BY <4>4 DEF OutWords
    <3> QED BY <1>5, <3>1, <3>2
         DEF StreamSends, StreamWrites, StrWrite, StrWritePtrs, StrWriteFull, StrWriteEnd
  <2> QED BY <2>1, <2>2, OutOthers
<1>6. CASE DriverReads \/ MonitorInbound \/ UNCHANGED vars
  <2>1. UNCHANGED <<outRd, outWr, srx, streamSz, outLog, dtx, mem>>
    BY <1>6 DEF DriverReads, MonitorInbound, StrWriteWake, vars
  <2>2. OutWords' = OutWords BY <2>1 DEF OutWords
  <2> QED BY <2>1, <2>2, OutOthers
<1> QED BY <1>1, <1>2, <1>3, <1>4, <1>5, <1>6 DEF Next

-----------------------------------------------------------------------------
(* Both directions together, and what they implement.                      *)

\* Where nothing has been sent there is nothing to hold.
LEMMA HoldsNothing ==
  ASSUME NEW ring, NEW at \in Ptr
  PROVE  Holds(ring, <<>>, <<>>, 0, 0, at, at)
<1>1. PICK start \in [Nat -> Nat] : start = [k \in Nat |-> 0] OBVIOUS
<1>2. Len(<<>>) = 0 /\ 1 .. 0 = {} /\ start[1] = 0 BY <1>1
<1>3. Ahead(at, at) = 0 BY AheadFacts
<1>4. HoldsAt(start, ring, <<>>, <<>>, 0, 0, at, at)
  <2>1. Laid(start, <<>>) BY <1>2 DEF Laid
  <2>2. 0 = start[0 + 1] - 0 - (start[0 + 1] + 0) BY <1>2
  <2> QED BY <1>2, <1>3, <2>1, <2>2 DEF HoldsAt
<1> QED BY <1>4 DEF Holds

LEMMA FifoInit == Init => FifoInv
<1> SUFFICES ASSUME Init PROVE FifoInv
  OBVIOUS
<1>1. RingInv BY RingInit
<1>2. /\ drx.pc = "idle" /\ srx.pc = "idle" /\ stx.pc = "idle" /\ dtx.pc = "idle"
      /\ inRd = 0 /\ inWr = 0 /\ outRd = 0 /\ outWr = 0
      /\ inSent = <<>> /\ inGot = <<>> /\ outSent = <<>> /\ outGot = <<>>
  BY DEF Init, DeviceInit, DriverInit, StreamInit, DriverIdle, SenderIdle
<1>3. /\ InTaken = 0 /\ OutTaken = 0 /\ Left(stx) = 0 /\ Left(dtx) = 0
      /\ DriverAt = 0 /\ StreamTop = 0 /\ StreamAt = 0 /\ DriverTop = 0
  BY <1>2 DEF InTaken, OutTaken, Left, DriverAt, StreamTop, StreamAt, DriverTop
<1>4. 0 \in Ptr BY QueueAssumption DEF Ptr
<1>5. \A sz : Begun(<<>>, <<>>, 0, sz)
  <2>1. Len(<<>>) = 0 OBVIOUS
  <2> QED BY <2>1 DEF Begun
<1>6. InStream BY <1>2, <1>3, <1>4, <1>5, HoldsNothing DEF InStream, Ending
<1>7. OutStream BY <1>2, <1>3, <1>4, <1>5, HoldsNothing DEF OutStream, Ending
<1> QED BY <1>1, <1>6, <1>7 DEF FifoInv

LEMMA FifoNext ==
  ASSUME FifoInv, [Next]_vars
  PROVE  FifoInv'
BY RingNext, InStreamKept, OutStreamKept DEF FifoInv

\* A step sends a message, delivers the next one whole, or does nothing to be seen.
LEMMA InSteps ==
  ASSUME FifoInv, [Next]_vars
  PROVE  [In!Next]_<<inSent, inGot>>
<1> USE DEF inLog
<1>1. CASE StreamSends
  <2>1. \E m \in Messages : inSent' = Append(inSent, m) BY <1>1 DEF StreamSends
  <2>2. inGot' = inGot BY <1>1 DEF StreamSends
  <2> QED BY <2>1, <2>2 DEF In!Next, In!Send
<1>2. CASE DriverReads
  <2>1. inSent' = inSent BY <1>2 DEF DriverReads
  <2>2. CASE DrvReadEnd /\ inGot' = Append(inGot, drx.data)
    <3>1. UNCHANGED <<mem, stx, inSent>> BY <1>2 DEF DriverReads, streamVars
    <3>2. Len(inGot) < Len(inSent) /\ drx.data = inSent[Len(inGot) + 1]
      BY <2>2, <3>1, InReadsEnd DEF FifoInv
    <3> QED BY <2>1, <2>2, <3>2 DEF In!Next, In!Deliver
  <2> QED BY <1>2, <2>1, <2>2 DEF DriverReads
<1> QED BY <1>1, <1>2
     DEF Next, StreamWrites, MonitorInbound, DriverSends, DriverWrites, StreamReads,
         MonitorOutbound, vars

LEMMA OutSteps ==
  ASSUME FifoInv, [Next]_vars
  PROVE  [Out!Next]_<<outSent, outGot>>
<1> USE DEF outLog
<1>1. CASE DriverSends
  <2>1. \E m \in Messages : outSent' = Append(outSent, m) BY <1>1 DEF DriverSends
  <2>2. outGot' = outGot BY <1>1 DEF DriverSends
  <2> QED BY <2>1, <2>2 DEF Out!Next, Out!Send
<1>2. CASE StreamReads
  <2>1. outSent' = outSent BY <1>2 DEF StreamReads
  <2>2. CASE StrReadEnd /\ outGot' = Append(outGot, srx.data)
    <3>1. UNCHANGED <<mem, dtx, outSent>> BY <1>2 DEF StreamReads, driverVars
    <3>2. Len(outGot) < Len(outSent) /\ srx.data = outSent[Len(outGot) + 1]
      BY <2>2, <3>1, OutReadsEnd DEF FifoInv
    <3> QED BY <2>1, <2>2, <3>2 DEF Out!Next, Out!Deliver
  <2> QED BY <1>2, <2>1, <2>2 DEF StreamReads
<1> QED BY <1>1, <1>2
     DEF Next, StreamSends, StreamWrites, MonitorInbound, DriverWrites, DriverReads,
         MonitorOutbound, vars

\* Messages to the processor are read once, whole and in the order sent, whatever their
\* length and whatever the order in which the four threads and the monitor go.
THEOREM InboundIsFifo == Spec => InboundFifo
<1>1. Init => FifoInv /\ In!Init BY FifoInit DEF Init, In!Init
<1>2. FifoInv /\ [Next]_vars => FifoInv' /\ [In!Next]_<<inSent, inGot>>
  BY FifoNext, InSteps
<1> QED BY <1>1, <1>2, PTL DEF Spec, InboundFifo, In!Spec

\* So are messages from the processor.
THEOREM OutboundIsFifo == Spec => OutboundFifo
<1>1. Init => FifoInv /\ Out!Init BY FifoInit DEF Init, Out!Init
<1>2. FifoInv /\ [Next]_vars => FifoInv' /\ [Out!Next]_<<outSent, outGot>>
  BY FifoNext, OutSteps
<1> QED BY <1>1, <1>2, PTL DEF Spec, OutboundFifo, Out!Spec
=============================================================================

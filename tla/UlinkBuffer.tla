---------------------------- MODULE UlinkBuffer -----------------------------
(***************************************************************************)
(* ulink_buffer: a queue of bytes in a chain of pages, written at one end  *)
(* and read at the other; pages that have been read are kept for reuse.    *)
(* A buffer is a record b; page numbers stand for pointers, 0 for null.    *)
(***************************************************************************)
EXTENDS Integers, SequencesExt

CONSTANT PageSize   \* m_page_sz

ASSUME PageAssumption == PageSize \in Nat \ {0}

FreshPage == [wr |-> 0, rd |-> 0, next |-> 0, data |-> [i \in 1 .. PageSize |-> 0]]

NewBuffer == [page |-> <<FreshPage>>, write |-> 1, read |-> 1, free |-> 0]

-----------------------------------------------------------------------------
(* The statements of write, alloc_page, read and free_page, as functions   *)
(* of the buffer.                                                          *)

\* wr_ptr++, and the byte put where the count was.
CountByte(b)   == [b EXCEPT !.page[b.write].wr = @ + 1]
FillByte(b, x) == [b EXCEPT !.page[b.write].data[b.page[b.write].wr] = x]

\* alloc_page, first being the free page it has seen (line 83): the page, and the buffer.
PageFrom(b, first) == IF first # 0 THEN first ELSE Len(b.page) + 1

\* Mutant: a page that is used again keeps its read pointer.
AfterAllocDirty(b, first) ==
  IF first = 0 THEN [b EXCEPT !.page = Append(@, FreshPage)]
  ELSE [b EXCEPT !.free = b.page[b.free].next, !.page[first].next = 0, !.page[first].wr = 0]

AfterAlloc(b, first) ==
  IF first = 0 THEN [b EXCEPT !.page = Append(@, FreshPage)]
  ELSE [b EXCEPT !.free = b.page[b.free].next,
                 !.page[first] = [FreshPage EXCEPT !.data = b.page[first].data]]

LinkPage(b, p) == [b EXCEPT !.page[b.write].next = p]
MoveOn(b)      == [b EXCEPT !.write = b.page[b.write].next]

\* On to the next page to read; the page left is put before the free ones.
LeavePage(b)   == [b EXCEPT !.read = b.page[b.read].next]
FreeLink(b, p) == [b EXCEPT !.page[p].next = b.free]
FreeHead(b, p) == [b EXCEPT !.free = p]
FreePage(b, p) == FreeHead(FreeLink(b, p), p)

-----------------------------------------------------------------------------
(* The calls that nobody interrupts: those of the interrupt handler, and   *)
(* the main loop's while the handler is off.                               *)

Store(b, x) == FillByte(CountByte(b), x)

GrowFrom(b, first) == MoveOn(LinkPage(AfterAlloc(b, first), PageFrom(b, first)))

\* write, one byte: a page that is full is followed by a new one at once.
WriteByte(b, x) ==
  LET c == Store(b, x)
  IN  IF c.page[c.write].wr < PageSize THEN c ELSE GrowFrom(c, c.free)

Write(b, bytes) == FoldLeft(WriteByte, b, bytes)

-----------------------------------------------------------------------------
(* read.  A reading r is a buffer, how many bytes are wanted, the bytes    *)
(* taken so far, and whether the loop has been left.                       *)

\* The inner loop: what there is on the page that is read.
TakeBytes(r) ==
  LET page == r.b.page[r.b.read]
      m    == Min({page.wr - page.rd, r.n - Len(r.out)})
  IN  [r EXCEPT !.out = @ \o SubSeq(page.data, page.rd + 1, page.rd + m),
                !.b.page[r.b.read].rd = @ + m]

\* Mutant: a page that has been read is not kept.
ReadPageLeaks(r) ==
  LET t    == TakeBytes(r)
      page == t.b.page[t.b.read]
  IN  IF page.rd >= page.wr /\ page.wr >= PageSize
      THEN [t EXCEPT !.b.read = page.next]
      ELSE [t EXCEPT !.end = page.rd >= page.wr]

\* One turn of the outer loop: then on to the next page, or out.
ReadPage(r) ==
  LET t    == TakeBytes(r)
      page == t.b.page[t.b.read]
  IN  IF page.rd >= page.wr /\ page.wr >= PageSize
      THEN [t EXCEPT !.b = FreePage(LeavePage(t.b), t.b.read)]
      ELSE [t EXCEPT !.end = page.rd >= page.wr]

Turn(r) == IF r.end \/ r.b.read = 0 \/ Len(r.out) >= r.n THEN r ELSE ReadPage(r)

\* The choice is from a set of one: it has each turn evaluated once.
Read(b, n) ==
  LET turn[k \in 0 .. n + 1] ==
        IF k = 0 THEN [b |-> b, n |-> n, out |-> <<>>, end |-> FALSE]
        ELSE CHOOSE s \in {Turn(r) : r \in {turn[k - 1]}} : TRUE
  IN  turn[n + 1]

-----------------------------------------------------------------------------
(* What a buffer holds.                                                    *)

\* Bytes are numbers: k bytes that follow the first n.
Following(n, k) == [i \in 1 .. k |-> n + i]

\* The pages from p on, along next.
Chain(b, p) ==
  LET walk[k \in 0 .. Len(b.page)] ==
        IF k = 0 THEN <<>>
        ELSE LET before == walk[k - 1]
                 next   == IF before = <<>> THEN p ELSE b.page[Last(before)].next
             IN  IF next = 0 THEN before ELSE Append(before, next)
  IN  walk[Len(b.page)]

Content(b) ==
  LET chain == Chain(b, b.read)
  IN  FlattenSeq([i \in DOMAIN chain |->
        LET page == b.page[chain[i]] IN SubSeq(page.data, page.rd + 1, page.wr)])

\* Every page is in the chain that is read and written, or free, and in one place only;
\* the page that is written is the last of the chain.
PagesSound(b) ==
  LET used == Chain(b, b.read)
      all  == used \o Chain(b, b.free)
  IN  /\ Len(all) = Len(b.page) /\ Range(all) = DOMAIN b.page
      /\ used # <<>> /\ Last(used) = b.write

HasRoom(b) == b.page[b.write].wr < PageSize
=============================================================================

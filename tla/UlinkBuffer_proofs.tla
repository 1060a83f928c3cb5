------------------------- MODULE UlinkBuffer_proofs -------------------------
(***************************************************************************)
(* Lemmas about ulink_buffer, for pages of any size: what write and read   *)
(* do to the bytes a buffer holds and to its pages.  "A buffer holds the   *)
(* bytes after the first `from`, up to `to`" is the predicate Held: there  *)
(* is a list of the pages in use and one of the pages to spare, linked as  *)
(* the code links them, and a function that says with which byte each page *)
(* begins.  Write is a fold, Read and Chain are recursive functions: what  *)
(* they yield is proved by induction on the number of bytes, turns, pages. *)
(*                                                                         *)
(* A whole read in the middle of a write, and a whole write in the middle  *)
(* of a read, are compared with what they do to a buffer that nobody is in *)
(* the middle of: Twin relates a buffer to the one that it will be when    *)
(* write has done what it is about to do, Detached a buffer to the one     *)
(* that it was before read began to give a page back.                      *)
(***************************************************************************)
EXTENDS UlinkBuffer, Induction

-----------------------------------------------------------------------------
(* The buffer's pages: the chain in use and the free list as sequences.    *)

\* s is the pages from head on, along next.
Linked(b, head, s) ==
  /\ head = IF s = <<>> THEN 0 ELSE s[1]
  /\ \A i \in 1 .. Len(s) :
       /\ s[i] \in 1 .. Len(b.page)
       /\ b.page[s[i]].next = IF i < Len(s) THEN s[i + 1] ELSE 0

Begin(s, k) == [i \in 1 .. k |-> s[i]]

AtMost(n, k) == IF k <= n THEN k ELSE n

\* One step of the walk of Chain.
WalkOn(b, head, before) ==
  LET next == IF before = <<>> THEN head ELSE b.page[Last(before)].next
  IN  IF next = 0 THEN before ELSE Append(before, next)

LEMMA ChainIs ==
  ASSUME NEW b, NEW head, NEW s \in Seq(Nat), Len(b.page) \in Nat, Linked(b, head, s),
         Len(s) <= Len(b.page)
  PROVE  Chain(b, head) = s
<1>1. PICK N \in Nat, n \in Nat : N = Len(b.page) /\ n = Len(s) /\ n <= N
  <2>1. Len(s) \in Nat OBVIOUS
  <2> QED BY <2>1
<1> DEFINE To(k) == AtMost(n, k)
           StepTo(before) == WalkOn(b, head, before)
           W == [k \in 0 .. N |-> Begin(s, To(k))]
           Walks(g) == g = [k \in 0 .. N |->
             IF k = 0 THEN <<>>
             ELSE LET before == g[k - 1]
                      next   == IF before = <<>> THEN head ELSE b.page[Last(before)].next
                  IN  IF next = 0 THEN before ELSE Append(before, next)]
<1>2. Chain(b, head) = (CHOOSE g : Walks(g))[N]
  BY <1>1 DEF Chain
<1>3. \A g : Walks(g) <=> g = [k \in 0 .. N |-> IF k = 0 THEN <<>> ELSE StepTo(g[k - 1])]
  BY DEF WalkOn
<1>4. Begin(s, 0) = <<>> BY DEF Begin
<1>5. ASSUME NEW k \in 1 .. N PROVE StepTo(Begin(s, To(k - 1))) = Begin(s, To(k))
  <2>1. CASE k = 1 /\ n > 0
    <3>1. To(k - 1) = 0 /\ To(k) = 1 BY <2>1 DEF AtMost
    <3>2. s # <<>> /\ s[1] \in 1 .. N /\ head = s[1] BY <1>1, <2>1 DEF Linked
    <3>3. StepTo(<<>>) = Append(<<>>, s[1]) BY <3>2 DEF WalkOn
    <3>4. Append(<<>>, s[1]) = Begin(s, 1) BY DEF Begin
    <3> QED BY <1>4, <3>1, <3>3, <3>4
  <2>2. CASE n = 0
    <3>1. To(k - 1) = 0 /\ To(k) = 0 BY <2>2 DEF AtMost
    <3>2. s = <<>> /\ head = 0
      <4>1. Len(s) = 0 BY <1>1, <2>2
      <4>2. s = <<>> BY <4>1
      <4> QED BY <4>2 DEF Linked
    <3>3. StepTo(<<>>) = <<>> BY <3>2 DEF WalkOn
    <3> QED BY <1>4, <3>1, <3>3
  <2>3. CASE k > 1 /\ k <= n
    <3>1. To(k - 1) = k - 1 /\ To(k) = k /\ k - 1 \in 1 .. n /\ (k - 1) + 1 = k /\ k - 1 < n BY <2>3 DEF AtMost
    <3>2. b.page[s[k - 1]].next = s[k] /\ s[k] \in 1 .. N
      <4>1. k \in 1 .. n /\ s[(k - 1) + 1] = s[k] BY <2>3, <3>1
      <4>2. b.page[s[k - 1]].next = s[(k - 1) + 1] BY <1>1, <3>1 DEF Linked
      <4>3. s[k] \in 1 .. N BY <1>1, <4>1 DEF Linked
      <4> QED BY <4>1, <4>2, <4>3
    <3>3. Begin(s, k - 1) # <<>> /\ Len(Begin(s, k - 1)) = k - 1 /\ Last(Begin(s, k - 1)) = s[k - 1]
      BY <3>1 DEF Begin, Last
    <3>4. StepTo(Begin(s, k - 1)) = Append(Begin(s, k - 1), s[k]) BY <3>2, <3>3 DEF WalkOn
    <3>5. Append(Begin(s, k - 1), s[k]) = Begin(s, k) BY <3>1 DEF Begin
    <3> QED BY <3>1, <3>4, <3>5
  <2>4. CASE k > n /\ n > 0
    <3>1. To(k - 1) = n /\ To(k) = n /\ n \in 1 .. n /\ ~(n < n) BY <1>1, <2>4 DEF AtMost
    <3>2. b.page[s[n]].next = 0 BY <1>1, <3>1 DEF Linked
    <3>3. Begin(s, n) # <<>> /\ Last(Begin(s, n)) = s[n] BY <1>1, <2>4 DEF Begin, Last
    <3>4. StepTo(Begin(s, n)) = Begin(s, n) BY <3>2, <3>3 DEF WalkOn
    <3> QED BY <3>1, <3>4
  <2> QED BY <1>1, <2>1, <2>2, <2>3, <2>4
<1>6. To(0) = 0 BY <1>1 DEF AtMost
<1>7. Walks(W)
  <2>1. \A k \in 1 .. N : k - 1 \in 0 .. N /\ W[k - 1] = Begin(s, To(k - 1)) OBVIOUS
  <2>2. \A k \in 0 .. N : Begin(s, To(k)) = IF k = 0 THEN <<>> ELSE StepTo(W[k - 1])
    BY <1>4, <1>5, <1>6, <2>1
  <2>3. W = [k \in 0 .. N |-> IF k = 0 THEN <<>> ELSE StepTo(W[k - 1])] BY <2>2
  <2> QED BY <1>3, <2>3
<1> HIDE DEF Walks
<1>8. PICK g : g = (CHOOSE h : Walks(h)) /\ Walks(g)
  BY <1>7
<1>9. \A k \in 0 .. N : g[k] = IF k = 0 THEN <<>> ELSE StepTo(g[k - 1])
  BY <1>3, <1>8
<1> DEFINE S == {k \in 0 .. N : g[k] = Begin(s, To(k))}
<1>10. 0 \in S BY <1>4, <1>6, <1>9, <1>1
<1>11. ASSUME NEW k \in 0 .. N - 1, k \in S PROVE k + 1 \in S
  <2>1. k + 1 \in 1 .. N /\ (k + 1) - 1 = k OBVIOUS
  <2>2. StepTo(Begin(s, To(k))) = Begin(s, To(k + 1)) BY <1>5, <2>1
  <2>3. g[k + 1] = StepTo(g[k])
    <3>1. k + 1 \in 0 .. N /\ k + 1 # 0 BY <2>1
    <3>2. g[k + 1] = StepTo(g[(k + 1) - 1]) BY <1>9, <3>1
    <3> QED BY <2>1, <3>2
  <2> QED BY <1>11, <2>1, <2>2, <2>3
<1> HIDE DEF S
<1>12. N \in S
  <2>1. N \in Nat /\ N \in 0 .. N BY <1>1
  <2>2. \A k \in 0 .. N : k \in S BY <1>10, <1>11, <2>1, InductionUpTo
  <2> QED BY <2>1, <2>2
<1>13. g[N] = Begin(s, n) BY <1>1, <1>12 DEF S, AtMost
<1>14. Begin(s, n) = s BY <1>1 DEF Begin
<1> QED BY <1>2, <1>8, <1>13, <1>14

-----------------------------------------------------------------------------
(* Numbered bytes.                                                         *)

LEMMA FollowingFacts ==
  ASSUME NEW a \in Nat, NEW k \in Nat
  PROVE  /\ Following(a, k) \in Seq(Nat) /\ Len(Following(a, k)) = k
         /\ DOMAIN Following(a, k) = 1 .. k
         /\ \A i \in 1 .. k : Following(a, k)[i] = a + i
         /\ Following(a, k) = <<>> <=> k = 0
BY DEF Following

LEMMA NoneFollow == \A a : Following(a, 0) = <<>>
BY DEF Following

LEMMA FollowingJoin ==
  ASSUME NEW a \in Nat, NEW k \in Nat, NEW l \in Nat
  PROVE  Following(a, k) \o Following(a + k, l) = Following(a, k + l)
<1>0. PICK b \in Nat : b = a + k
  OBVIOUS
<1>1. PICK s \in Seq(Nat), t \in Seq(Nat) : s = Following(a, k) /\ t = Following(b, l)
  BY FollowingFacts
<1>2. Len(s) = k /\ Len(t) = l /\ \A i \in 1 .. k : s[i] = a + i
  BY <1>1, FollowingFacts
<1>3. \A i \in 1 .. l : t[i] = b + i
  BY <1>1, FollowingFacts
<1>4. s \o t \in Seq(Nat) /\ Len(s \o t) = k + l /\ DOMAIN (s \o t) = 1 .. k + l
  BY <1>2
<1>5. ASSUME NEW i \in 1 .. k + l PROVE (s \o t)[i] = a + i
  <2>1. CASE i <= k BY <1>2, <2>1
  <2>2. CASE i > k
    <3>1. (s \o t)[i] = t[i - k] /\ i - k \in 1 .. l BY <1>2, <2>2
    <3>2. t[i - k] = b + (i - k) BY <1>3, <3>1
    <3>3. b + (i - k) = a + i BY <1>0
    <3> QED BY <3>1, <3>2, <3>3
  <2>3. i <= k \/ i > k OBVIOUS
  <2> QED BY <2>1, <2>2, <2>3
<1>6. s \o t = [i \in 1 .. k + l |-> a + i]
  <2>1. PICK q \in Seq(Nat) : q = s \o t BY <1>4
  <2>2. DOMAIN q = 1 .. k + l /\ \A i \in 1 .. k + l : q[i] = a + i BY <1>4, <1>5, <2>1
  <2>3. q = [i \in 1 .. k + l |-> q[i]] BY <2>2
  <2> QED BY <2>1, <2>2, <2>3
<1> QED BY <1>0, <1>1, <1>6 DEF Following

LEMMA FollowingSplit ==
  ASSUME NEW a \in Nat, NEW b \in Nat, NEW c \in Nat, a <= b, b <= c
  PROVE  Following(a, b - a) \o Following(b, c - b) = Following(a, c - a)
<1>1. PICK x \in Nat, y \in Nat : x = b - a /\ y = c - b /\ b = a + x /\ c - a = x + y
  <2>1. /\ b - a \in Nat /\ c - b \in Nat /\ b = a + (b - a)
        /\ c - a = (b - a) + (c - b)
    OBVIOUS
  <2> QED BY <2>1
<1>2. Following(a, x) \o Following(a + x, y) = Following(a, x + y)
  BY FollowingJoin
<1> QED BY <1>1, <1>2

LEMMA FollowingFirst ==
  ASSUME NEW b \in Nat, NEW c \in Nat, b <= c
  PROVE  Following(0, b) \o Following(b, c - b) = Following(0, c)
<1>1. 0 \in Nat /\ 0 <= b /\ b - 0 = b /\ c - 0 = c
  OBVIOUS
<1>2. Following(0, b - 0) \o Following(b, c - b) = Following(0, c - 0)
  BY <1>1, FollowingSplit
<1> QED BY <1>1, <1>2

\* The first byte goes over to those before it; one more comes behind.
LEMMA FollowingNext ==
  ASSUME NEW a \in Nat, NEW k \in Nat
  PROVE  /\ Append(Following(0, a), Head(Following(a, k + 1))) = Following(0, a + 1)
         /\ Tail(Following(a, k + 1)) = Following(a + 1, k)
         /\ Append(Following(a, k), (a + k) + 1) = Following(a, k + 1)
<1>1. PICK s \in Seq(Nat), t \in Seq(Nat) : s = Following(0, a) /\ t = Following(a, k + 1)
  <2>1. k + 1 \in Nat /\ 0 \in Nat
    OBVIOUS
  <2> QED BY <2>1, FollowingFacts
<1>2. Len(s) = a /\ Len(t) = k + 1 /\ \A i \in 1 .. a : s[i] = i
  BY <1>1 DEF Following
<1>3. \A i \in 1 .. k + 1 : t[i] = a + i
  BY <1>1 DEF Following
<1>4. Head(t) = a + 1
  BY <1>2, <1>3
<1>5. Append(s, a + 1) = Following(0, a + 1)
  <2>1. \A m, n \in Nat : Append(Following(m, n), (m + n) + 1) = Following(m, n + 1)
    BY DEF Following
  <2>2. Append(Following(0, a), (0 + a) + 1) = Following(0, a + 1)
    BY <2>1
  <2>3. (0 + a) + 1 = a + 1
    OBVIOUS
  <2> QED BY <1>1, <2>2, <2>3
<1>6. Tail(t) = [i \in 1 .. k |-> (a + 1) + i]
  <2>1. PICK q \in Seq(Nat) : q = Tail(t)
    <3>1. Len(t) # 0
      BY <1>2
    <3>2. Tail(t) \in Seq(Nat)
      BY <3>1
    <3> QED BY <3>2
  <2>2. DOMAIN q = 1 .. k
    BY <1>2, <2>1
  <2>3. ASSUME NEW i \in 1 .. k PROVE q[i] = (a + 1) + i
    <3>1. q[i] = t[i + 1] /\ i + 1 \in 1 .. k + 1
      BY <1>2, <2>1
    <3> QED BY <1>3, <3>1
  <2>4. q = [i \in 1 .. k |-> q[i]]
    BY <2>2
  <2> QED BY <2>1, <2>3, <2>4
<1>7. Append(Following(a, k), (a + k) + 1) = Following(a, k + 1)
  BY DEF Following
<1> QED BY <1>1, <1>4, <1>5, <1>6, <1>7 DEF Following

\* The k bytes of data behind the first r are those after the first a.
Numbered(data, r, k, a) ==
  /\ data \in [1 .. PageSize -> Nat] /\ r \in Nat /\ k \in Nat /\ a \in Nat
  /\ r + k <= PageSize /\ \A j \in r + 1 .. r + k : data[j] = a + (j - r)

Piece(data, r, k) == SubSeq(data, r + 1, r + k)

LEMMA FollowingSub ==
  ASSUME NEW data, NEW r, NEW k, NEW a, Numbered(data, r, k, a)
  PROVE  Piece(data, r, k) = Following(a, k)
<1>0. /\ r + k <= PageSize /\ data \in [1 .. PageSize -> Nat]
      /\ r \in Nat /\ k \in Nat /\ a \in Nat
  BY DEF Numbered
<1>1. data \in Seq(Nat) /\ Len(data) = PageSize BY <1>0, PageAssumption
<1>2. SubSeq(data, r + 1, r + k) = [i \in 1 .. k |-> data[r + i]]
  <2>1. Len(SubSeq(data, r + 1, r + k)) = k BY <1>0, <1>1
  <2>2. \A i \in 1 .. k : SubSeq(data, r + 1, r + k)[i] = data[r + i] BY <1>0, <1>1
  <2>3. SubSeq(data, r + 1, r + k) \in Seq(Nat) BY <1>0, <1>1
  <2>4. PICK q \in Seq(Nat) : q = SubSeq(data, r + 1, r + k) BY <2>3
  <2>5. DOMAIN q = 1 .. k BY <2>1, <2>4
  <2>6. q = [i \in 1 .. k |-> q[i]] BY <2>5
  <2>7. \A i \in 1 .. k : q[i] = data[r + i] BY <2>2, <2>4
  <2> QED BY <2>4, <2>6, <2>7
<1>3. \A i \in 1 .. k : data[r + i] = a + i
  <2> SUFFICES ASSUME NEW i \in 1 .. k PROVE data[r + i] = a + i OBVIOUS
  <2>1. r + i \in r + 1 .. r + k /\ (r + i) - r = i BY <1>0
  <2> QED BY <1>0, <2>1 DEF Numbered
<1> QED BY <1>2, <1>3 DEF Following, Piece

\* Pieces that follow one another, put together.
Segments(segs, n, lo) ==
  /\ n \in Nat \ {0} /\ Len(segs) = n /\ lo \in [Nat -> Nat]
  /\ \A i \in 1 .. n : lo[i] <= lo[i + 1] /\ segs[i] = Following(lo[i], lo[i + 1] - lo[i])

LEMMA FlattenAre ==
  ASSUME NEW n \in Nat \ {0}, NEW segs, Len(segs) = n, NEW lo \in [Nat -> Nat],
         \A i \in 1 .. n : lo[i] <= lo[i + 1] /\ segs[i] = Following(lo[i], lo[i + 1] - lo[i])
  PROVE  lo[1] <= lo[n + 1] /\ FlattenSeq(segs) = Following(lo[1], lo[n + 1] - lo[1])
<1> DEFINE Flat(g) == g = [i \in 1 .. n |-> IF i = 1 THEN segs[i] ELSE g[i - 1] \o segs[i]]
           W == [i \in 1 .. n |-> Following(lo[1], lo[i + 1] - lo[1])]
<1>1. FlattenSeq(segs) = (CHOOSE g : Flat(g))[n]
  BY DEF FlattenSeq
<1>2. ASSUME NEW i \in 1 .. n, i # 1, lo[1] <= lo[i]
      PROVE  /\ Following(lo[1], lo[i] - lo[1]) \o segs[i] = Following(lo[1], lo[i + 1] - lo[1])
             /\ lo[1] <= lo[i + 1]
  <2>1. PICK a \in Nat, b \in Nat, c \in Nat : a = lo[1] /\ b = lo[i] /\ c = lo[i + 1]
    <3>1. 1 \in Nat /\ i \in Nat /\ i + 1 \in Nat OBVIOUS
    <3> QED BY <3>1
  <2>2. a <= b /\ b <= c BY <1>2, <2>1
  <2>4. Following(a, b - a) \o Following(b, c - b) = Following(a, c - a)
    BY <2>2, FollowingSplit
  <2>5. segs[i] = Following(b, c - b) BY <2>1
  <2>6. a <= c BY <2>2
  <2> QED BY <2>1, <2>4, <2>5, <2>6
<1>3. \A i \in Nat : lo[i] \in Nat OBVIOUS
<1> DEFINE Up == {i \in 0 .. n : lo[1] <= lo[i + 1]}
<1>4. \A i \in 0 .. n : i \in Up
  <2>1. 0 \in Up BY <1>3
  <2>2. ASSUME NEW i \in 0 .. n - 1, i \in Up PROVE i + 1 \in Up
    <3>1. i + 1 \in 1 .. n OBVIOUS
    <3>2. lo[i + 1] <= lo[(i + 1) + 1] BY <3>1
    <3>0. 1 \in Nat /\ i + 1 \in Nat /\ (i + 1) + 1 \in Nat OBVIOUS
    <3>3. lo[1] \in Nat /\ lo[i + 1] \in Nat /\ lo[(i + 1) + 1] \in Nat BY <1>3, <3>0
    <3>4. lo[1] <= lo[(i + 1) + 1] BY <2>2, <3>2, <3>3
    <3> QED BY <3>1, <3>4
  <2> HIDE DEF Up
  <2> QED BY <2>1, <2>2, InductionUpTo
<1>5. ASSUME NEW i \in 1 .. n, i # 1
      PROVE Following(lo[1], lo[i] - lo[1]) \o segs[i] = Following(lo[1], lo[i + 1] - lo[1])
  <2>1. i - 1 \in 0 .. n /\ (i - 1) + 1 = i OBVIOUS
  <2>2. lo[1] <= lo[i] BY <1>4, <2>1
  <2> QED BY <1>2, <1>5, <2>2
<1>6. segs[1] = Following(lo[1], lo[2] - lo[1]) OBVIOUS
<1>7. Flat(W)
  <2>1. \A i \in 1 .. n : i # 1 => i - 1 \in 1 .. n /\ W[i - 1] = Following(lo[1], lo[i] - lo[1])
    <3> SUFFICES ASSUME NEW i \in 1 .. n, i # 1
                 PROVE  i - 1 \in 1 .. n /\ W[i - 1] = Following(lo[1], lo[i] - lo[1])
      OBVIOUS
    <3>1. i - 1 \in 1 .. n /\ (i - 1) + 1 = i OBVIOUS
    <3> QED BY <3>1
  <2> QED BY <1>5, <1>6, <2>1
<1> HIDE DEF Flat
<1>8. PICK g : g = (CHOOSE h : Flat(h)) /\ Flat(g) BY <1>7
<1>9. \A i \in 1 .. n : g[i] = IF i = 1 THEN segs[i] ELSE g[i - 1] \o segs[i]
  BY <1>8 DEF Flat
<1> DEFINE S == {i \in 0 .. n : i = 0 \/ g[i] = Following(lo[1], lo[i + 1] - lo[1])}
<1>10. n \in S
  <2>1. 0 \in S OBVIOUS
  <2>2. ASSUME NEW i \in 0 .. n - 1, i \in S PROVE i + 1 \in S
    <3>1. i + 1 \in 1 .. n /\ (i + 1) - 1 = i OBVIOUS
    <3>2. CASE i = 0
      <4>1. i + 1 = 1 /\ (i + 1) + 1 = 2 /\ 1 \in 1 .. n BY <3>2
      <4>2. g[1] = segs[1] BY <1>9, <4>1
      <4>3. g[i + 1] = Following(lo[1], lo[(i + 1) + 1] - lo[1]) BY <1>6, <4>1, <4>2
      <4> QED BY <3>1, <4>3
    <3>3. CASE i # 0
      <4>1. g[i] = Following(lo[1], lo[i + 1] - lo[1]) BY <2>2, <3>3
      <4>2. i + 1 # 1 BY <3>3
      <4>3. g[i + 1] = g[i] \o segs[i + 1] BY <1>9, <3>1, <4>2
      <4>4. g[i + 1] = Following(lo[1], lo[(i + 1) + 1] - lo[1]) BY <1>5, <3>1, <4>1, <4>2, <4>3
      <4> QED BY <3>1, <4>4
    <3> QED BY <3>2, <3>3
  <2>3. n \in 0 .. n OBVIOUS
  <2> HIDE DEF S
  <2>4. \A i \in 0 .. n : i \in S BY <2>1, <2>2, InductionUpTo
  <2> QED BY <2>3, <2>4
<1>11. g[n] = Following(lo[1], lo[n + 1] - lo[1]) BY <1>10
<1>12. lo[1] <= lo[n + 1]
  <2>1. n \in Up BY <1>4
  <2> QED BY <2>1
<1> QED BY <1>1, <1>8, <1>11, <1>12

LEMMA FlattenIs ==
  ASSUME NEW segs, NEW n, NEW lo, Segments(segs, n, lo)
  PROVE  lo[1] <= lo[n + 1] /\ FlattenSeq(segs) = Following(lo[1], lo[n + 1] - lo[1])
BY FlattenAre DEF Segments

-----------------------------------------------------------------------------
(* What a buffer holds: the bytes after the first `from`, up to `to`.      *)

Pages   == {p \in [wr : Nat, rd : Nat, next : Nat, data : [1 .. PageSize -> Nat]] :
              p.rd <= p.wr /\ p.wr <= PageSize}
Buffers == [page : Seq(Pages), write : Nat, read : Nat, free : Nat]

\* The unread bytes of page p are those after the first x, up to y.
Bears(p, x, y) ==
  /\ p.rd <= p.wr /\ p.wr <= PageSize
  /\ y = x + (p.wr - p.rd)
  /\ \A j \in p.rd + 1 .. p.wr : p.data[j] = x + (j - p.rd)

\* The m pages in use and the k to spare are all the pages, and none twice.
Apart(used, m, spare, k) ==
  /\ \A i \in 1 .. m : used[i] \in 1 .. m + k
  /\ \A i \in 1 .. k : spare[i] \in 1 .. m + k
  /\ \A i, j \in 1 .. m : used[i] = used[j] => i = j
  /\ \A i, j \in 1 .. k : spare[i] = spare[j] => i = j
  /\ \A i \in 1 .. m, j \in 1 .. k : used[i] # spare[j]
  /\ \A p \in 1 .. m + k : (\E i \in 1 .. m : used[i] = p) \/ (\E j \in 1 .. k : spare[j] = p)

\* Both kinds are linked along next.
Shared(b, used, m, spare, k) ==
  /\ Apart(used, m, spare, k)
  /\ Len(b.page) = m + k
  /\ b.read = used[1] /\ b.write = used[m]
  /\ b.free = IF k = 0 THEN 0 ELSE spare[1]
  /\ \A i \in 1 .. m : b.page[used[i]].next = IF i < m THEN used[i + 1] ELSE 0
  /\ \A i \in 1 .. k : b.page[spare[i]].next = IF i < k THEN spare[i + 1] ELSE 0

\* Page i in use bears the bytes from lo[i] to lo[i + 1]; all but the last are full.
Stored(b, used, m, lo) ==
  \A i \in 1 .. m :
    /\ Bears(b.page[used[i]], lo[i], lo[i + 1])
    /\ i < m => b.page[used[i]].wr = PageSize

HeldAs(b, from, to, used, m, spare, k, lo) ==
  /\ b \in Buffers
  /\ Shared(b, used, m, spare, k)
  /\ lo[1] = from /\ lo[m + 1] = to
  /\ Stored(b, used, m, lo)

HeldFull(b, from, to) ==
  \E used, spare, lo \in [Nat -> Nat], m \in Nat \ {0}, k \in Nat :
    HeldAs(b, from, to, used, m, spare, k, lo)

Held(b, from, to) == HeldFull(b, from, to) /\ b.page[b.write].wr < PageSize

LEMMA NewHeld == ASSUME NEW n \in Nat PROVE Held(NewBuffer, n, n)
<1>1. PageSize \in Nat /\ PageSize > 0
  BY PageAssumption
<1>2. FreshPage \in Pages /\ FreshPage.wr = 0 /\ FreshPage.rd = 0 /\ FreshPage.next = 0
  BY <1>1 DEF FreshPage, Pages
<1>3. PICK b : b = NewBuffer
  OBVIOUS
<1>4. /\ b \in Buffers /\ b.read = 1 /\ b.write = 1 /\ b.free = 0
      /\ Len(b.page) = 1 /\ b.page[1] = FreshPage
  BY <1>2, <1>3 DEF NewBuffer, Buffers
<1>5. PICK one \in [Nat -> Nat], lo \in [Nat -> Nat] : one = [i \in Nat |-> 1] /\ lo = [i \in Nat |-> n]
  OBVIOUS
<1>6. Shared(b, one, 1, one, 0)
  BY <1>2, <1>4, <1>5 DEF Shared, Apart
<1>7. Stored(b, one, 1, lo)
  BY <1>1, <1>2, <1>4, <1>5 DEF Stored, Bears
<1>8. HeldAs(b, n, n, one, 1, one, 0, lo)
  BY <1>4, <1>5, <1>6, <1>7 DEF HeldAs
<1>9. HeldFull(b, n, n)
  BY <1>5, <1>8 DEF HeldFull
<1> QED BY <1>1, <1>2, <1>3, <1>4, <1>9 DEF Held

LEMMA SamePage ==
  ASSUME NEW p \in Pages, NEW q \in Pages, p.wr = q.wr, p.rd = q.rd, p.next = q.next, p.data = q.data
  PROVE  p = q
<1>1. /\ p \in [wr : Nat, rd : Nat, next : Nat, data : [1 .. PageSize -> Nat]]
      /\ q \in [wr : Nat, rd : Nat, next : Nat, data : [1 .. PageSize -> Nat]]
  BY DEF Pages
<1> QED BY <1>1

Data == [1 .. PageSize -> Nat]

\* A page with another link, or with other data.
LEMMA PageWith ==
  ASSUME NEW g \in Pages, NEW n \in Nat, NEW f \in Data
  PROVE  /\ \E h \in Pages : /\ h = [g EXCEPT !.next = n]
                             /\ h.wr = g.wr /\ h.rd = g.rd /\ h.next = n /\ h.data = g.data
         /\ \E h \in Pages : /\ h = [g EXCEPT !.data = f]
                             /\ h.wr = g.wr /\ h.rd = g.rd /\ h.next = g.next /\ h.data = f
<1>1. /\ g = [wr |-> g.wr, rd |-> g.rd, next |-> g.next, data |-> g.data]
      /\ g.wr \in Nat /\ g.rd \in Nat /\ g.next \in Nat /\ g.rd <= g.wr /\ g.wr <= PageSize
      /\ g.data \in [1 .. PageSize -> Nat]
  BY DEF Pages
<1>2. PICK u, v : u = [g EXCEPT !.next = n] /\ v = [g EXCEPT !.data = f]
  OBVIOUS
<1>3. /\ u = [wr |-> g.wr, rd |-> g.rd, next |-> n, data |-> g.data]
      /\ v = [wr |-> g.wr, rd |-> g.rd, next |-> g.next, data |-> f]
  BY <1>1, <1>2
<1>4. u \in Pages /\ v \in Pages
  BY <1>1, <1>3 DEF Pages, Data
<1> QED BY <1>2, <1>3, <1>4

\* The pages of a buffer.
LEMMA PageFacts ==
  ASSUME NEW b \in Buffers, NEW N \in Nat, Len(b.page) = N
  PROVE  /\ b.page \in Seq(Pages) /\ DOMAIN b.page = 1 .. N
         /\ \A p \in 1 .. N : /\ b.page[p] \in Pages
                              /\ b.page[p].wr \in Nat /\ b.page[p].rd \in Nat
                              /\ b.page[p].next \in Nat
                              /\ b.page[p].rd <= b.page[p].wr /\ b.page[p].wr <= PageSize
                              /\ b.page[p].data \in [1 .. PageSize -> Nat]
<1>1. PICK q \in Seq(Pages) : q = b.page
  BY DEF Buffers
<1>2. \A p \in 1 .. Len(q) : q[p] \in Pages
  OBVIOUS
<1>3. DOMAIN q = 1 .. N
  BY <1>1
<1>4. \A p \in Pages : /\ p.wr \in Nat /\ p.rd \in Nat /\ p.next \in Nat
                        /\ p.rd <= p.wr /\ p.wr <= PageSize /\ p.data \in [1 .. PageSize -> Nat]
  BY DEF Pages
<1> QED BY <1>1, <1>2, <1>3, <1>4

-----------------------------------------------------------------------------
(* write, one byte.                                                        *)

\* What the store changes of buffer b, and what it leaves.
Stores(b, c, x) ==
  /\ c \in Buffers
  /\ c.read = b.read /\ c.write = b.write /\ c.free = b.free
  /\ Len(c.page) = Len(b.page)
  /\ \A p \in DOMAIN b.page : p # b.write => c.page[p] = b.page[p]
  /\ c.page[b.write].wr = b.page[b.write].wr + 1
  /\ c.page[b.write].rd = b.page[b.write].rd
  /\ c.page[b.write].next = b.page[b.write].next
  /\ c.page[b.write].data = [b.page[b.write].data EXCEPT ![b.page[b.write].wr + 1] = x]
  /\ c.page[b.write].data[b.page[b.write].wr + 1] = x
  /\ \A j \in 1 .. b.page[b.write].wr : c.page[b.write].data[j] = b.page[b.write].data[j]

LEMMA StoreIs ==
  ASSUME NEW b \in Buffers, NEW x \in Nat, b.write \in DOMAIN b.page, b.page[b.write].wr < PageSize
  PROVE  Stores(b, Store(b, x), x)
<1>1. PICK pages \in Seq(Pages), w, r \in Nat, f \in Nat :
        pages = b.page /\ w = b.write /\ r = b.read /\ f = b.free
  BY DEF Buffers
<1>2. b = [page |-> pages, write |-> w, read |-> r, free |-> f]
  BY <1>1 DEF Buffers
<1>3. PICK g \in Pages : g = pages[w]
  BY <1>1
<1>4. g = [wr |-> g.wr, rd |-> g.rd, next |-> g.next, data |-> g.data]
  BY DEF Pages
<1>5. PICK at \in Nat : at = g.wr + 1 /\ at \in 1 .. PageSize
  <2>1. PICK n \in Nat : n = g.wr
    BY DEF Pages
  <2>2. n < PageSize /\ PageSize \in Nat
    BY <1>1, <1>3, <2>1, PageAssumption
  <2>3. n + 1 \in Nat /\ n + 1 \in 1 .. PageSize
    BY <2>2
  <2> QED BY <2>1, <2>3
<1>6. PICK h : h = [[g EXCEPT !.wr = at] EXCEPT !.data[at] = x]
  OBVIOUS
<1>7. /\ h \in Pages /\ h.wr = at /\ h.rd = g.rd /\ h.next = g.next
      /\ h.data = [g.data EXCEPT ![at] = x]
  <2>1. PICK wr \in Nat, rd \in Nat, next \in Nat, data \in [1 .. PageSize -> Nat] :
          g = [wr |-> wr, rd |-> rd, next |-> next, data |-> data] /\ rd <= wr
    BY <1>4 DEF Pages
  <2>2. h = [wr |-> at, rd |-> rd, next |-> next, data |-> [data EXCEPT ![at] = x]]
    BY <1>6, <2>1
  <2>3. rd <= at /\ at <= PageSize
    BY <1>5, <2>1, PageAssumption
  <2> QED BY <2>1, <2>2, <2>3 DEF Pages
<1>8. PICK c : c = Store(b, x)
  OBVIOUS
<1>9. c = [b EXCEPT !.page = [pages EXCEPT ![w] = h]]
  <2>1. PICK d, s, e : d = CountByte(b) /\ s = [pages EXCEPT ![w] = e] /\ e = [g EXCEPT !.wr = at]
    OBVIOUS
  <2>2. d = [b EXCEPT !.page = s] /\ d.page = s /\ d.write = w /\ s[w] = e /\ e.wr = at
    BY <1>1, <1>2, <1>3, <1>4, <1>5, <2>1 DEF CountByte
  <2>3. c = [d EXCEPT !.page = [s EXCEPT ![w] = h]]
    BY <1>6, <1>8, <2>1, <2>2 DEF Store, FillByte
  <2>4. [s EXCEPT ![w] = h] = [pages EXCEPT ![w] = h]
    BY <2>1
  <2> QED BY <1>2, <2>2, <2>3, <2>4
<1>10. [pages EXCEPT ![w] = h] \in Seq(Pages) /\ Len([pages EXCEPT ![w] = h]) = Len(pages)
  BY <1>1, <1>7
<1>11. /\ c.page = [pages EXCEPT ![w] = h] /\ c.read = r /\ c.write = w /\ c.free = f
       /\ c \in Buffers
  BY <1>1, <1>2, <1>9, <1>10 DEF Buffers
<1>12. c.page[w] = h /\ \A p \in DOMAIN pages : p # w => c.page[p] = pages[p]
  BY <1>1, <1>11
<1>13. h.data[at] = x /\ \A j \in 1 .. at - 1 : h.data[j] = g.data[j]
  <2>1. g.data \in [1 .. PageSize -> Nat]
    BY DEF Pages
  <2>2. at \in 1 .. PageSize /\ \A j \in 1 .. at - 1 : j \in 1 .. PageSize /\ j # at
    BY <1>5, PageAssumption
  <2> QED BY <1>7, <2>1, <2>2
<1>14. g.wr \in Nat /\ at - 1 = g.wr
  BY <1>5 DEF Pages
<1>15. b.page[b.write] = g /\ c.page[b.write] = h /\ DOMAIN b.page = DOMAIN pages
  BY <1>1, <1>3, <1>12
<1>16. c.page[b.write].data[b.page[b.write].wr + 1] = x
  BY <1>5, <1>13, <1>15
<1>17. \A j \in 1 .. b.page[b.write].wr : c.page[b.write].data[j] = b.page[b.write].data[j]
  BY <1>13, <1>14, <1>15
<1>18. /\ c.page[b.write].wr = b.page[b.write].wr + 1
       /\ c.page[b.write].rd = b.page[b.write].rd
       /\ c.page[b.write].next = b.page[b.write].next
  BY <1>5, <1>7, <1>15
<1>19. Len(c.page) = Len(b.page)
  BY <1>1, <1>10, <1>11
<1>20. \A p \in DOMAIN b.page : p # b.write => c.page[p] = b.page[p]
  BY <1>1, <1>12
<1>21. c.page[b.write].data = [b.page[b.write].data EXCEPT ![b.page[b.write].wr + 1] = x]
  BY <1>5, <1>7, <1>15, Zenon
<1> QED BY <1>1, <1>8, <1>11, <1>16, <1>17, <1>18, <1>19, <1>20, <1>21 DEF Stores

LEMMA StoreHeld ==
  ASSUME NEW b, NEW from \in Nat, NEW to \in Nat, Held(b, from, to)
  PROVE  HeldFull(Store(b, to + 1), from, to + 1)
<1>1. PICK used \in [Nat -> Nat], spare \in [Nat -> Nat], lo \in [Nat -> Nat],
           m \in Nat \ {0}, k \in Nat : HeldAs(b, from, to, used, m, spare, k, lo)
  BY DEF Held, HeldFull
<1>2. PICK c : c = Store(b, to + 1)
  OBVIOUS
<1>3. PICK N \in Nat : N = m + k
  OBVIOUS
<1>4. /\ b \in Buffers /\ Len(b.page) = N /\ DOMAIN b.page = 1 .. N /\ b.write = used[m]
      /\ b.write \in 1 .. N /\ \A i \in 1 .. m : used[i] \in 1 .. N
  <2>1. b \in Buffers /\ Len(b.page) = N /\ b.write = used[m] /\ \A i \in 1 .. m : used[i] \in 1 .. N
    BY <1>1, <1>3 DEF HeldAs, Shared, Apart
  <2>2. m \in 1 .. m
    OBVIOUS
  <2> QED BY <2>1, <2>2, PageFacts
<1>5. b.page[b.write].wr < PageSize
  BY DEF Held
<1>6. Stores(b, c, to + 1)
  <2>1. to + 1 \in Nat
    OBVIOUS
  <2>2. b \in Buffers /\ b.write \in DOMAIN b.page
    BY <1>4
  <2> QED BY <1>2, <1>5, <2>1, <2>2, StoreIs
<1>7. ASSUME NEW p \in 1 .. m + k PROVE c.page[p].next = b.page[p].next
  <2>1. p \in DOMAIN b.page
    BY <1>3, <1>4
  <2>2. c.page[b.write].next = b.page[b.write].next /\ (p # b.write => c.page[p] = b.page[p])
    BY <1>6, <2>1 DEF Stores
  <2> QED BY <2>2
<1>8. Shared(c, used, m, spare, k)
  <2>1. Shared(b, used, m, spare, k)
    BY <1>1 DEF HeldAs
  <2>2. /\ \A i \in 1 .. m : c.page[used[i]].next = b.page[used[i]].next
        /\ \A i \in 1 .. k : c.page[spare[i]].next = b.page[spare[i]].next
    BY <1>7, <2>1 DEF Shared, Apart
  <2> QED BY <1>6, <2>1, <2>2 DEF Shared, Stores
<1>9. PICK up \in [Nat -> Nat] : up = [lo EXCEPT ![m + 1] = to + 1]
  <2>1. [lo EXCEPT ![m + 1] = to + 1] \in [Nat -> Nat]
    OBVIOUS
  <2> QED BY <2>1
<1>10. up[m + 1] = to + 1 /\ \A i \in 1 .. m : up[i] = lo[i]
  <2>1. m + 1 \in Nat /\ \A i \in 1 .. m : i \in Nat /\ i # m + 1
    OBVIOUS
  <2> QED BY <1>9, <2>1
<1>11. lo[1] = from /\ lo[m + 1] = to
  BY <1>1 DEF HeldAs
<1>12. ASSUME NEW i \in 1 .. m, i < m PROVE c.page[used[i]] = b.page[used[i]]
  <2>1. m \in 1 .. m /\ i # m
    BY <1>12
  <2>2. used[i] # used[m]
    BY <1>1, <2>1 DEF HeldAs, Shared, Apart
  <2> QED BY <1>4, <1>6, <2>2 DEF Stores
<1>13. ASSUME NEW i \in 1 .. m PROVE Bears(c.page[used[i]], up[i], up[i + 1])
  <2>1. Bears(b.page[used[i]], lo[i], lo[i + 1])
    BY <1>1 DEF HeldAs, Stored
  <2>2. CASE i < m
    <3>1. i + 1 \in 1 .. m
      BY <2>2
    <3> QED BY <1>10, <1>12, <2>1, <2>2, <3>1
  <2>3. CASE i = m
    <3>1. PICK p : p = b.page[b.write]
      OBVIOUS
    <3>2. PICK q : q = c.page[b.write]
      OBVIOUS
    <3>3. PICK wr \in Nat, rd \in Nat, x \in Nat : wr = p.wr /\ rd = p.rd /\ x = lo[m]
      <4>1. p.wr \in Nat /\ p.rd \in Nat
        BY <1>4, <3>1, PageFacts
      <4>2. lo[m] \in Nat
        OBVIOUS
      <4> QED BY <4>1, <4>2
    <3>4. Bears(p, x, to) /\ wr < PageSize
      BY <1>4, <1>5, <1>11, <2>1, <2>3, <3>1, <3>3
    <3>5. rd <= wr /\ to = x + (wr - rd) /\ \A j \in rd + 1 .. wr : p.data[j] = x + (j - rd)
      BY <3>3, <3>4 DEF Bears
    <3>6. q.wr = wr + 1 /\ q.rd = rd /\ q.data[wr + 1] = to + 1 /\ \A j \in 1 .. wr : q.data[j] = p.data[j]
      BY <1>6, <3>1, <3>2, <3>3 DEF Stores
    <3>7. to + 1 = x + ((wr + 1) - rd)
      BY <3>5
    <3>8. ASSUME NEW j \in rd + 1 .. wr + 1 PROVE q.data[j] = x + (j - rd)
      <4>1. CASE j = wr + 1
        BY <3>6, <3>7, <4>1
      <4>2. CASE j # wr + 1
        <5>1. j \in rd + 1 .. wr /\ j \in 1 .. wr
          BY <4>2
        <5> QED BY <3>5, <3>6, <5>1
      <4> QED BY <4>1, <4>2
    <3>9. rd <= wr + 1 /\ wr + 1 <= PageSize
      BY <3>4, <3>5, PageAssumption
    <3>10. Bears(q, x, to + 1)
      BY <3>6, <3>7, <3>8, <3>9 DEF Bears
    <3>11. used[i] = b.write /\ up[i] = x /\ up[i + 1] = to + 1
      BY <1>4, <1>10, <2>3, <3>3
    <3> QED BY <3>2, <3>10, <3>11
  <2>4. i < m \/ i = m
    OBVIOUS
  <2> QED BY <2>2, <2>3, <2>4
<1>14. ASSUME NEW i \in 1 .. m, i < m PROVE c.page[used[i]].wr = PageSize
  <2>1. b.page[used[i]].wr = PageSize
    BY <1>1, <1>14 DEF HeldAs, Stored
  <2> QED BY <1>12, <1>14, <2>1
<1>15. Stored(c, used, m, up)
  BY <1>13, <1>14 DEF Stored
<1>16. up[1] = from
  <2>1. 1 \in 1 .. m
    OBVIOUS
  <2> QED BY <1>10, <1>11, <2>1
<1>17. HeldAs(c, from, to + 1, used, m, spare, k, up)
  BY <1>6, <1>8, <1>10, <1>15, <1>16 DEF HeldAs, Stores
<1> QED BY <1>2, <1>17 DEF HeldFull

LEMMA Appended ==
  ASSUME NEW S, NEW s \in Seq(S), NEW e \in S, NEW n \in Nat, n = Len(s), NEW t, t = Append(s, e)
  PROVE  t \in Seq(S) /\ Len(t) = n + 1 /\ t[n + 1] = e /\ \A i \in 1 .. n : t[i] = s[i]
OBVIOUS

LEMMA Replaced ==
  ASSUME NEW S, NEW s \in Seq(S), NEW n \in Nat, n = Len(s), NEW i \in 1 .. n, NEW e \in S,
         NEW t, t = [s EXCEPT ![i] = e]
  PROVE  t \in Seq(S) /\ Len(t) = n /\ t[i] = e /\ \A j \in 1 .. n : j # i => t[j] = s[j]
<1>1. s \in [1 .. n -> S]
  OBVIOUS
<1>2. t \in [1 .. n -> S]
  BY <1>1
<1>3. t \in Seq(S) /\ Len(t) = n
  BY <1>2
<1> QED BY <1>1, <1>3

\* What alloc_page may have seen: the first of the free pages, or that there was none.
Seen(b, first) == first = 0 \/ (first = b.free /\ first \in DOMAIN b.page)

\* What the growing changes, p being the page that is next.
Grows(b, c, first, p) ==
  /\ c \in Buffers
  /\ c.read = b.read /\ c.write = p
  /\ IF first = 0 THEN p = Len(b.page) + 1 /\ Len(c.page) = p /\ c.free = b.free
     ELSE p = b.free /\ Len(c.page) = Len(b.page) /\ c.free = b.page[b.free].next
  /\ c.page[p].wr = 0 /\ c.page[p].rd = 0 /\ c.page[p].next = 0
  /\ c.page[p].data = IF first = 0 THEN FreshPage.data ELSE b.page[p].data
  /\ \A q \in DOMAIN b.page : q # p /\ q # b.write => c.page[q] = b.page[q]
  /\ c.page[b.write].next = p
  /\ c.page[b.write].wr = b.page[b.write].wr
  /\ c.page[b.write].rd = b.page[b.write].rd
  /\ c.page[b.write].data = b.page[b.write].data

LEMMA GrowIs ==
  ASSUME NEW b \in Buffers, b.write \in DOMAIN b.page, NEW first, Seen(b, first),
         first # b.write
  PROVE  Grows(b, GrowFrom(b, first), first, PageFrom(b, first))
<1>1. PICK pages \in Seq(Pages), w, r \in Nat, f \in Nat, N \in Nat :
        pages = b.page /\ w = b.write /\ r = b.read /\ f = b.free /\ N = Len(pages)
  <2>1. b.page \in Seq(Pages) /\ b.read \in Nat /\ b.free \in Nat
    BY DEF Buffers
  <2> QED BY <2>1
<1>2. b = [page |-> pages, write |-> w, read |-> r, free |-> f]
  BY <1>1 DEF Buffers
<1>3. DOMAIN pages = 1 .. N /\ \A q \in 1 .. N : pages[q] \in Pages
  BY <1>1
<1>4. w \in 1 .. N /\ (first # 0 => first = f /\ f \in 1 .. N /\ f # w)
  BY <1>1, <1>3 DEF Seen
<1>5. FreshPage \in Pages /\ FreshPage.wr = 0 /\ FreshPage.rd = 0 /\ FreshPage.next = 0
  BY PageAssumption DEF FreshPage, Pages
<1>6. PICK g \in Pages : g = pages[w]
  BY <1>3, <1>4
<1>7. PICK a : a = AfterAlloc(b, first)
  OBVIOUS
<1>8. PICK p : p = PageFrom(b, first)
  OBVIOUS
<1>9. PICK c : c = GrowFrom(b, first)
  OBVIOUS
<1>13. ASSUME NEW s, NEW nx, a = [page |-> s, write |-> w, read |-> r, free |-> nx],
              NEW t, t = [s EXCEPT ![w].next = p], t[w].next = p
       PROVE  c = [page |-> t, write |-> p, read |-> r, free |-> nx]
  <2>1. PICK d : d = LinkPage(a, p)
    OBVIOUS
  <2>2. d = [page |-> t, write |-> w, read |-> r, free |-> nx]
    BY <1>13, <2>1 DEF LinkPage
  <2>3. c = MoveOn(d)
    BY <1>7, <1>8, <1>9, <2>1 DEF GrowFrom
  <2> QED BY <1>13, <2>2, <2>3 DEF MoveOn
<1>10. ASSUME NEW n \in Nat, NEW h, h = [g EXCEPT !.next = n]
       PROVE  h \in Pages /\ h.next = n /\ h.wr = g.wr /\ h.rd = g.rd /\ h.data = g.data
  BY <1>10 DEF Pages
<1>11. CASE first = 0
  <2>1. p = N + 1
    BY <1>1, <1>8, <1>11 DEF PageFrom
  <2>0. PICK more : more = Append(pages, FreshPage)
    OBVIOUS
  <2>2. /\ more \in Seq(Pages) /\ Len(more) = N + 1 /\ more[N + 1] = FreshPage
        /\ \A q \in 1 .. N : more[q] = pages[q]
    BY <1>1, <1>5, <2>0, Appended
  <2>3. w \in 1 .. N + 1 /\ w # N + 1 /\ p \in Nat
    BY <1>4, <2>1
  <2>4. a = [page |-> more, write |-> w, read |-> r, free |-> f]
    BY <1>1, <1>2, <1>7, <1>11, <2>0 DEF AfterAlloc
  <2>5. PICK h \in Pages : /\ h = [g EXCEPT !.next = p]
                           /\ h.next = p /\ h.wr = g.wr /\ h.rd = g.rd /\ h.data = g.data
    BY <1>10, <2>3
  <2>6. more[w] = g
    BY <1>4, <1>6, <2>2
  <2>20. PICK s : s = [more EXCEPT ![w] = h]
    OBVIOUS
  <2>7. c = [page |-> s, write |-> p, read |-> r, free |-> f]
    <3>1. s = [more EXCEPT ![w].next = p] /\ s[w].next = p
      BY <2>2, <2>3, <2>5, <2>6, <2>20
    <3> QED BY <1>13, <2>4, <3>1, Zenon
  <2>8. /\ s \in Seq(Pages) /\ Len(s) = N + 1 /\ s[w] = h
        /\ \A q \in 1 .. N + 1 : q # w => s[q] = more[q]
    <3>1. N + 1 \in Nat
      OBVIOUS
    <3> QED BY <2>2, <2>3, <2>5, <2>20, <3>1, Replaced
  <2>9. s[N + 1] = FreshPage /\ \A q \in 1 .. N : q # w => s[q] = pages[q]
    BY <1>4, <2>2, <2>3, <2>8
  <2>10. c.page = s /\ c.write = p /\ c.read = r /\ c.free = f /\ c \in Buffers
    BY <2>1, <2>7, <2>8, <2>20 DEF Buffers
  <2>11. Len(c.page) = p /\ c.page[p] = FreshPage /\ c.page[w] = h /\ \A q \in DOMAIN pages : q # w => c.page[q] = pages[q]
    BY <1>3, <2>1, <2>8, <2>9, <2>10
  <2> QED BY <1>1, <1>5, <1>6, <1>8, <1>9, <1>11, <2>1, <2>5, <2>10, <2>11 DEF Grows
<1>12. CASE first # 0
  <2>1. p = f /\ first = f /\ f \in 1 .. N /\ f # w
    BY <1>1, <1>4, <1>8, <1>12 DEF PageFrom
  <2>2. PICK old \in Pages : old = pages[f]
    BY <1>3, <2>1
  <2>3. PICK u \in Pages : /\ u = [FreshPage EXCEPT !.data = old.data]
                           /\ u.wr = 0 /\ u.rd = 0 /\ u.next = 0 /\ u.data = old.data
    <3>1. old.data \in [1 .. PageSize -> Nat]
      BY DEF Pages
    <3>2. [FreshPage EXCEPT !.data = old.data] \in Pages
      BY <1>5, <3>1 DEF Pages
    <3>3. PICK u \in Pages : u = [FreshPage EXCEPT !.data = old.data]
      BY <3>2
    <3>4. u.wr = 0 /\ u.rd = 0 /\ u.next = 0
      BY <1>5, <3>3
    <3>5. u.data = old.data
      BY <3>3 DEF FreshPage
    <3> QED BY <3>3, <3>4, <3>5
  <2>0. PICK more : more = [pages EXCEPT ![f] = u]
    OBVIOUS
  <2>4. /\ more \in Seq(Pages) /\ Len(more) = N /\ more[f] = u
        /\ \A q \in 1 .. N : q # f => more[q] = pages[q]
    BY <1>1, <2>0, <2>1, Replaced
  <2>6. PICK nx \in Nat : nx = old.next
    BY DEF Pages
  <2>7. a = [page |-> more, write |-> w, read |-> r, free |-> nx]
    BY <1>1, <1>2, <1>7, <1>12, <2>0, <2>1, <2>2, <2>3, <2>6 DEF AfterAlloc
  <2>8. PICK h \in Pages : /\ h = [g EXCEPT !.next = p]
                           /\ h.next = p /\ h.wr = g.wr /\ h.rd = g.rd /\ h.data = g.data
    BY <1>10, <2>1
  <2>9. more[w] = g
    BY <1>4, <1>6, <2>1, <2>4
  <2>20. PICK s : s = [more EXCEPT ![w] = h]
    OBVIOUS
  <2>10. c = [page |-> s, write |-> p, read |-> r, free |-> nx]
    <3>1. s = [more EXCEPT ![w].next = p] /\ s[w].next = p
      BY <1>4, <2>4, <2>8, <2>9, <2>20
    <3> QED BY <1>13, <2>7, <3>1, Zenon
  <2>11. /\ s \in Seq(Pages) /\ Len(s) = N /\ s[w] = h
         /\ \A q \in 1 .. N : q # w => s[q] = more[q]
    BY <1>4, <2>4, <2>8, <2>20, Replaced
  <2>12. s[f] = u /\ \A q \in 1 .. N : q # w /\ q # f => s[q] = pages[q]
    BY <1>4, <2>1, <2>4, <2>11
  <2>13. c.page = s /\ c.write = p /\ c.read = r /\ c.free = nx /\ c \in Buffers
    BY <2>1, <2>6, <2>10, <2>11, <2>20 DEF Buffers
  <2>14. Len(c.page) = N /\ c.page[p] = u /\ c.page[w] = h /\ \A q \in DOMAIN pages : q # w /\ q # p => c.page[q] = pages[q]
    BY <1>3, <2>1, <2>11, <2>12, <2>13
  <2>15. b.page[b.free].next = nx /\ b.page[b.write] = g
    BY <1>1, <1>6, <2>1, <2>2, <2>6
  <2>16. /\ c.page[p].wr = 0 /\ c.page[p].rd = 0 /\ c.page[p].next = 0
         /\ c.page[p].data = b.page[p].data
         /\ c.page[b.write].next = p
         /\ c.page[b.write].wr = g.wr /\ c.page[b.write].rd = g.rd /\ c.page[b.write].data = g.data
    BY <1>1, <2>1, <2>2, <2>3, <2>8, <2>14
  <2>17. \A q \in DOMAIN b.page : q # p /\ q # b.write => c.page[q] = b.page[q]
    BY <1>1, <2>14
  <2>18. p = b.free /\ Len(c.page) = Len(b.page) /\ c.free = b.page[b.free].next
    BY <1>1, <2>1, <2>13, <2>14, <2>15
  <2>19. Grows(b, c, first, p)
    BY <1>1, <1>12, <2>13, <2>15, <2>16, <2>17, <2>18 DEF Grows
  <2> QED BY <1>8, <1>9, <2>19
<1> QED BY <1>11, <1>12

\* The places of the pages when the last in use has got one behind it.
Grown(used, m, spare, k, new, more, rest, l) ==
  /\ \A i \in 1 .. m : more[i] = used[i]
  /\ IF new THEN more[m + 1] = m + k + 1 /\ rest = spare /\ l = k
     ELSE more[m + 1] = spare[1] /\ (\A i \in Nat : rest[i] = spare[i + 1]) /\ l = k - 1

LEMMA GrowApart ==
  ASSUME NEW used \in [Nat -> Nat], NEW spare \in [Nat -> Nat], NEW m \in Nat \ {0}, NEW k \in Nat,
         Apart(used, m, spare, k), NEW more \in [Nat -> Nat], NEW rest \in [Nat -> Nat],
         NEW l \in Nat, NEW new \in BOOLEAN, new \/ k # 0, Grown(used, m, spare, k, new, more, rest, l)
  PROVE  Apart(more, m + 1, rest, l)
<1>1. PICK N \in Nat : N = m + k
  OBVIOUS
<1>0. PICK p : /\ new => p = N + 1 /\ l = k /\ rest = spare
               /\ ~new => p = spare[1] /\ l = k - 1
               /\ more[m + 1] = p
  BY <1>1 DEF Grown
<1>2. /\ \A i \in 1 .. m : used[i] \in 1 .. N
      /\ \A i \in 1 .. k : spare[i] \in 1 .. N
  BY <1>1, Zenon DEF Apart
<1>20. \A i, j \in 1 .. m : used[i] = used[j] => i = j
  BY <1>1, Zenon DEF Apart
<1>21. \A i, j \in 1 .. k : spare[i] = spare[j] => i = j
  BY <1>1, Zenon DEF Apart
<1>22. \A i \in 1 .. m, j \in 1 .. k : used[i] # spare[j]
  BY <1>1, Zenon DEF Apart
<1>23. \A q \in 1 .. N : (\E i \in 1 .. m : used[i] = q) \/ (\E j \in 1 .. k : spare[j] = q)
  BY <1>1, Zenon DEF Apart
<1>3. PICK M \in Nat : M = m + 1 /\ M \in 1 .. M
  OBVIOUS
<1>4. \A i \in 1 .. M : i = M \/ i \in 1 .. m
  BY <1>3
<1>5. \A i \in 1 .. m : i \in 1 .. M /\ more[i] = used[i]
  BY <1>3 DEF Grown
<1>6. more[M] = p
  BY <1>0, <1>3
<1>7. SUFFICES /\ \A i \in 1 .. M : more[i] \in 1 .. M + l
               /\ \A i \in 1 .. l : rest[i] \in 1 .. M + l
               /\ \A i, j \in 1 .. M : more[i] = more[j] => i = j
               /\ \A i, j \in 1 .. l : rest[i] = rest[j] => i = j
               /\ \A i \in 1 .. M, j \in 1 .. l : more[i] # rest[j]
               /\ \A q \in 1 .. M + l : (\E i \in 1 .. M : more[i] = q) \/ (\E j \in 1 .. l : rest[j] = q)
  BY <1>3, Zenon DEF Apart
<1>8. CASE new
  <2>1. p = N + 1 /\ l = k /\ rest = spare /\ M + l = N + 1
    BY <1>0, <1>1, <1>3, <1>8
  <2>2. N + 1 \in 1 .. N + 1 /\ \A q \in 1 .. N : q \in 1 .. N + 1 /\ q # N + 1
    BY <1>1
  <2>3. \A i \in 1 .. M : more[i] \in 1 .. N + 1
    BY <1>2, <1>4, <1>5, <1>6, <2>1, <2>2
  <2>4. \A i \in 1 .. k : spare[i] \in 1 .. N + 1 /\ spare[i] # p
    BY <1>2, <2>1, <2>2
  <2>5. \A i, j \in 1 .. M : more[i] = more[j] => i = j
    <3>1. \A i \in 1 .. m : more[i] # p
      BY <1>2, <1>5, <2>1, <2>2
    <3> QED BY <1>4, <1>5, <1>6, <1>20, <3>1
  <2>6. \A i \in 1 .. M, j \in 1 .. k : more[i] # spare[j]
    BY <1>4, <1>5, <1>6, <1>22, <2>4
  <2>7. ASSUME NEW q \in 1 .. N + 1
        PROVE  (\E i \in 1 .. M : more[i] = q) \/ (\E j \in 1 .. k : spare[j] = q)
    <3>1. CASE q = N + 1
      BY <1>3, <1>6, <2>1, <3>1
    <3>2. CASE q \in 1 .. N
      BY <1>5, <1>23, <3>2
    <3> QED BY <1>1, <3>1, <3>2
  <2> QED BY <1>21, <2>1, <2>3, <2>4, <2>5, <2>6, <2>7
<1>9. CASE ~new
  <2>0. k # 0 /\ \A i \in Nat : rest[i] = spare[i + 1]
    BY <1>9 DEF Grown
  <2>1. p = spare[1] /\ M + l = N /\ 1 \in 1 .. k
    BY <1>0, <1>1, <1>3, <1>9, <2>0
  <2>2. \A i \in 1 .. l : i + 1 \in 1 .. k /\ i + 1 # 1
    BY <1>0, <1>9, <2>0
  <2>3. \A i \in 1 .. l : rest[i] = spare[i + 1]
    BY <2>0
  <2>4. \A i \in 1 .. M : more[i] \in 1 .. N
    BY <1>2, <1>4, <1>5, <1>6, <2>1
  <2>5. \A i \in 1 .. l : rest[i] \in 1 .. N
    BY <1>2, <2>2, <2>3
  <2>6. \A i, j \in 1 .. M : more[i] = more[j] => i = j
    <3>1. \A i \in 1 .. m : more[i] # p
      BY <1>22, <1>5, <2>1
    <3> QED BY <1>20, <1>4, <1>5, <1>6, <3>1
  <2>7. ASSUME NEW i \in 1 .. l, NEW j \in 1 .. l, rest[i] = rest[j] PROVE i = j
    <3>1. spare[i + 1] = spare[j + 1] /\ i + 1 \in 1 .. k /\ j + 1 \in 1 .. k
      BY <2>2, <2>3, <2>7
    <3>2. i + 1 = j + 1
      BY <1>21, <3>1
    <3> QED BY <3>2
  <2>8. ASSUME NEW i \in 1 .. M, NEW j \in 1 .. l PROVE more[i] # rest[j]
    <3>1. CASE i \in 1 .. m
      BY <1>22, <1>5, <2>2, <2>3, <3>1
    <3>2. CASE i = M
      <4>1. spare[1] # spare[j + 1]
        BY <1>21, <2>1, <2>2
      <4> QED BY <1>6, <2>1, <2>3, <3>2, <4>1
    <3> QED BY <1>4, <3>1, <3>2
  <2>9. ASSUME NEW q \in 1 .. N
        PROVE  (\E i \in 1 .. M : more[i] = q) \/ (\E j \in 1 .. l : rest[j] = q)
    <3>1. CASE \E i \in 1 .. m : used[i] = q
      BY <1>5, <3>1
    <3>2. CASE \E j \in 1 .. k : spare[j] = q
      <4>1. PICK j \in 1 .. k : spare[j] = q
        BY <3>2
      <4>2. CASE j = 1
        BY <1>3, <1>6, <2>1, <4>1, <4>2
      <4>3. CASE j # 1
        <5>1. j - 1 \in 1 .. l /\ j - 1 \in Nat /\ (j - 1) + 1 = j
          BY <1>0, <1>9, <2>0, <4>3
        <5>2. rest[j - 1] = q
          BY <2>3, <4>1, <5>1
        <5> QED BY <5>1, <5>2
      <4> QED BY <4>2, <4>3
    <3> QED BY <1>23, <3>1, <3>2
  <2> QED BY <2>1, <2>4, <2>5, <2>6, <2>7, <2>8, <2>9
<1> QED BY <1>8, <1>9

LEMMA GrowHeld ==
  ASSUME NEW b, NEW from \in Nat, NEW to \in Nat, HeldFull(b, from, to),
         b.page[b.write].wr = PageSize, NEW first, first = 0 \/ first = b.free
  PROVE  Held(GrowFrom(b, first), from, to) /\ GrowFrom(b, first).read = b.read
<1>1. PICK used \in [Nat -> Nat], spare \in [Nat -> Nat], lo \in [Nat -> Nat],
           m \in Nat \ {0}, k \in Nat : HeldAs(b, from, to, used, m, spare, k, lo)
  BY DEF HeldFull
<1>2. PICK c : c = GrowFrom(b, first)
  OBVIOUS
<1>3. PICK p : p = PageFrom(b, first)
  OBVIOUS
<1>4. /\ b \in Buffers /\ Len(b.page) = m + k /\ Apart(used, m, spare, k)
      /\ b.read = used[1] /\ b.write = used[m] /\ b.free = IF k = 0 THEN 0 ELSE spare[1]
  BY <1>1 DEF HeldAs, Shared
<1>5. m \in 1 .. m /\ (k # 0 => 1 \in 1 .. k) /\ m + k \in Nat
  OBVIOUS
<1>6. DOMAIN b.page = 1 .. m + k
  BY <1>4, <1>5, PageFacts
<1>7. used[m] \in 1 .. m + k /\ (k # 0 => spare[1] \in 1 .. m + k /\ used[m] # spare[1])
  BY <1>4, <1>5 DEF Apart
<1>30. PICK new \in BOOLEAN : new = (first = 0) /\ (~new => k # 0 /\ b.free = spare[1])
  BY <1>4
<1>8. b.write \in DOMAIN b.page /\ Seen(b, first) /\ first # b.write
  <2>1. b.write \in DOMAIN b.page /\ b.write # 0
    BY <1>4, <1>6, <1>7
  <2>2. CASE new
    BY <1>30, <2>1, <2>2 DEF Seen
  <2>3. CASE ~new
    BY <1>4, <1>6, <1>7, <1>30, <2>1, <2>3 DEF Seen
  <2> QED BY <2>1, <2>2, <2>3
<1>9. Grows(b, c, first, p)
  BY <1>2, <1>3, <1>4, <1>8, GrowIs
<1>10. (new => p = m + k + 1) /\ (~new => p = spare[1]) /\ p \in Nat /\ p # 0
  <2>1. CASE new
    <3>1. first = 0
      BY <1>30, <2>1
    <3>2. p = m + k + 1
      BY <1>3, <1>4, <3>1 DEF PageFrom
    <3>3. m + k + 1 \in Nat /\ m + k + 1 # 0
      OBVIOUS
    <3> QED BY <2>1, <3>2, <3>3
  <2>2. CASE ~new
    <3>1. spare[1] # 0 /\ first = spare[1]
      BY <1>7, <1>30, <2>2
    <3>2. p = spare[1]
      BY <1>3, <3>1 DEF PageFrom
    <3> QED BY <2>2, <3>1, <3>2
  <2> QED BY <2>1, <2>2
<1>11. PICK l \in Nat : (new => l = k) /\ (~new => l = k - 1)
  <2>1. new \/ k - 1 \in Nat
    BY <1>30
  <2> QED BY <2>1
<1>12. PICK more \in [Nat -> Nat] : more[m + 1] = p /\ \A i \in 1 .. m : more[i] = used[i]
  <2>1. [used EXCEPT ![m + 1] = p] \in [Nat -> Nat]
    BY <1>10
  <2>2. PICK u \in [Nat -> Nat] : u = [used EXCEPT ![m + 1] = p]
    BY <2>1
  <2>3. m + 1 \in Nat /\ \A i \in 1 .. m : i # m + 1 /\ i \in Nat
    OBVIOUS
  <2>4. u[m + 1] = p /\ \A i \in 1 .. m : u[i] = used[i]
    BY <2>2, <2>3
  <2> QED BY <2>4
<1>13. PICK rest \in [Nat -> Nat] : IF new THEN rest = spare ELSE \A i \in Nat : rest[i] = spare[i + 1]
  <2>1. [i \in Nat |-> spare[i + 1]] \in [Nat -> Nat]
    OBVIOUS
  <2>2. PICK t \in [Nat -> Nat] : \A i \in Nat : t[i] = spare[i + 1]
    BY <2>1
  <2> QED BY <2>2
<1>14. PICK up \in [Nat -> Nat] : up[m + 2] = to /\ \A i \in 1 .. m + 1 : up[i] = lo[i]
  <2>1. [lo EXCEPT ![m + 2] = to] \in [Nat -> Nat]
    OBVIOUS
  <2>2. PICK u \in [Nat -> Nat] : u = [lo EXCEPT ![m + 2] = to]
    BY <2>1
  <2>3. m + 2 \in Nat /\ \A i \in 1 .. m + 1 : i # m + 2 /\ i \in Nat
    OBVIOUS
  <2>4. u[m + 2] = to /\ \A i \in 1 .. m + 1 : u[i] = lo[i]
    BY <2>2, <2>3
  <2> QED BY <2>4
<1>15. Apart(more, m + 1, rest, l)
  <2>1. Grown(used, m, spare, k, new, more, rest, l)
    BY <1>10, <1>11, <1>12, <1>13 DEF Grown
  <2> QED BY <1>4, <1>30, <2>1, GrowApart
<1>16. Len(c.page) = (m + 1) + l
  <2>1. CASE new
    <3>1. Len(c.page) = p
      BY <1>9, <1>30, <2>1 DEF Grows
    <3>2. m + k + 1 = (m + 1) + l
      BY <1>11, <2>1
    <3> QED BY <1>10, <2>1, <3>1, <3>2
  <2>2. CASE ~new
    <3>1. Len(c.page) = Len(b.page)
      BY <1>9, <1>30, <2>2 DEF Grows
    <3>2. m + k = (m + 1) + l
      BY <1>11, <2>2
    <3> QED BY <1>4, <3>1, <3>2
  <2> QED BY <2>1, <2>2
\* What has become of the pages in use.
<1>17. ASSUME NEW i \in 1 .. m, i < m PROVE c.page[used[i]] = b.page[used[i]]
  <2>1. used[i] \in DOMAIN b.page /\ used[i] # b.write
    <3>1. used[i] \in 1 .. m + k
      BY <1>4, Zenon DEF Apart
    <3>2. used[i] = used[m] => i = m
      BY <1>4, <1>5, Zenon DEF Apart
    <3>3. i # m
      BY <1>17
    <3>4. used[i] # used[m]
      BY <3>2, <3>3
    <3> QED BY <1>4, <1>6, <3>1, <3>4
  <2>2. used[i] # p
    <3>1. CASE new
      <4>1. p = m + k + 1 /\ m + k + 1 \notin 1 .. m + k
        BY <1>5, <1>10, <3>1
      <4> QED BY <1>6, <2>1, <4>1
    <3>2. CASE ~new
      BY <1>4, <1>5, <1>10, <1>30, <3>2 DEF Apart
    <3> QED BY <3>1, <3>2
  <2> QED BY <1>9, <2>1, <2>2 DEF Grows
<1>18. ASSUME NEW i \in 1 .. m
       PROVE  /\ c.page[used[i]].next = more[i + 1]
              /\ c.page[used[i]].wr = b.page[used[i]].wr
              /\ c.page[used[i]].rd = b.page[used[i]].rd
              /\ c.page[used[i]].data = b.page[used[i]].data
  <2>1. CASE i < m
    <3>1. b.page[used[i]].next = used[i + 1]
      BY <1>1, <2>1 DEF HeldAs, Shared
    <3>2. i + 1 \in 1 .. m
      BY <2>1
    <3> QED BY <1>12, <1>17, <2>1, <3>1, <3>2
  <2>2. CASE i = m
    BY <1>4, <1>9, <1>12, <2>2 DEF Grows
  <2>3. i < m \/ i = m
    OBVIOUS
  <2> QED BY <2>1, <2>2, <2>3
<1>19. ASSUME NEW i \in 1 .. m + 1
       PROVE  c.page[more[i]].next = IF i < m + 1 THEN more[i + 1] ELSE 0
  <2>1. CASE i = m + 1
    <3>1. ~(i < m + 1) /\ more[i] = p
      BY <1>12, <2>1
    <3> QED BY <1>9, <3>1 DEF Grows
  <2>2. CASE i \in 1 .. m
    <3>1. i < m + 1
      BY <2>2
    <3> QED BY <1>12, <1>18, <2>2, <3>1
  <2>3. i = m + 1 \/ i \in 1 .. m
    OBVIOUS
  <2> QED BY <2>1, <2>2, <2>3
<1>20. ASSUME NEW i \in 1 .. l
       PROVE  c.page[rest[i]].next = IF i < l THEN rest[i + 1] ELSE 0
  <2>1. CASE new
    <3>1. rest = spare /\ l = k
      BY <1>11, <1>13, <2>1
    <3>2. spare[i] \in 1 .. m + k /\ used[m] # spare[i]
      BY <1>4, <1>5, <3>1, Zenon DEF Apart
    <3>3. spare[i] # m + k + 1
      BY <1>5, <3>2
    <3>4. c.page[spare[i]] = b.page[spare[i]]
      BY <1>4, <1>6, <1>9, <1>10, <2>1, <3>2, <3>3 DEF Grows
    <3>5. b.page[spare[i]].next = IF i < k THEN spare[i + 1] ELSE 0
      BY <1>1, <3>1 DEF HeldAs, Shared
    <3> QED BY <3>1, <3>4, <3>5
  <2>2. CASE ~new
    <3>1. l = k - 1 /\ i \in Nat /\ i + 1 \in 1 .. k /\ i + 1 # 1 /\ i + 1 \in Nat
      BY <1>11, <2>2
    <3>2. rest[i] = spare[i + 1] /\ rest[i + 1] = spare[(i + 1) + 1]
      BY <1>13, <2>2, <3>1
    <3>3. spare[i + 1] \in DOMAIN b.page /\ spare[i + 1] # b.write /\ spare[i + 1] # p
      <4>1. spare[i + 1] \in 1 .. m + k
        BY <1>4, <3>1, Zenon DEF Apart
      <4>2. used[m] # spare[i + 1]
        BY <1>4, <1>5, <3>1, Zenon DEF Apart
      <4>3. spare[1] = spare[i + 1] => 1 = i + 1
        BY <1>4, <1>5, <1>30, <2>2, <3>1, Zenon DEF Apart
      <4> QED BY <1>4, <1>6, <1>10, <2>2, <3>1, <4>1, <4>2, <4>3
    <3>4. c.page[spare[i + 1]] = b.page[spare[i + 1]]
      BY <1>9, <3>3 DEF Grows
    <3>5. b.page[spare[i + 1]].next = IF i + 1 < k THEN spare[(i + 1) + 1] ELSE 0
      BY <1>1, <3>1 DEF HeldAs, Shared
    <3>6. (i + 1 < k) <=> (i < l)
      <4>1. i \in Nat /\ k \in Nat /\ l = k - 1
        BY <3>1
      <4>2. i + 1 < k <=> i < k - 1
        BY <4>1
      <4> QED BY <4>1, <4>2
    <3> QED BY <3>2, <3>4, <3>5, <3>6
  <2> QED BY <2>1, <2>2
<1>21. c.free = IF l = 0 THEN 0 ELSE rest[1]
  <2>1. CASE new
    BY <1>4, <1>9, <1>11, <1>13, <1>30, <2>1 DEF Grows
  <2>2. CASE ~new
    <3>1. c.free = b.page[spare[1]].next
      BY <1>9, <1>30, <2>2 DEF Grows
    <3>2. b.page[spare[1]].next = IF 1 < k THEN spare[1 + 1] ELSE 0
      BY <1>1, <1>5, <1>30, <2>2 DEF HeldAs, Shared
    <3>3. (1 < k) <=> (l # 0)
      BY <1>11, <1>30, <2>2
    <3>4. rest[1] = spare[1 + 1]
      BY <1>13, <2>2
    <3> QED BY <3>1, <3>2, <3>3, <3>4
  <2> QED BY <2>1, <2>2
<1>22. c.read = more[1] /\ c.write = more[m + 1] /\ c \in Buffers
  <2>1. 1 \in 1 .. m
    OBVIOUS
  <2> QED BY <1>4, <1>9, <1>12, <2>1 DEF Grows
<1>23. Shared(c, more, m + 1, rest, l)
  BY <1>15, <1>16, <1>19, <1>20, <1>21, <1>22 DEF Shared
<1>24. lo[1] = from /\ lo[m + 1] = to /\ Stored(b, used, m, lo)
  BY <1>1 DEF HeldAs
<1>25. ASSUME NEW i \in 1 .. m + 1
       PROVE  /\ Bears(c.page[more[i]], up[i], up[i + 1])
              /\ i < m + 1 => c.page[more[i]].wr = PageSize
  <2>1. CASE i = m + 1
    <3>1. i + 1 = m + 2 /\ i \in 1 .. m + 1 /\ ~(i < m + 1)
      BY <2>1
    <3>2. up[i] = to /\ up[i + 1] = to /\ more[i] = p
      BY <1>12, <1>14, <1>24, <2>1, <3>1
    <3>3. PICK q : q = c.page[p]
      OBVIOUS
    <3>4. q.wr = 0 /\ q.rd = 0
      BY <1>9, <3>3 DEF Grows
    <3>5. Bears(q, to, to)
      BY <3>4, PageAssumption DEF Bears
    <3> QED BY <3>1, <3>2, <3>3, <3>5
  <2>2. CASE i \in 1 .. m
    <3>1. i \in 1 .. m + 1 /\ i + 1 \in 1 .. m + 1
      BY <2>2
    <3>2. up[i] = lo[i] /\ up[i + 1] = lo[i + 1] /\ more[i] = used[i]
      BY <1>12, <1>14, <2>2, <3>1
    <3>3. Bears(b.page[used[i]], lo[i], lo[i + 1]) /\ (i < m => b.page[used[i]].wr = PageSize)
      BY <1>24, <2>2 DEF Stored
    <3>4. PICK q, r : q = b.page[used[i]] /\ r = c.page[used[i]]
      OBVIOUS
    <3>5. r.wr = q.wr /\ r.rd = q.rd /\ r.data = q.data
      BY <1>18, <2>2, <3>4
    <3>6. Bears(r, lo[i], lo[i + 1])
      BY <3>3, <3>4, <3>5 DEF Bears
    <3>7. r.wr = PageSize
      <4>1. CASE i < m
        BY <2>2, <3>3, <3>4, <3>5, <4>1
      <4>2. CASE i = m
        BY <1>4, <3>4, <3>5, <4>2
      <4>3. i < m \/ i = m
        BY <2>2
      <4> QED BY <4>1, <4>2, <4>3
    <3> QED BY <3>2, <3>4, <3>6, <3>7
  <2>3. i = m + 1 \/ i \in 1 .. m
    OBVIOUS
  <2> QED BY <2>1, <2>2, <2>3
<1>26. Stored(c, more, m + 1, up)
  BY <1>25 DEF Stored
<1>27. up[1] = from /\ up[(m + 1) + 1] = to
  <2>1. 1 \in 1 .. m + 1 /\ (m + 1) + 1 = m + 2
    OBVIOUS
  <2> QED BY <1>14, <1>24, <2>1
<1>28. HeldAs(c, from, to, more, m + 1, rest, l, up)
  BY <1>22, <1>23, <1>26, <1>27 DEF HeldAs
<1>29. HeldFull(c, from, to)
  <2>1. m + 1 \in Nat \ {0}
    OBVIOUS
  <2> QED BY <1>28, <2>1 DEF HeldFull
<1>31. c.page[c.write].wr < PageSize
  BY <1>9, PageAssumption DEF Grows
<1>32. c.read = b.read
  BY <1>9 DEF Grows
<1> QED BY <1>2, <1>29, <1>31, <1>32 DEF Held

LEMMA WriteByteHeld ==
  ASSUME NEW b, NEW from \in Nat, NEW to \in Nat, Held(b, from, to)
  PROVE  Held(WriteByte(b, to + 1), from, to + 1) /\ WriteByte(b, to + 1).read = b.read
<1>1. PICK c : c = Store(b, to + 1)
  OBVIOUS
<1>2. HeldFull(c, from, to + 1)
  BY <1>1, StoreHeld
<1>3. PICK used \in [Nat -> Nat], spare \in [Nat -> Nat], lo \in [Nat -> Nat],
           m \in Nat \ {0}, k \in Nat : HeldAs(b, from, to, used, m, spare, k, lo)
  BY DEF Held, HeldFull
<1>4. b \in Buffers /\ b.write \in DOMAIN b.page /\ b.page[b.write].wr \in Nat
  <2>1. /\ b \in Buffers /\ Len(b.page) = m + k /\ b.write = used[m] /\ m + k \in Nat
        /\ Apart(used, m, spare, k)
    BY <1>3 DEF HeldAs, Shared
  <2>2. m \in 1 .. m
    OBVIOUS
  <2>3. used[m] \in 1 .. m + k
    BY <2>1, <2>2, Zenon DEF Apart
  <2> QED BY <2>1, <2>3, PageFacts
<1>5. Stores(b, c, to + 1)
  <2>1. to + 1 \in Nat /\ b.page[b.write].wr < PageSize
    BY DEF Held
  <2> QED BY <1>1, <1>4, <2>1, StoreIs
<1>6. c.write = b.write /\ c.read = b.read
  BY <1>5 DEF Stores
<1>7. PICK at \in Nat : at = b.page[b.write].wr + 1 /\ at <= PageSize /\ c.page[c.write].wr = at
  <2>1. PICK wr \in Nat : wr = b.page[b.write].wr
    BY <1>4
  <2>2. wr + 1 \in Nat /\ wr + 1 <= PageSize
    BY <2>1, PageAssumption DEF Held
  <2> QED BY <1>5, <1>6, <2>1, <2>2 DEF Stores
<1>8. WriteByte(b, to + 1) = IF at < PageSize THEN c ELSE GrowFrom(c, c.free)
  BY <1>1, <1>7 DEF WriteByte
<1>9. CASE at < PageSize
  BY <1>2, <1>6, <1>7, <1>8, <1>9 DEF Held
<1>10. CASE ~(at < PageSize)
  <2>1. c.page[c.write].wr = PageSize
    <3>1. at = PageSize
      <4>1. at <= PageSize /\ PageSize \in Nat
        BY <1>7, PageAssumption
      <4> QED BY <1>10, <4>1
    <3> QED BY <1>7, <3>1
  <2>2. to + 1 \in Nat
    OBVIOUS
  <2>3. Held(GrowFrom(c, c.free), from, to + 1) /\ GrowFrom(c, c.free).read = c.read
    BY <1>2, <2>1, <2>2, GrowHeld
  <2> QED BY <1>6, <1>8, <1>10, <2>3
<1> QED BY <1>9, <1>10

-----------------------------------------------------------------------------
(* write: the fold of WriteByte.                                           *)

\* The fold, on the bytes whose numbers are in s.
Iterates(g, d, b, bytes) ==
  g = [s \in SUBSET d |-> IF s = {} THEN b ELSE WriteByte(g[s \ {Max(s)}], bytes[Max(s)])]

LEMMA FoldIs ==
  ASSUME NEW b, NEW bytes
  PROVE  Write(b, bytes) = (CHOOSE g : Iterates(g, DOMAIN bytes, b, bytes))[DOMAIN bytes]
<1>1. Write(b, bytes) = (CHOOSE g : g = [s \in SUBSET DOMAIN bytes |->
        IF s = {} THEN b ELSE WriteByte(g[s \ {Max(s)}], bytes[Max(s)])])[DOMAIN bytes]
  BY Zenon DEF Write, FoldLeft, MapThenFoldSet
<1> QED BY <1>1, Zenon DEF Iterates

LEMMA FoldIterates ==
  ASSUME NEW b, NEW bytes, \E g : Iterates(g, DOMAIN bytes, b, bytes)
  PROVE  \E g : Iterates(g, DOMAIN bytes, b, bytes) /\ Write(b, bytes) = g[DOMAIN bytes]
BY FoldIs

LEMMA MaxIs == ASSUME NEW n \in Nat, NEW s \in SUBSET (1 .. n + 1), n + 1 \in s
               PROVE  Max(s) = n + 1
<1>1. \A y \in s : n + 1 >= y
  OBVIOUS
<1>2. \A x \in s : (\A y \in s : x >= y) => x = n + 1
  OBVIOUS
<1> QED BY <1>1, <1>2 DEF Max

LEMMA IteratesExists ==
  ASSUME NEW b, NEW bytes, NEW n \in Nat
  PROVE  \E g : Iterates(g, 1 .. n, b, bytes)
<1> DEFINE S == {d \in Nat : \E g : Iterates(g, 1 .. d, b, bytes)}
<1>1. 0 \in S
  <2>1. PICK g : g = [s \in SUBSET (1 .. 0) |-> b]
    OBVIOUS
  <2>2. \A s \in SUBSET (1 .. 0) : s = {}
    OBVIOUS
  <2>3. g = [s \in SUBSET (1 .. 0) |-> IF s = {} THEN b ELSE WriteByte(g[s \ {Max(s)}], bytes[Max(s)])]
    BY <2>1, <2>2
  <2>4. Iterates(g, 1 .. 0, b, bytes)
    BY <2>3 DEF Iterates
  <2> QED BY <2>4
<1>2. ASSUME NEW d \in Nat, d \in S PROVE d + 1 \in S
  <2>1. PICK g : Iterates(g, 1 .. d, b, bytes)
    BY <1>2
  <2>2. \A s \in SUBSET (1 .. d) :
          g[s] = IF s = {} THEN b ELSE WriteByte(g[s \ {Max(s)}], bytes[Max(s)])
    BY <2>1 DEF Iterates
  <2>3. PICK e \in Nat : e = d + 1
    OBVIOUS
  <2>4. PICK h : h = [s \in SUBSET (1 .. e) |->
                       IF e \in s THEN WriteByte(g[s \ {e}], bytes[e]) ELSE g[s]]
    OBVIOUS
  <2>5. ASSUME NEW s \in SUBSET (1 .. d) PROVE h[s] = g[s]
    <3>1. s \in SUBSET (1 .. e) /\ e \notin s
      BY <2>3
    <3> QED BY <2>4, <3>1
  <2>6. ASSUME NEW s \in SUBSET (1 .. e)
        PROVE h[s] = IF s = {} THEN b ELSE WriteByte(h[s \ {Max(s)}], bytes[Max(s)])
    <3>1. CASE e \in s
      <4>1. Max(s) = e /\ s # {}
        BY <2>3, <3>1, MaxIs
      <4>2. s \ {e} \in SUBSET (1 .. d)
        BY <2>3
      <4>3. h[s] = WriteByte(g[s \ {e}], bytes[e])
        BY <2>4, <3>1
      <4>4. h[s \ {e}] = g[s \ {e}]
        BY <2>5, <4>2
      <4> QED BY <4>1, <4>3, <4>4
    <3>2. CASE e \notin s
      <4>1. s \in SUBSET (1 .. d) /\ s \ {Max(s)} \in SUBSET (1 .. d)
        <5>1. \A x \in 1 .. e : x # e => x \in 1 .. d
          BY <2>3
        <5>2. \A x \in s : x \in 1 .. d
          BY <3>2, <5>1
        <5> QED BY <5>2
      <4>2. h[s] = g[s] /\ h[s \ {Max(s)}] = g[s \ {Max(s)}]
        BY <2>5, <4>1
      <4> QED BY <2>2, <4>1, <4>2
    <3> QED BY <3>1, <3>2
  <2>7. h = [s \in SUBSET (1 .. e) |-> h[s]]
    BY <2>4
  <2>8. h = [s \in SUBSET (1 .. e) |->
              IF s = {} THEN b ELSE WriteByte(h[s \ {Max(s)}], bytes[Max(s)])]
    BY <2>6, <2>7
  <2>9. Iterates(h, 1 .. e, b, bytes)
    BY <2>8 DEF Iterates
  <2> QED BY <2>3, <2>9
<1> HIDE DEF S
<1>3. n \in S
  BY <1>1, <1>2, InductionOnSet
<1> QED BY <1>3 DEF S

\* The buffers after each of the bytes.
LEMMA WriteIs ==
  ASSUME NEW b, NEW bytes, NEW n \in Nat, DOMAIN bytes = 1 .. n
  PROVE  \E after : /\ after[0] = b
                    /\ \A k \in 0 .. n - 1 : after[k + 1] = WriteByte(after[k], bytes[k + 1])
                    /\ after[n] = Write(b, bytes)
<1>1. PICK g : Iterates(g, 1 .. n, b, bytes) /\ Write(b, bytes) = g[1 .. n]
  BY IteratesExists, FoldIterates
<1>2. \A s \in SUBSET (1 .. n) :
        g[s] = IF s = {} THEN b ELSE WriteByte(g[s \ {Max(s)}], bytes[Max(s)])
  BY <1>1 DEF Iterates
<1>3. PICK after : after = [k \in 0 .. n |-> g[1 .. k]]
  OBVIOUS
<1>4. after[0] = b
  <2>1. {} \in SUBSET (1 .. n) /\ 1 .. 0 = {} /\ 0 \in 0 .. n
    OBVIOUS
  <2> QED BY <1>2, <1>3, <2>1
<1>5. ASSUME NEW k \in 0 .. n - 1 PROVE after[k + 1] = WriteByte(after[k], bytes[k + 1])
  <2>1. 1 .. k + 1 \in SUBSET (1 .. n) /\ 1 .. k + 1 # {} /\ (1 .. k + 1) \ {k + 1} = 1 .. k
    OBVIOUS
  <2>2. Max(1 .. k + 1) = k + 1
    <3>1. k \in Nat /\ 1 .. k + 1 \in SUBSET (1 .. k + 1) /\ k + 1 \in 1 .. k + 1
      OBVIOUS
    <3> QED BY <3>1, MaxIs
  <2>3. g[1 .. k + 1] = WriteByte(g[1 .. k], bytes[k + 1])
    BY <1>2, <2>1, <2>2
  <2>4. k \in 0 .. n /\ k + 1 \in 0 .. n
    OBVIOUS
  <2> QED BY <1>3, <2>3, <2>4
<1>6. after[n] = Write(b, bytes)
  BY <1>1, <1>3
<1> QED BY <1>4, <1>5, <1>6

\* write puts what it is given behind what the buffer holds.
LEMMA WriteHeld ==
  ASSUME NEW b, NEW from \in Nat, NEW to \in Nat, NEW n \in Nat, Held(b, from, to)
  PROVE  Held(Write(b, Following(to, n)), from, to + n) /\ Write(b, Following(to, n)).read = b.read
<1>1. PICK bytes : bytes = Following(to, n)
  OBVIOUS
<1>2. DOMAIN bytes = 1 .. n /\ \A i \in 1 .. n : bytes[i] = to + i
  BY <1>1, FollowingFacts
<1>3. PICK after : /\ after[0] = b
                   /\ \A k \in 0 .. n - 1 : after[k + 1] = WriteByte(after[k], bytes[k + 1])
                   /\ after[n] = Write(b, bytes)
  BY <1>2, WriteIs
<1> DEFINE S == {k \in 0 .. n : Held(after[k], from, to + k) /\ after[k].read = b.read}
<1>4. 0 \in S
  BY <1>3
<1>5. ASSUME NEW k \in 0 .. n - 1, k \in S PROVE k + 1 \in S
  <2>1. PICK x \in Nat : x = to + k
    OBVIOUS
  <2>2. Held(after[k], from, x) /\ after[k].read = b.read
    BY <1>5, <2>1
  <2>3. Held(WriteByte(after[k], x + 1), from, x + 1) /\ WriteByte(after[k], x + 1).read = b.read
    BY <2>2, WriteByteHeld
  <2>4. k + 1 \in 1 .. n /\ bytes[k + 1] = x + 1 /\ x + 1 = to + (k + 1)
    BY <1>2, <2>1
  <2> QED BY <1>3, <2>3, <2>4
<1> HIDE DEF S
<1>6. \A k \in 0 .. n : k \in S
  BY <1>4, <1>5, InductionUpTo
<1>7. n \in S
  BY <1>6
<1> QED BY <1>1, <1>3, <1>7 DEF S

-----------------------------------------------------------------------------
(* read.                                                                   *)

\* k bytes are taken from the page that is read.
Take(b, k) == [b EXCEPT !.page[b.read].rd = b.page[b.read].rd + k]

Takes(b, c, k) ==
  /\ c \in Buffers
  /\ c.read = b.read /\ c.write = b.write /\ c.free = b.free
  /\ Len(c.page) = Len(b.page)
  /\ \A p \in DOMAIN b.page : p # b.read => c.page[p] = b.page[p]
  /\ c.page[b.read].rd = b.page[b.read].rd + k
  /\ c.page[b.read].wr = b.page[b.read].wr
  /\ c.page[b.read].next = b.page[b.read].next
  /\ c.page[b.read].data = b.page[b.read].data

\* There are k bytes on the page that is read.
HasBytes(b, k) == k <= b.page[b.read].wr - b.page[b.read].rd

LEMMA TakeIs ==
  ASSUME NEW b \in Buffers, NEW k \in Nat, b.read \in DOMAIN b.page, HasBytes(b, k)
  PROVE  Takes(b, Take(b, k), k)
<1>1. PICK pages \in Seq(Pages), w, r \in Nat, f, N \in Nat :
        pages = b.page /\ w = b.write /\ r = b.read /\ f = b.free /\ N = Len(pages)
  <2>1. b.page \in Seq(Pages) /\ b.read \in Nat /\ b.write \in Nat /\ b.free \in Nat
    BY DEF Buffers
  <2> QED BY <2>1
<1>2. b = [page |-> pages, write |-> w, read |-> r, free |-> f]
  BY <1>1 DEF Buffers
<1>3. DOMAIN pages = 1 .. N /\ r \in 1 .. N /\ pages[r] \in Pages
  BY <1>1
<1>4. PICK g \in Pages : g = pages[r]
  BY <1>3
<1>5. PICK h : h = [g EXCEPT !.rd = g.rd + k]
  OBVIOUS
<1>6. h \in Pages /\ h.rd = g.rd + k /\ h.wr = g.wr /\ h.next = g.next /\ h.data = g.data
  <2>1. PICK rd \in Nat, wr \in Nat : rd = g.rd /\ wr = g.wr
    BY DEF Pages
  <2>2. rd + k \in Nat /\ rd + k <= wr
    <3>1. k <= wr - rd
      BY <1>1, <1>4, <2>1 DEF HasBytes
    <3> QED BY <3>1
  <2> QED BY <1>5, <2>1, <2>2 DEF Pages
<1>7. PICK s : s = [pages EXCEPT ![r] = h]
  OBVIOUS
<1>8. s \in Seq(Pages) /\ Len(s) = N /\ s[r] = h /\ \A j \in 1 .. N : j # r => s[j] = pages[j]
  BY <1>1, <1>3, <1>6, <1>7, Replaced
<1>9. PICK c : c = Take(b, k)
  OBVIOUS
<1>10. c = [b EXCEPT !.page = s]
  BY <1>1, <1>4, <1>5, <1>7, <1>9 DEF Take
<1>11. c.page = s /\ c.read = r /\ c.write = w /\ c.free = f /\ c \in Buffers
  BY <1>1, <1>2, <1>8, <1>10 DEF Buffers
<1>12. \A p \in DOMAIN b.page : p # b.read => c.page[p] = b.page[p]
  BY <1>1, <1>3, <1>8, <1>11
<1>13. c.page[b.read] = h /\ b.page[b.read] = g /\ Len(c.page) = Len(b.page)
  BY <1>1, <1>4, <1>8, <1>11
<1> QED BY <1>1, <1>6, <1>9, <1>11, <1>12, <1>13 DEF Takes

LEMMA TakeHeld ==
  ASSUME NEW b, NEW from \in Nat, NEW to \in Nat, HeldFull(b, from, to), NEW k \in Nat,
         HasBytes(b, k)
  PROVE  /\ HeldFull(Take(b, k), from + k, to)
         /\ Takes(b, Take(b, k), k)
         /\ SubSeq(b.page[b.read].data, b.page[b.read].rd + 1, b.page[b.read].rd + k)
              = Following(from, k)
<1>1. PICK used \in [Nat -> Nat], spare \in [Nat -> Nat], lo \in [Nat -> Nat],
           m \in Nat \ {0}, l \in Nat : HeldAs(b, from, to, used, m, spare, l, lo)
  BY DEF HeldFull
<1>2. PICK c : c = Take(b, k)
  OBVIOUS
<1>3. PICK N \in Nat : N = m + l
  OBVIOUS
<1>4. /\ b \in Buffers /\ Len(b.page) = N /\ DOMAIN b.page = 1 .. N /\ b.read = used[1]
      /\ b.write = used[m] /\ \A i \in 1 .. m : used[i] \in 1 .. N
  <2>1. b \in Buffers /\ Len(b.page) = N /\ b.write = used[m] /\ b.read = used[1] /\ Apart(used, m, spare, l)
    BY <1>1, <1>3 DEF HeldAs, Shared
  <2>2. \A i \in 1 .. m : used[i] \in 1 .. N
    BY <1>3, <2>1, Zenon DEF Apart
  <2> QED BY <2>1, <2>2, PageFacts
<1>5. 1 \in 1 .. m /\ m \in 1 .. m
  OBVIOUS
<1>6. b.read \in DOMAIN b.page /\ b.write \in DOMAIN b.page
  BY <1>4, <1>5
<1>7. Takes(b, c, k)
  BY <1>2, <1>4, <1>6, TakeIs
<1>8. \A p \in 1 .. N : c.page[p].next = b.page[p].next /\ c.page[p].wr = b.page[p].wr
  BY <1>4, <1>7 DEF Takes
<1>9. Shared(c, used, m, spare, l)
  <2>1. Shared(b, used, m, spare, l)
    BY <1>1 DEF HeldAs
  <2>2. Apart(used, m, spare, l)
    BY <2>1 DEF Shared
  <2>3. /\ \A i \in 1 .. m : used[i] \in 1 .. N
        /\ \A i \in 1 .. l : spare[i] \in 1 .. N
    BY <1>3, <2>2, Zenon DEF Apart
  <2>4. /\ \A i \in 1 .. m : c.page[used[i]].next = b.page[used[i]].next
        /\ \A i \in 1 .. l : c.page[spare[i]].next = b.page[spare[i]].next
    BY <1>8, <2>3
  <2> QED BY <1>7, <2>1, <2>4 DEF Shared, Takes
<1>10. lo[1] = from /\ lo[m + 1] = to /\ Stored(b, used, m, lo)
  BY <1>1 DEF HeldAs
<1>11. PICK p : p = b.page[b.read]
  OBVIOUS
<1>12. PICK wr \in Nat, rd \in Nat : wr = p.wr /\ rd = p.rd
  BY <1>4, <1>6, <1>11, PageFacts
<1>13. p.data \in [1 .. PageSize -> Nat]
  BY <1>4, <1>6, <1>11, PageFacts
<1>14. PICK y \in Nat : y = lo[2]
  OBVIOUS
<1>15. Bears(p, from, y)
  <2>1. Bears(b.page[used[1]], lo[1], lo[1 + 1])
    BY <1>5, <1>10 DEF Stored
  <2> QED BY <1>4, <1>10, <1>11, <1>14, <2>1
<1>16. /\ rd <= wr /\ wr <= PageSize /\ y = from + (wr - rd) /\ k <= wr - rd
       /\ \A j \in rd + 1 .. wr : p.data[j] = from + (j - rd)
  BY <1>11, <1>12, <1>15 DEF Bears, HasBytes
<1>17. SubSeq(p.data, rd + 1, rd + k) = Following(from, k)
  <2>1. rd + k <= PageSize
    BY <1>16, PageAssumption
  <2>2. \A j \in rd + 1 .. rd + k : j \in rd + 1 .. wr
    BY <1>16
  <2>3. \A j \in rd + 1 .. rd + k : p.data[j] = from + (j - rd)
    BY <1>16, <2>2
  <2>4. Numbered(p.data, rd, k, from)
    BY <1>13, <2>1, <2>3 DEF Numbered
  <2>5. Piece(p.data, rd, k) = Following(from, k)
    BY <2>4, FollowingSub
  <2> QED BY <2>5 DEF Piece
<1>18. PICK q : q = c.page[b.read]
  OBVIOUS
<1>19. q.rd = rd + k /\ q.wr = wr /\ q.data = p.data
  BY <1>7, <1>11, <1>12, <1>18 DEF Takes
<1>20. Bears(q, from + k, y)
  <2>1. rd + k <= wr /\ y = (from + k) + (wr - (rd + k))
    BY <1>16
  <2>2. ASSUME NEW j \in (rd + k) + 1 .. wr PROVE q.data[j] = (from + k) + (j - (rd + k))
    <3>1. j \in rd + 1 .. wr /\ from + (j - rd) = (from + k) + (j - (rd + k))
      OBVIOUS
    <3> QED BY <1>16, <1>19, <3>1
  <2> QED BY <1>16, <1>19, <2>1, <2>2 DEF Bears
<1>21. PICK up \in [Nat -> Nat] : up[1] = from + k /\ \A i \in Nat : i # 1 => up[i] = lo[i]
  <2>1. [lo EXCEPT ![1] = from + k] \in [Nat -> Nat]
    OBVIOUS
  <2>2. PICK u \in [Nat -> Nat] : u = [lo EXCEPT ![1] = from + k]
    BY <2>1
  <2> QED BY <2>2
<1>22. ASSUME NEW i \in 1 .. m
       PROVE  /\ Bears(c.page[used[i]], up[i], up[i + 1])
              /\ i < m => c.page[used[i]].wr = PageSize
  <2>1. i < m => b.page[used[i]].wr = PageSize
    BY <1>10 DEF Stored
  <2>2. c.page[used[i]].wr = b.page[used[i]].wr
    BY <1>4, <1>8
  <2>3. CASE i = 1
    <3>1. used[i] = b.read /\ up[i] = from + k /\ up[i + 1] = y
      BY <1>4, <1>14, <1>21, <2>3
    <3> QED BY <1>18, <1>20, <2>1, <2>2, <3>1
  <2>4. CASE i # 1
    <3>1. i \in Nat /\ i + 1 \in Nat /\ i + 1 # 1
      OBVIOUS
    <3>2. up[i] = lo[i] /\ up[i + 1] = lo[i + 1]
      BY <1>21, <2>4, <3>1
    <3>3. used[i] # used[1]
      <4>1. Apart(used, m, spare, l)
        BY <1>9 DEF Shared
      <4>2. used[i] = used[1] => i = 1
        BY <1>5, <4>1, Zenon DEF Apart
      <4> QED BY <2>4, <4>2
    <3>4. c.page[used[i]] = b.page[used[i]]
      BY <1>4, <1>7, <3>3 DEF Takes
    <3>5. Bears(b.page[used[i]], lo[i], lo[i + 1])
      BY <1>10 DEF Stored
    <3> QED BY <2>1, <3>2, <3>4, <3>5
  <2> QED BY <2>3, <2>4
<1>23. Stored(c, used, m, up)
  BY <1>22 DEF Stored
<1>24. up[m + 1] = to
  <2>1. m + 1 \in Nat /\ m + 1 # 1
    OBVIOUS
  <2> QED BY <1>10, <1>21, <2>1
<1>25. HeldAs(c, from + k, to, used, m, spare, l, up)
  BY <1>7, <1>9, <1>21, <1>23, <1>24 DEF HeldAs, Takes
<1>26. HeldFull(c, from + k, to)
  BY <1>25 DEF HeldFull
<1> QED BY <1>2, <1>7, <1>11, <1>12, <1>17, <1>26

\* The page that is read is given back, and reading goes on with the next one.
GiveBack(b) == FreePage(LeavePage(b), b.read)

GivesBack(b, c) ==
  /\ c \in Buffers
  /\ c.read = b.page[b.read].next /\ c.write = b.write /\ c.free = b.read
  /\ Len(c.page) = Len(b.page)
  /\ \A p \in DOMAIN b.page : p # b.read => c.page[p] = b.page[p]
  /\ c.page[b.read].next = b.free
  /\ c.page[b.read].wr = b.page[b.read].wr /\ c.page[b.read].rd = b.page[b.read].rd
  /\ c.page[b.read].data = b.page[b.read].data

LEMMA GiveBackIs ==
  ASSUME NEW b \in Buffers, b.read \in DOMAIN b.page
  PROVE  GivesBack(b, GiveBack(b))
<1>1. PICK pages \in Seq(Pages), w, r \in Nat, f, N \in Nat :
        pages = b.page /\ w = b.write /\ r = b.read /\ f = b.free /\ N = Len(pages)
  <2>1. b.page \in Seq(Pages) /\ b.read \in Nat /\ b.write \in Nat /\ b.free \in Nat
    BY DEF Buffers
  <2> QED BY <2>1
<1>2. b = [page |-> pages, write |-> w, read |-> r, free |-> f]
  BY <1>1 DEF Buffers
<1>3. DOMAIN pages = 1 .. N /\ r \in 1 .. N /\ pages[r] \in Pages
  BY <1>1
<1>4. PICK g \in Pages, nx \in Nat : g = pages[r] /\ nx = g.next
  BY <1>3 DEF Pages
<1>5. PICK h : h = [g EXCEPT !.next = f]
  OBVIOUS
<1>6. h \in Pages /\ h.next = f /\ h.wr = g.wr /\ h.rd = g.rd /\ h.data = g.data
  BY <1>5 DEF Pages
<1>7. PICK s : s = [pages EXCEPT ![r] = h]
  OBVIOUS
<1>8. s \in Seq(Pages) /\ Len(s) = N /\ s[r] = h /\ \A j \in 1 .. N : j # r => s[j] = pages[j]
  BY <1>1, <1>3, <1>6, <1>7, Replaced
<1>9. PICK c : c = GiveBack(b)
  OBVIOUS
<1>10. c = [page |-> s, write |-> w, read |-> nx, free |-> r]
  <2>1. PICK d, e : d = LeavePage(b) /\ e = FreeLink(d, r)
    OBVIOUS
  <2>2. d = [page |-> pages, write |-> w, read |-> nx, free |-> f]
    BY <1>1, <1>2, <1>4, <2>1 DEF LeavePage
  <2>3. d.page = pages /\ d.free = f /\ [pages EXCEPT ![r].next = f] = s
    BY <1>4, <1>5, <1>7, <2>2
  <2>4. e = [page |-> s, write |-> w, read |-> nx, free |-> f]
    <3>1. [d EXCEPT !.page[r].next = d.free] = [d EXCEPT !.page = s]
      BY <2>3
    <3>2. [d EXCEPT !.page = s] = [page |-> s, write |-> w, read |-> nx, free |-> f]
      BY <2>2
    <3> QED BY <2>1, <3>1, <3>2 DEF FreeLink
  <2> QED BY <1>1, <1>9, <2>1, <2>4 DEF GiveBack, FreePage, FreeHead
<1>11. c.page = s /\ c.read = nx /\ c.write = w /\ c.free = r /\ c \in Buffers
  BY <1>1, <1>8, <1>10 DEF Buffers
<1>12. \A p \in DOMAIN b.page : p # b.read => c.page[p] = b.page[p]
  BY <1>1, <1>3, <1>8, <1>11
<1>13. c.page[b.read] = h /\ b.page[b.read] = g /\ Len(c.page) = Len(b.page)
  BY <1>1, <1>4, <1>8, <1>11
<1> QED BY <1>1, <1>4, <1>6, <1>9, <1>11, <1>12, <1>13 DEF GivesBack

\* The places of the pages when the first in use is the first of the spare ones.
Shrunk(used, m, spare, k, less, more) ==
  /\ \A i \in Nat : less[i] = used[i + 1]
  /\ more[1] = used[1]
  /\ \A i \in 1 .. k : more[i + 1] = spare[i]

LEMMA ShrinkApart ==
  ASSUME NEW used \in [Nat -> Nat], NEW spare \in [Nat -> Nat], NEW m \in Nat \ {0}, NEW k \in Nat,
         Apart(used, m, spare, k), NEW less \in [Nat -> Nat], NEW more \in [Nat -> Nat],
         m > 1, Shrunk(used, m, spare, k, less, more)
  PROVE  Apart(less, m - 1, more, k + 1)
<1>1. PICK N \in Nat : N = m + k
  OBVIOUS
<1>2. /\ \A i \in 1 .. m : used[i] \in 1 .. N
      /\ \A i \in 1 .. k : spare[i] \in 1 .. N
  BY <1>1, Zenon DEF Apart
<1>3. \A i, j \in 1 .. m : used[i] = used[j] => i = j
  BY <1>1, Zenon DEF Apart
<1>4. \A i, j \in 1 .. k : spare[i] = spare[j] => i = j
  BY <1>1, Zenon DEF Apart
<1>5. \A i \in 1 .. m, j \in 1 .. k : used[i] # spare[j]
  BY <1>1, Zenon DEF Apart
<1>6. \A q \in 1 .. N : (\E i \in 1 .. m : used[i] = q) \/ (\E j \in 1 .. k : spare[j] = q)
  BY <1>1, Zenon DEF Apart
<1>7. PICK u \in Nat, l \in Nat : u = m - 1 /\ l = k + 1 /\ u + l = N
  <2>1. m - 1 \in Nat /\ k + 1 \in Nat /\ (m - 1) + (k + 1) = N
    BY <1>1
  <2> QED BY <2>1
<1>8. \A i \in 1 .. u : less[i] = used[i + 1] /\ i + 1 \in 1 .. m /\ i + 1 # 1
  BY <1>7 DEF Shrunk
<1>9. more[1] = used[1] /\ 1 \in 1 .. m /\ 1 \in 1 .. l
  BY <1>7 DEF Shrunk
<1>10. ASSUME NEW i \in 1 .. l, i # 1 PROVE i - 1 \in 1 .. k /\ more[i] = spare[i - 1]
  <2>1. i - 1 \in 1 .. k /\ (i - 1) + 1 = i
    BY <1>7, <1>10
  <2>2. more[(i - 1) + 1] = spare[i - 1]
    BY <2>1 DEF Shrunk
  <2> QED BY <2>1, <2>2
<1>11. SUFFICES /\ \A i \in 1 .. u : less[i] \in 1 .. N
                /\ \A i \in 1 .. l : more[i] \in 1 .. N
                /\ \A i, j \in 1 .. u : less[i] = less[j] => i = j
                /\ \A i, j \in 1 .. l : more[i] = more[j] => i = j
                /\ \A i \in 1 .. u, j \in 1 .. l : less[i] # more[j]
                /\ \A q \in 1 .. N : (\E i \in 1 .. u : less[i] = q) \/ (\E j \in 1 .. l : more[j] = q)
  BY <1>7, Zenon DEF Apart
<1>12. \A i \in 1 .. u : less[i] \in 1 .. N
  BY <1>2, <1>8
<1>13. ASSUME NEW i \in 1 .. l PROVE more[i] \in 1 .. N
  <2>1. CASE i = 1
    BY <1>2, <1>9, <2>1
  <2>2. CASE i # 1
    BY <1>2, <1>10, <2>2
  <2> QED BY <2>1, <2>2
<1>14. ASSUME NEW i \in 1 .. u, NEW j \in 1 .. u, less[i] = less[j] PROVE i = j
  <2>1. i + 1 = j + 1
    BY <1>3, <1>8, <1>14
  <2> QED BY <2>1
<1>15. ASSUME NEW i \in 1 .. l, NEW j \in 1 .. l, more[i] = more[j] PROVE i = j
  <2>1. CASE i # 1 /\ j # 1
    <3>1. i - 1 \in 1 .. k /\ j - 1 \in 1 .. k /\ spare[i - 1] = spare[j - 1]
      BY <1>10, <1>15, <2>1
    <3>2. i - 1 = j - 1
      BY <1>4, <3>1
    <3> QED BY <3>2
  <2>2. CASE i = 1 /\ j # 1
    <3>1. more[j] = spare[j - 1] /\ j - 1 \in 1 .. k
      BY <1>10, <2>2
    <3> QED BY <1>5, <1>9, <1>15, <2>2, <3>1
  <2>3. CASE i # 1 /\ j = 1
    <3>1. more[i] = spare[i - 1] /\ i - 1 \in 1 .. k
      BY <1>10, <2>3
    <3> QED BY <1>5, <1>9, <1>15, <2>3, <3>1
  <2>4. CASE i = 1 /\ j = 1
    BY <2>4
  <2> QED BY <2>1, <2>2, <2>3, <2>4
<1>16. ASSUME NEW i \in 1 .. u, NEW j \in 1 .. l PROVE less[i] # more[j]
  <2>1. CASE j = 1
    <3>1. used[i + 1] # used[1]
      BY <1>3, <1>8, <1>9
    <3> QED BY <1>8, <1>9, <2>1, <3>1
  <2>2. CASE j # 1
    <3>1. more[j] = spare[j - 1] /\ j - 1 \in 1 .. k
      BY <1>10, <2>2
    <3> QED BY <1>5, <1>8, <3>1
  <2> QED BY <2>1, <2>2
<1>17. ASSUME NEW q \in 1 .. N
       PROVE  (\E i \in 1 .. u : less[i] = q) \/ (\E j \in 1 .. l : more[j] = q)
  <2>1. CASE \E i \in 1 .. m : used[i] = q
    <3>1. PICK i \in 1 .. m : used[i] = q
      BY <2>1
    <3>2. CASE i = 1
      BY <1>9, <3>1, <3>2
    <3>3. CASE i # 1
      <4>1. i - 1 \in 1 .. u /\ (i - 1) + 1 = i
        BY <1>7, <3>3
      <4>2. less[i - 1] = q
        BY <1>8, <3>1, <4>1
      <4> QED BY <4>1, <4>2
    <3> QED BY <3>2, <3>3
  <2>2. CASE \E j \in 1 .. k : spare[j] = q
    <3>1. PICK j \in 1 .. k : spare[j] = q
      BY <2>2
    <3>2. j + 1 \in 1 .. l
      BY <1>7
    <3>3. more[j + 1] = q
      BY <3>1 DEF Shrunk
    <3> QED BY <3>2, <3>3
  <2> QED BY <1>6, <2>1, <2>2
<1> QED BY <1>12, <1>13, <1>14, <1>15, <1>16, <1>17

\* All of the page that is read has been read, and it is full.
IsDone(b) == b.page[b.read].rd >= b.page[b.read].wr /\ b.page[b.read].wr >= PageSize

LEMMA GiveBackHeld ==
  ASSUME NEW b, NEW from \in Nat, NEW to \in Nat, HeldFull(b, from, to), IsDone(b), b.read # b.write
  PROVE  HeldFull(GiveBack(b), from, to) /\ GivesBack(b, GiveBack(b))
<1>1. PICK used \in [Nat -> Nat], spare \in [Nat -> Nat], lo \in [Nat -> Nat],
           m \in Nat \ {0}, k \in Nat : HeldAs(b, from, to, used, m, spare, k, lo)
  BY DEF HeldFull
<1>2. PICK c : c = GiveBack(b)
  OBVIOUS
<1>3. PICK N \in Nat : N = m + k
  OBVIOUS
<1>4. /\ b \in Buffers /\ Len(b.page) = N /\ DOMAIN b.page = 1 .. N /\ b.read = used[1]
      /\ b.write = used[m] /\ \A i \in 1 .. m : used[i] \in 1 .. N
  <2>1. b \in Buffers /\ Len(b.page) = N /\ b.write = used[m] /\ b.read = used[1] /\ Apart(used, m, spare, k)
    BY <1>1, <1>3 DEF HeldAs, Shared
  <2>2. \A i \in 1 .. m : used[i] \in 1 .. N
    BY <1>3, <2>1, Zenon DEF Apart
  <2> QED BY <2>1, <2>2, PageFacts
<1>5. 1 \in 1 .. m /\ m \in 1 .. m
  OBVIOUS
<1>6. GivesBack(b, c)
  BY <1>2, <1>4, <1>5, GiveBackIs
<1>7. lo[1] = from /\ lo[m + 1] = to /\ Stored(b, used, m, lo) /\ Shared(b, used, m, spare, k)
  BY <1>1 DEF HeldAs
<1>8. Apart(used, m, spare, k)
  BY <1>7 DEF Shared
<1>9. m > 1
  BY <1>4
<1>10. PICK less \in [Nat -> Nat], more \in [Nat -> Nat] : Shrunk(used, m, spare, k, less, more)
  <2>1. [i \in Nat |-> used[i + 1]] \in [Nat -> Nat]
    OBVIOUS
  <2>2. [i \in Nat |-> IF i <= 1 THEN used[1] ELSE spare[i - 1]] \in [Nat -> Nat]
    <3>1. ASSUME NEW i \in Nat PROVE (IF i <= 1 THEN used[1] ELSE spare[i - 1]) \in Nat
      <4>1. CASE i <= 1
        BY <4>1
      <4>2. CASE ~(i <= 1)
        <5>1. i - 1 \in Nat
          BY <4>2
        <5>2. spare[i - 1] \in Nat
          BY <5>1
        <5> QED BY <4>2, <5>2
      <4> QED BY <4>1, <4>2
    <3> QED BY <3>1
  <2>3. PICK u \in [Nat -> Nat], v \in [Nat -> Nat] :
          /\ u = [i \in Nat |-> used[i + 1]]
          /\ v = [i \in Nat |-> IF i <= 1 THEN used[1] ELSE spare[i - 1]]
    BY <2>1, <2>2
  <2>4. \A i \in Nat : u[i] = used[i + 1]
    BY <2>3
  <2>5. v[1] = used[1]
    BY <2>3
  <2>6. ASSUME NEW i \in 1 .. k PROVE v[i + 1] = spare[i]
    <3>1. i + 1 \in Nat /\ ~(i + 1 <= 1) /\ (i + 1) - 1 = i
      OBVIOUS
    <3> QED BY <2>3, <3>1
  <2> QED BY <2>4, <2>5, <2>6 DEF Shrunk
<1>11. PICK u \in Nat \ {0}, l \in Nat : u = m - 1 /\ l = k + 1 /\ u + l = N
  <2>1. m - 1 \in Nat \ {0} /\ k + 1 \in Nat /\ (m - 1) + (k + 1) = N
    BY <1>3, <1>9
  <2> QED BY <2>1
<1>12. Apart(less, u, more, l)
  BY <1>8, <1>9, <1>10, <1>11, ShrinkApart
<1>13. ASSUME NEW i \in 1 .. u
       PROVE  /\ i \in Nat /\ i + 1 \in 1 .. m /\ less[i] = used[i + 1]
              /\ c.page[less[i]] = b.page[used[i + 1]]
  <2>1. i \in Nat /\ i + 1 \in 1 .. m /\ i + 1 # 1
    BY <1>11
  <2>2. less[i] = used[i + 1]
    BY <1>10, <2>1 DEF Shrunk
  <2>3. used[i + 1] # used[1]
    <3>1. used[i + 1] = used[1] => i + 1 = 1
      BY <1>5, <1>8, <2>1, Zenon DEF Apart
    <3> QED BY <2>1, <3>1
  <2>4. c.page[used[i + 1]] = b.page[used[i + 1]]
    BY <1>4, <1>6, <2>1, <2>3 DEF GivesBack
  <2> QED BY <2>1, <2>2, <2>4
<1>14. ASSUME NEW i \in 1 .. u
       PROVE  c.page[less[i]].next = IF i < u THEN less[i + 1] ELSE 0
  <2>1. b.page[used[i + 1]].next = IF i + 1 < m THEN used[(i + 1) + 1] ELSE 0
    BY <1>7, <1>13 DEF Shared
  <2>2. i + 1 < m <=> i < u
    BY <1>11
  <2>3. i + 1 \in Nat /\ less[i + 1] = used[(i + 1) + 1]
    <3>1. PICK j \in Nat : j = i + 1
      BY <1>11
    <3>2. less[j] = used[j + 1]
      BY <1>10 DEF Shrunk
    <3> QED BY <3>1, <3>2
  <2> QED BY <1>13, <2>1, <2>2, <2>3
<1>15. ASSUME NEW i \in 1 .. l
       PROVE  c.page[more[i]].next = IF i < l THEN more[i + 1] ELSE 0
  <2>1. CASE i = 1
    <3>1. more[i] = b.read
      BY <1>4, <1>10, <2>1 DEF Shrunk
    <3>2. c.page[more[i]].next = b.free
      BY <1>6, <3>1 DEF GivesBack
    <3>3. b.free = IF k = 0 THEN 0 ELSE spare[1]
      BY <1>7 DEF Shared
    <3>4. k # 0 => more[1 + 1] = spare[1]
      BY <1>10 DEF Shrunk
    <3>5. i < l <=> k # 0
      BY <1>11, <2>1
    <3> QED BY <2>1, <3>2, <3>3, <3>4, <3>5
  <2>2. CASE i # 1
    <3>1. PICK j \in 1 .. k : i = j + 1
      <4>1. i - 1 \in 1 .. k /\ i = (i - 1) + 1
        BY <1>11, <2>2
      <4> QED BY <4>1
    <3>2. more[i] = spare[j]
      BY <1>10, <3>1 DEF Shrunk
    <3>3. spare[j] \in 1 .. N /\ spare[j] # used[1]
      BY <1>3, <1>5, <1>8, Zenon DEF Apart
    <3>4. c.page[spare[j]] = b.page[spare[j]]
      BY <1>4, <1>6, <3>3 DEF GivesBack
    <3>5. b.page[spare[j]].next = IF j < k THEN spare[j + 1] ELSE 0
      BY <1>7 DEF Shared
    <3>6. j < k => j + 1 \in 1 .. k /\ i + 1 = (j + 1) + 1
      BY <3>1
    <3>7. j < k => more[i + 1] = spare[j + 1]
      BY <1>10, <3>6 DEF Shrunk
    <3>8. j < k <=> i < l
      BY <1>11, <3>1
    <3> QED BY <3>2, <3>4, <3>5, <3>7, <3>8
  <2> QED BY <2>1, <2>2
<1>16. c.read = less[1] /\ c.write = less[u] /\ c.free = (IF l = 0 THEN 0 ELSE more[1]) /\ c \in Buffers
  <2>1. b.page[used[1]].next = IF 1 < m THEN used[1 + 1] ELSE 0
    BY <1>5, <1>7 DEF Shared
  <2>2. less[1] = used[1 + 1]
    BY <1>10 DEF Shrunk
  <2>3. u \in 1 .. u /\ u + 1 = m
    BY <1>11
  <2>4. less[u] = used[m]
    BY <1>13, <2>3
  <2>5. c.read = b.page[used[1]].next /\ c.write = used[m] /\ c.free = used[1] /\ c \in Buffers
    BY <1>4, <1>6 DEF GivesBack
  <2>6. more[1] = used[1] /\ l # 0
    BY <1>10, <1>11 DEF Shrunk
  <2> QED BY <1>9, <2>1, <2>2, <2>4, <2>5, <2>6
<1>17. Len(c.page) = u + l
  BY <1>4, <1>6, <1>11 DEF GivesBack
<1>18. Shared(c, less, u, more, l)
  BY <1>12, <1>14, <1>15, <1>16, <1>17 DEF Shared
<1>19. PICK up \in [Nat -> Nat] : \A i \in Nat : up[i] = lo[i + 1]
  <2>1. [i \in Nat |-> lo[i + 1]] \in [Nat -> Nat]
    OBVIOUS
  <2> QED BY <2>1
<1>20. ASSUME NEW i \in 1 .. u
       PROVE  /\ Bears(c.page[less[i]], up[i], up[i + 1])
              /\ i < u => c.page[less[i]].wr = PageSize
  <2>1. /\ Bears(b.page[used[i + 1]], lo[i + 1], lo[(i + 1) + 1])
        /\ i + 1 < m => b.page[used[i + 1]].wr = PageSize
    BY <1>7, <1>13 DEF Stored
  <2>2. i + 1 < m <=> i < u
    BY <1>11
  <2>3. up[i] = lo[i + 1] /\ up[i + 1] = lo[(i + 1) + 1]
    <3>1. i \in Nat /\ i + 1 \in Nat
      OBVIOUS
    <3> QED BY <1>19, <3>1
  <2> QED BY <1>13, <2>1, <2>2, <2>3
<1>21. Stored(c, less, u, up)
  BY <1>20 DEF Stored
<1>22. up[1] = from
  <2>1. PICK x \in Nat : x = lo[2]
    OBVIOUS
  <2>2. PICK p : p = b.page[b.read]
    OBVIOUS
  <2>3. PICK wr \in Nat, rd \in Nat : wr = p.wr /\ rd = p.rd
    BY <1>4, <1>5, <2>2, PageFacts
  <2>4. Bears(p, from, x)
    <3>1. Bears(b.page[used[1]], lo[1], lo[1 + 1])
      BY <1>5, <1>7 DEF Stored
    <3> QED BY <1>4, <1>7, <2>1, <2>2, <3>1
  <2>5. rd <= wr /\ x = from + (wr - rd)
    BY <2>3, <2>4 DEF Bears
  <2>6. rd >= wr
    BY <2>2, <2>3 DEF IsDone
  <2>7. x = from
    BY <2>5, <2>6
  <2>8. up[1] = lo[2]
    <3>1. up[1] = lo[1 + 1]
      BY <1>19
    <3> QED BY <3>1
  <2> QED BY <2>1, <2>7, <2>8
<1>23. up[u + 1] = to
  <2>1. u + 1 \in Nat /\ (u + 1) + 1 = m + 1
    BY <1>11
  <2> QED BY <1>7, <1>19, <2>1
<1>24. HeldAs(c, from, to, less, u, more, l, up)
  BY <1>16, <1>18, <1>21, <1>22, <1>23 DEF HeldAs
<1> QED BY <1>2, <1>6, <1>24 DEF HeldFull

LEMMA MinIs ==
  ASSUME NEW i \in Nat, NEW j \in Nat
  PROVE  Min({i, j}) \in Nat /\ Min({i, j}) <= i /\ Min({i, j}) <= j /\ Min({i, j}) \in {i, j}
<1>1. \E x \in {i, j} : \A y \in {i, j} : x <= y
  OBVIOUS
<1> QED BY <1>1 DEF Min

\* What holds of a buffer after any statement of write and read.
Sane(b) ==
  /\ b \in Buffers
  /\ b.write \in DOMAIN b.page
  /\ b.read \in DOMAIN b.page \cup {0} /\ b.free \in DOMAIN b.page \cup {0}
  /\ \A p \in DOMAIN b.page : b.page[p].next \in DOMAIN b.page \cup {0}

\* A reading of a sane buffer.
ReadingOf(r, n) ==
  /\ r = [b |-> r.b, n |-> n, out |-> r.out, end |-> r.end]
  /\ Sane(r.b) /\ r.out \in Seq(Nat) /\ Len(r.out) <= n

\* What a turn does to reading r: g bytes come from the page that is read of b, which
\* leaves c.
TurnTakes(r, b, n, g, c, o) ==
  /\ g \in Nat /\ b.read \in DOMAIN b.page
  /\ g = Min({b.page[b.read].wr - b.page[b.read].rd, n - Len(r.out)})
  /\ HasBytes(b, g) /\ c = Take(b, g) /\ Takes(b, c, g) /\ Sane(c)
  /\ o = r.out \o SubSeq(b.page[b.read].data, b.page[b.read].rd + 1, b.page[b.read].rd + g)
  /\ o \in Seq(Nat) /\ Len(o) <= n
  /\ IF IsDone(c)
     THEN /\ ReadPage(r) = [b |-> GiveBack(c), n |-> n, out |-> o, end |-> r.end]
          /\ GivesBack(c, GiveBack(c)) /\ Sane(GiveBack(c))
     ELSE ReadPage(r) = [b |-> c, n |-> n, out |-> o, end |-> c.page[c.read].rd >= c.page[c.read].wr]

LEMMA PieceIs ==
  ASSUME NEW data \in [1 .. PageSize -> Nat], NEW r \in Nat, NEW k \in Nat, r + k <= PageSize
  PROVE  /\ SubSeq(data, r + 1, r + k) \in Seq(Nat) /\ Len(SubSeq(data, r + 1, r + k)) = k
         /\ \A i \in 1 .. k : SubSeq(data, r + 1, r + k)[i] = data[r + i]
<1>1. data \in Seq(Nat) /\ Len(data) = PageSize
  BY PageAssumption
<1> QED BY <1>1

LEMMA JoinedIs ==
  ASSUME NEW s \in Seq(Nat), NEW t \in Seq(Nat), NEW k \in Nat, NEW l \in Nat, Len(s) = k, Len(t) = l
  PROVE  s \o t \in Seq(Nat) /\ Len(s \o t) = k + l
OBVIOUS

LEMMA TurnIs ==
  ASSUME NEW n \in Nat, NEW r, ReadingOf(r, n), r.b.read # 0
  PROVE  \E g, c, o : TurnTakes(r, r.b, n, g, c, o)
<1>1. PICK b, out, end : b = r.b /\ out = r.out /\ end = r.end
  OBVIOUS
<1>2. /\ r = [b |-> b, n |-> n, out |-> out, end |-> end]
      /\ Sane(b) /\ out \in Seq(Nat) /\ Len(out) <= n
  BY <1>1 DEF ReadingOf
<1>3. PICK N \in Nat : N = Len(b.page)
  BY <1>2 DEF Sane, Buffers
<1>4. b \in Buffers /\ DOMAIN b.page = 1 .. N /\ b.read \in 1 .. N
  BY <1>1, <1>2, <1>3, PageFacts DEF Sane
<1>5. PICK page : page = b.page[b.read]
  OBVIOUS
<1>6. PICK wr \in Nat, rd \in Nat : wr = page.wr /\ rd = page.rd
  BY <1>3, <1>4, <1>5, PageFacts
<1>7. rd <= wr /\ wr <= PageSize /\ page.data \in [1 .. PageSize -> Nat] /\ PageSize \in Nat
  BY <1>2, <1>3, <1>4, <1>5, <1>6, PageFacts, PageAssumption DEF Sane
<1>8. PICK k \in Nat : k = Len(out) /\ k <= n
  BY <1>2
<1>9. PICK g \in Nat : g = Min({wr - rd, n - k}) /\ g <= wr - rd /\ g <= n - k
  <2>1. wr - rd \in Nat /\ n - k \in Nat
    BY <1>7, <1>8
  <2> QED BY <2>1, MinIs
<1>10. PICK c, sub, o : /\ c = Take(b, g) /\ sub = SubSeq(page.data, rd + 1, rd + g)
                        /\ o = out \o sub
  OBVIOUS
<1>20. HasBytes(b, g)
  BY <1>5, <1>6, <1>9 DEF HasBytes
<1>11. Takes(b, c, g)
  BY <1>4, <1>10, <1>20, TakeIs
<1>12. sub \in Seq(Nat) /\ Len(sub) = g
  <2>1. rd + g <= PageSize
    BY <1>7, <1>9
  <2> QED BY <1>7, <1>10, <2>1, PieceIs
<1>13. o \in Seq(Nat) /\ Len(o) <= n
  <2>1. k + g <= n
    BY <1>8, <1>9
  <2> QED BY <1>2, <1>8, <1>10, <1>12, <2>1, JoinedIs
<1>14. PICK t : t = TakeBytes(r)
  OBVIOUS
<1>15. t = [b |-> c, n |-> n, out |-> o, end |-> end]
  <2>1. g = Min({r.b.page[r.b.read].wr - r.b.page[r.b.read].rd, r.n - Len(r.out)})
    BY <1>2, <1>5, <1>6, <1>8, <1>9
  <2>2. t = [r EXCEPT !.out = @ \o SubSeq(page.data, rd + 1, rd + g), !.b.page[r.b.read].rd = @ + g]
    BY <1>1, <1>5, <1>6, <1>14, <2>1 DEF TakeBytes
  <2> QED BY <1>2, <1>10, <2>2 DEF Take
<1>16. Len(c.page) = N /\ DOMAIN c.page = 1 .. N /\ c \in Buffers /\ c.read = b.read
  <2>1. Len(c.page) = N /\ c \in Buffers /\ c.read = b.read
    BY <1>3, <1>11 DEF Takes
  <2> QED BY <2>1, PageFacts
<1>17. \A p \in 1 .. N : c.page[p].next = b.page[p].next
  BY <1>4, <1>11 DEF Takes
<1>18. Sane(c)
  <2>1. /\ b.write \in 1 .. N /\ b.read \in 1 .. N \cup {0} /\ b.free \in 1 .. N \cup {0}
        /\ \A p \in 1 .. N : b.page[p].next \in 1 .. N \cup {0}
    BY <1>2, <1>4 DEF Sane
  <2>2. c.write = b.write /\ c.read = b.read /\ c.free = b.free
    BY <1>11 DEF Takes
  <2> QED BY <1>16, <1>17, <2>1, <2>2 DEF Sane
<1>21. CASE IsDone(c)
  <2>1. PICK d : d = GiveBack(c)
    OBVIOUS
  <2>2. ReadPage(r) = [t EXCEPT !.b = d]
    BY <1>14, <1>15, <1>21, <2>1 DEF ReadPage, IsDone, GiveBack
  <2>3. ReadPage(r) = [b |-> d, n |-> n, out |-> o, end |-> end]
    BY <1>15, <2>2
  <2>4. GivesBack(c, d)
    BY <1>4, <1>16, <2>1, GiveBackIs
  <2>5. Len(d.page) = N /\ d \in Buffers
    BY <1>16, <2>4 DEF GivesBack
  <2>6. DOMAIN d.page = 1 .. N
    BY <2>5, PageFacts
  <2>7. ASSUME NEW p \in 1 .. N PROVE d.page[p].next \in 1 .. N \cup {0}
    <3>1. c.page[p].next \in 1 .. N \cup {0} /\ c.free \in 1 .. N \cup {0}
      BY <1>16, <1>18 DEF Sane
    <3>2. CASE p = c.read
      BY <2>4, <3>1, <3>2 DEF GivesBack
    <3>3. CASE p # c.read
      BY <1>16, <2>4, <3>1, <3>3 DEF GivesBack
    <3> QED BY <3>2, <3>3
  <2>8. d.write \in 1 .. N /\ d.read \in 1 .. N \cup {0} /\ d.free \in 1 .. N \cup {0}
    BY <1>4, <1>16, <1>18, <2>4 DEF GivesBack, Sane
  <2>9. Sane(d)
    BY <2>5, <2>6, <2>7, <2>8 DEF Sane
  <2>10. TurnTakes(r, b, n, g, c, o)
    BY <1>1, <1>4, <1>5, <1>6, <1>8, <1>9, <1>10, <1>11, <1>13, <1>18, <1>20, <1>21, <2>1, <2>3, <2>4, <2>9
       DEF TurnTakes
  <2> QED BY <1>1, <2>10
<1>22. CASE ~IsDone(c)
  <2>1. ReadPage(r) = [t EXCEPT !.end = c.page[c.read].rd >= c.page[c.read].wr]
    BY <1>14, <1>15, <1>22 DEF ReadPage, IsDone
  <2>2. ReadPage(r) = [b |-> c, n |-> n, out |-> o, end |-> c.page[c.read].rd >= c.page[c.read].wr]
    BY <1>15, <2>1
  <2>3. TurnTakes(r, b, n, g, c, o)
    BY <1>1, <1>4, <1>5, <1>6, <1>8, <1>9, <1>10, <1>11, <1>13, <1>18, <1>20, <1>22, <2>2
       DEF TurnTakes
  <2> QED BY <1>1, <2>3
<1> QED BY <1>21, <1>22

\* The readings after each of the turns.
Turns(turn, b, n) ==
  turn = [k \in 0 .. n + 1 |->
            IF k = 0 THEN [b |-> b, n |-> n, out |-> <<>>, end |-> FALSE]
            ELSE CHOOSE s \in {Turn(r) : r \in {turn[k - 1]}} : TRUE]

LEMMA TurnsExist ==
  ASSUME NEW b, NEW n \in Nat PROVE \E turn : Turns(turn, b, n)
<1> DEFINE Upto(turn, d) == \A k \in 0 .. d :
                              turn[k] = IF k = 0 THEN [b |-> b, n |-> n, out |-> <<>>, end |-> FALSE]
                                        ELSE Turn(turn[k - 1])
           S == {d \in 0 .. n + 1 : \E turn : turn = [k \in 0 .. d |-> turn[k]] /\ Upto(turn, d)}
<1>1. 0 \in S
  <2>1. PICK turn : turn = [k \in 0 .. 0 |-> [b |-> b, n |-> n, out |-> <<>>, end |-> FALSE]]
    OBVIOUS
  <2>2. \A k \in 0 .. 0 : k = 0
    OBVIOUS
  <2>3. turn = [k \in 0 .. 0 |-> turn[k]] /\ Upto(turn, 0)
    BY <2>1, <2>2
  <2>4. 0 \in 0 .. n + 1
    OBVIOUS
  <2> QED BY <2>3, <2>4
<1>2. ASSUME NEW d \in 0 .. (n + 1) - 1, d \in S PROVE d + 1 \in S
  <2>1. PICK turn : Upto(turn, d)
    BY <1>2
  <2>2. PICK e \in 1 .. n + 1 : e = d + 1
    OBVIOUS
  <2>3. PICK more : more = [k \in 0 .. e |-> IF k = e THEN Turn(turn[d]) ELSE turn[k]]
    OBVIOUS
  <2>4. \A k \in 0 .. d : more[k] = turn[k]
    BY <2>2, <2>3
  <2>5. more[e] = Turn(turn[d])
    BY <2>2, <2>3
  <2>6. ASSUME NEW k \in 0 .. e
        PROVE  more[k] = IF k = 0 THEN [b |-> b, n |-> n, out |-> <<>>, end |-> FALSE]
                         ELSE Turn(more[k - 1])
    <3>1. CASE k = e
      <4>1. k - 1 = d /\ k # 0 /\ d \in 0 .. d
        BY <2>2, <3>1
      <4> QED BY <2>4, <2>5, <3>1, <4>1
    <3>2. CASE k # e
      <4>1. k \in 0 .. d /\ (k # 0 => k - 1 \in 0 .. d)
        BY <2>2, <3>2
      <4>2. turn[k] = IF k = 0 THEN [b |-> b, n |-> n, out |-> <<>>, end |-> FALSE]
                      ELSE Turn(turn[k - 1])
        BY <2>1, <4>1
      <4> QED BY <2>4, <4>1, <4>2
    <3> QED BY <3>1, <3>2
  <2>7. more = [k \in 0 .. e |-> more[k]]
    BY <2>3
  <2>8. e \in 0 .. n + 1
    OBVIOUS
  <2>9. Upto(more, e)
    BY <2>6
  <2> HIDE DEF Upto
  <2> QED BY <2>2, <2>7, <2>8, <2>9
<1>3. n + 1 \in S
  <2>1. n + 1 \in Nat /\ n + 1 \in 0 .. n + 1
    OBVIOUS
  <2> HIDE DEF S
  <2>2. \A d \in 0 .. n + 1 : d \in S
    BY <1>1, <1>2, <2>1, InductionUpTo
  <2> QED BY <2>1, <2>2
<1>4. PICK turn : turn = [k \in 0 .. n + 1 |-> turn[k]] /\ Upto(turn, n + 1)
  BY <1>3
<1>5. \A r : (CHOOSE s \in {Turn(q) : q \in {r}} : TRUE) = Turn(r)
  OBVIOUS
<1>6. turn = [k \in 0 .. n + 1 |->
                IF k = 0 THEN [b |-> b, n |-> n, out |-> <<>>, end |-> FALSE]
                ELSE CHOOSE s \in {Turn(r) : r \in {turn[k - 1]}} : TRUE]
  BY <1>4, <1>5
<1> QED BY <1>6 DEF Turns

\* A turn leaves a sane reading, and a page that has been read to its end as it is.
LEMMA TurnSane ==
  ASSUME NEW n \in Nat, NEW r, ReadingOf(r, n)
  PROVE  /\ ReadingOf(Turn(r), n)
         /\ \A w \in DOMAIN r.b.page : r.b.page[w].rd = r.b.page[w].wr =>
              /\ w \in DOMAIN Turn(r).b.page
              /\ Turn(r).b.page[w].wr = r.b.page[w].wr
              /\ Turn(r).b.page[w].rd = r.b.page[w].wr
<1>1. CASE Turn(r) = r
  BY <1>1
<1>2. CASE r.b.read # 0 /\ Turn(r) = ReadPage(r)
  <2>1. PICK g, c, o : TurnTakes(r, r.b, n, g, c, o)
    BY <1>2, TurnIs
  <2>2. PICK b, out, end : b = r.b /\ out = r.out /\ end = r.end
    OBVIOUS
  <2>3. PICK u : u = Turn(r)
    OBVIOUS
  <2>4. PICK N \in Nat : N = Len(b.page)
    BY <2>2 DEF ReadingOf, Sane, Buffers
  <2>5. b \in Buffers /\ Sane(b) /\ DOMAIN b.page = 1 .. N /\ b.read \in 1 .. N
    <3>1. b \in Buffers /\ Sane(b)
      BY <2>2 DEF ReadingOf, Sane
    <3>2. DOMAIN b.page = 1 .. N
      BY <2>4, <3>1, PageFacts
    <3> QED BY <2>1, <2>2, <3>1, <3>2 DEF TurnTakes
  <2>6. /\ c \in Buffers /\ Len(c.page) = N /\ c.read = b.read /\ Takes(b, c, g) /\ Sane(c)
        /\ g \in Nat /\ HasBytes(b, g) /\ o \in Seq(Nat) /\ Len(o) <= n
    BY <2>1, <2>2, <2>4 DEF TurnTakes, Takes
  <2>7. DOMAIN c.page = 1 .. N
    BY <2>4, <2>6, PageFacts
  <2>8. ASSUME NEW w \in 1 .. N, b.page[w].rd = b.page[w].wr
        PROVE  c.page[w].wr = b.page[w].wr /\ c.page[w].rd = b.page[w].wr
    <3>1. CASE w = b.read
      <4>1. PICK x \in Nat : x = b.page[w].wr /\ x = b.page[w].rd
        BY <2>4, <2>5, <2>8, PageFacts
      <4>2. g = 0
        <5>1. g <= x - x
          BY <2>6, <3>1, <4>1 DEF HasBytes
        <5> QED BY <2>6, <5>1
      <4>3. c.page[w].wr = x /\ c.page[w].rd = x + g
        BY <2>6, <3>1, <4>1 DEF Takes
      <4> QED BY <4>1, <4>2, <4>3
    <3>2. CASE w # b.read
      BY <2>5, <2>6, <2>8, <3>2 DEF Takes
    <3> QED BY <3>1, <3>2
  <2>9. CASE IsDone(c)
    <3>1. PICK d : d = GiveBack(c)
      OBVIOUS
    <3>2. u = [b |-> d, n |-> n, out |-> o, end |-> end] /\ GivesBack(c, d) /\ Sane(d)
      BY <1>2, <2>1, <2>2, <2>3, <2>9, <3>1 DEF TurnTakes
    <3>3. ReadingOf(u, n)
      BY <2>6, <3>2 DEF ReadingOf
    <3>4. d \in Buffers /\ Len(d.page) = N
      BY <2>6, <3>2 DEF GivesBack
    <3>5. DOMAIN d.page = 1 .. N
      BY <2>4, <3>4, PageFacts
    <3>6. \A w \in 1 .. N : d.page[w].wr = c.page[w].wr /\ d.page[w].rd = c.page[w].rd
      BY <2>6, <2>7, <3>2 DEF GivesBack
    <3>7. u.b = d
      BY <3>2
    <3> QED BY <2>2, <2>3, <2>5, <2>8, <3>3, <3>5, <3>6, <3>7
  <2>10. CASE ~IsDone(c)
    <3>1. u = [b |-> c, n |-> n, out |-> o, end |-> c.page[c.read].rd >= c.page[c.read].wr]
      BY <1>2, <2>1, <2>2, <2>3, <2>10 DEF TurnTakes
    <3>2. ReadingOf(u, n)
      BY <2>6, <3>1 DEF ReadingOf
    <3>3. u.b = c
      BY <3>1
    <3> QED BY <2>2, <2>3, <2>5, <2>7, <2>8, <3>2, <3>3
  <2> QED BY <2>9, <2>10
<1>3. Turn(r) = r \/ (r.b.read # 0 /\ Turn(r) = ReadPage(r))
  BY DEF Turn
<1> QED BY <1>1, <1>2, <1>3

LEMMA HeldSane ==
  ASSUME NEW b, NEW from \in Nat, NEW to \in Nat, HeldFull(b, from, to)
  PROVE  Sane(b) /\ b.read \in DOMAIN b.page
<1>1. PICK used \in [Nat -> Nat], spare \in [Nat -> Nat], lo \in [Nat -> Nat],
           m \in Nat \ {0}, k \in Nat : HeldAs(b, from, to, used, m, spare, k, lo)
  BY DEF HeldFull
<1>2. PICK N \in Nat : N = m + k
  OBVIOUS
<1>3. /\ b \in Buffers /\ Len(b.page) = N /\ Apart(used, m, spare, k) /\ Stored(b, used, m, lo)
      /\ b.read = used[1] /\ b.write = used[m] /\ b.free = IF k = 0 THEN 0 ELSE spare[1]
      /\ \A i \in 1 .. m : b.page[used[i]].next = IF i < m THEN used[i + 1] ELSE 0
      /\ \A i \in 1 .. k : b.page[spare[i]].next = IF i < k THEN spare[i + 1] ELSE 0
  BY <1>1, <1>2 DEF HeldAs, Shared
<1>4. /\ \A i \in 1 .. m : used[i] \in 1 .. N
      /\ \A i \in 1 .. k : spare[i] \in 1 .. N
      /\ \A p \in 1 .. N : (\E i \in 1 .. m : used[i] = p) \/ (\E j \in 1 .. k : spare[j] = p)
  BY <1>2, <1>3, Zenon DEF Apart
<1>5. 1 \in 1 .. m /\ m \in 1 .. m /\ (k # 0 => 1 \in 1 .. k)
  OBVIOUS
<1>6. DOMAIN b.page = 1 .. N
  BY <1>3, PageFacts
<1>7. b.write \in 1 .. N /\ b.read \in 1 .. N /\ b.free \in 1 .. N \cup {0}
  BY <1>3, <1>4, <1>5
<1>8. ASSUME NEW p \in 1 .. N PROVE b.page[p].next \in 1 .. N \cup {0}
  <2>1. CASE \E i \in 1 .. m : used[i] = p
    <3>1. PICK i \in 1 .. m : used[i] = p
      BY <2>1
    <3>2. i < m => i + 1 \in 1 .. m
      OBVIOUS
    <3> QED BY <1>3, <1>4, <3>1, <3>2
  <2>2. CASE \E i \in 1 .. k : spare[i] = p
    <3>1. PICK i \in 1 .. k : spare[i] = p
      BY <2>2
    <3>2. i < k => i + 1 \in 1 .. k
      OBVIOUS
    <3> QED BY <1>3, <1>4, <3>1, <3>2
  <2> QED BY <1>4, <2>1, <2>2
<1> QED BY <1>3, <1>6, <1>7, <1>8 DEF Sane

-----------------------------------------------------------------------------
(* read, while write is on its way: b is the buffer as it is, s as write   *)
(* will leave it.  They differ in page t.w that is written, of which they  *)
(* share the first t.top bytes, and in the page where write goes on.       *)

Twin(b, s, t) ==
  /\ b \in Buffers /\ s \in Buffers /\ Len(s.page) = Len(b.page)
  /\ s.read = b.read /\ s.free = b.free /\ b.write = t.w /\ s.write = t.on
  /\ t.w \in DOMAIN b.page
  /\ \A p \in DOMAIN b.page : p # t.w => s.page[p] = b.page[p]
  /\ s.page[t.w].rd = b.page[t.w].rd
  /\ b.page[t.w].wr = t.wr /\ s.page[t.w].wr = t.wr
  /\ b.page[t.w].next = t.next /\ s.page[t.w].next = t.then
  /\ b.page[t.w].data = t.data /\ s.page[t.w].data = t.full
  /\ t.on # t.w => s.page[t.on].wr < PageSize

Agree(data, full, top) == \A j \in 1 .. top : data[j] = full[j]

Shares(t) ==
  /\ t.wr \in Nat /\ t.top \in Nat /\ t.top <= t.wr /\ t.wr <= t.top + 1
  /\ Agree(t.data, t.full, t.top)

\* All of the page has been read though not all of it is there yet, or though write is on it.
Lost(b, t) ==
  /\ t.w \in DOMAIN b.page /\ b.page[t.w].wr = t.wr /\ b.page[t.w].rd = t.wr
  /\ t.top < t.wr \/ t.wr >= PageSize

LEMMA TwinTakes ==
  ASSUME NEW b, NEW s, NEW t, Twin(b, s, t), NEW g, NEW c, NEW d,
         Takes(b, c, g), Takes(s, d, g), b.read \in DOMAIN b.page, s.write \in DOMAIN b.page
  PROVE  Twin(c, d, t)
<1>1. PICK N \in Nat : N = Len(b.page)
  BY DEF Twin, Buffers
<1>2. /\ Len(s.page) = N /\ Len(c.page) = N /\ Len(d.page) = N
      /\ b \in Buffers /\ s \in Buffers /\ c \in Buffers /\ d \in Buffers
  BY <1>1 DEF Twin, Takes
<1>3. DOMAIN b.page = 1 .. N /\ DOMAIN s.page = 1 .. N /\ DOMAIN c.page = 1 .. N /\ DOMAIN d.page = 1 .. N
  BY <1>1, <1>2, PageFacts
<1>4. PICK q \in 1 .. N : q = b.read /\ q = s.read
  BY <1>3 DEF Twin
<1>5. /\ \A p \in 1 .. N : p # q => c.page[p] = b.page[p] /\ d.page[p] = s.page[p]
      /\ c.page[q].rd = b.page[q].rd + g /\ d.page[q].rd = s.page[q].rd + g
      /\ c.page[q].wr = b.page[q].wr /\ d.page[q].wr = s.page[q].wr
      /\ c.page[q].next = b.page[q].next /\ d.page[q].next = s.page[q].next
      /\ c.page[q].data = b.page[q].data /\ d.page[q].data = s.page[q].data
  BY <1>3, <1>4 DEF Takes
<1>6. t.w \in 1 .. N /\ t.on \in 1 .. N
  BY <1>3 DEF Twin
<1>7. ASSUME NEW p \in 1 .. N, p # t.w PROVE d.page[p] = c.page[p]
  <2>1. s.page[p] = b.page[p]
    BY <1>3, <1>7 DEF Twin
  <2>2. CASE p = q
    <3>1. c.page[p] \in Pages /\ d.page[p] \in Pages
      BY <1>1, <1>2, PageFacts
    <3> QED BY <1>5, <2>1, <2>2, <3>1, SamePage
  <2> QED BY <1>5, <2>1, <2>2
<1>8. d.page[t.w].rd = c.page[t.w].rd
  <2>1. s.page[t.w].rd = b.page[t.w].rd
    BY DEF Twin
  <2> QED BY <1>5, <1>6, <2>1
<1>9. /\ c.page[t.w].wr = t.wr /\ d.page[t.w].wr = t.wr
      /\ c.page[t.w].next = t.next /\ d.page[t.w].next = t.then
      /\ c.page[t.w].data = t.data /\ d.page[t.w].data = t.full
  BY <1>5, <1>6 DEF Twin
<1>10. t.on # t.w => d.page[t.on].wr < PageSize
  BY <1>5, <1>6 DEF Twin
<1>11. d.read = c.read /\ d.free = c.free /\ c.write = t.w /\ d.write = t.on
  BY DEF Twin, Takes
<1> QED BY <1>2, <1>3, <1>6, <1>7, <1>8, <1>9, <1>10, <1>11 DEF Twin

LEMMA TwinGives ==
  ASSUME NEW b, NEW s, NEW t, Twin(b, s, t), NEW c, NEW d,
         GivesBack(b, c), GivesBack(s, d), b.read \in DOMAIN b.page, s.write \in DOMAIN b.page,
         b.read # t.w
  PROVE  Twin(c, d, t)
<1>1. PICK N \in Nat : N = Len(b.page)
  BY DEF Twin, Buffers
<1>2. /\ Len(s.page) = N /\ Len(c.page) = N /\ Len(d.page) = N
      /\ b \in Buffers /\ s \in Buffers /\ c \in Buffers /\ d \in Buffers
  BY <1>1 DEF Twin, GivesBack
<1>3. DOMAIN b.page = 1 .. N /\ DOMAIN s.page = 1 .. N /\ DOMAIN c.page = 1 .. N /\ DOMAIN d.page = 1 .. N
  BY <1>1, <1>2, PageFacts
<1>4. PICK q \in 1 .. N : q = b.read /\ q = s.read /\ q # t.w
  BY <1>3 DEF Twin
<1>5. s.page[q] = b.page[q] /\ s.free = b.free /\ t.w \in 1 .. N /\ t.on \in 1 .. N
  BY <1>3, <1>4 DEF Twin
<1>6. /\ \A p \in 1 .. N : p # q => c.page[p] = b.page[p] /\ d.page[p] = s.page[p]
      /\ c.page[q].rd = b.page[q].rd /\ d.page[q].rd = s.page[q].rd
      /\ c.page[q].wr = b.page[q].wr /\ d.page[q].wr = s.page[q].wr
      /\ c.page[q].next = b.free /\ d.page[q].next = s.free
      /\ c.page[q].data = b.page[q].data /\ d.page[q].data = s.page[q].data
  BY <1>3, <1>4 DEF GivesBack
<1>7. ASSUME NEW p \in 1 .. N, p # t.w PROVE d.page[p] = c.page[p]
  <2>1. s.page[p] = b.page[p]
    BY <1>3, <1>7 DEF Twin
  <2>2. CASE p = q
    <3>1. c.page[p] \in Pages /\ d.page[p] \in Pages
      BY <1>1, <1>2, PageFacts
    <3> QED BY <1>5, <1>6, <2>2, <3>1, SamePage
  <2> QED BY <1>6, <2>1, <2>2
<1>8. c.page[t.w] = b.page[t.w] /\ d.page[t.w] = s.page[t.w]
  BY <1>4, <1>5, <1>6
<1>9. /\ d.page[t.w].rd = c.page[t.w].rd
      /\ c.page[t.w].wr = t.wr /\ d.page[t.w].wr = t.wr
      /\ c.page[t.w].next = t.next /\ d.page[t.w].next = t.then
      /\ c.page[t.w].data = t.data /\ d.page[t.w].data = t.full
  BY <1>8 DEF Twin
<1>10. t.on # t.w => d.page[t.on].wr < PageSize
  BY <1>5, <1>6 DEF Twin
<1>11. d.read = c.read /\ d.free = c.free /\ c.write = t.w /\ d.write = t.on
  BY <1>4, <1>5 DEF Twin, GivesBack
<1> QED BY <1>2, <1>3, <1>5, <1>7, <1>9, <1>10, <1>11 DEF Twin

\* k bytes behind the first r that two pages share.
Common(data, full, r, k, top) ==
  /\ data \in [1 .. PageSize -> Nat] /\ full \in [1 .. PageSize -> Nat]
  /\ r \in Nat /\ k \in Nat /\ top \in Nat
  /\ r + k <= top /\ top <= PageSize /\ Agree(data, full, top)

LEMMA PieceSame ==
  ASSUME NEW data, NEW full, NEW r, NEW k, NEW top, Common(data, full, r, k, top)
  PROVE  Piece(data, r, k) = Piece(full, r, k)
<1>9. /\ data \in [1 .. PageSize -> Nat] /\ full \in [1 .. PageSize -> Nat]
      /\ r \in Nat /\ k \in Nat /\ top \in Nat /\ r + k <= top /\ top <= PageSize
      /\ Agree(data, full, top)
  BY DEF Common
<1>0. r + k <= PageSize
  BY <1>9, PageAssumption
<1>1. PICK p \in Seq(Nat) : p = SubSeq(data, r + 1, r + k) /\ Len(p) = k
  BY <1>0, <1>9, PieceIs
<1>2. PICK q \in Seq(Nat) : q = SubSeq(full, r + 1, r + k) /\ Len(q) = k
  BY <1>0, <1>9, PieceIs
<1>3. \A i \in 1 .. k : p[i] = data[r + i] /\ q[i] = full[r + i] /\ r + i \in 1 .. top
  <2>1. \A i \in 1 .. k : p[i] = data[r + i] /\ q[i] = full[r + i]
    BY <1>0, <1>1, <1>2, <1>9, PieceIs
  <2> QED BY <1>9, <2>1
<1>4. \A i \in 1 .. k : p[i] = q[i]
  BY <1>3, <1>9 DEF Agree
<1>5. Len(p) = k /\ Len(q) = k
  BY <1>1, <1>2
<1>6. p = q
  BY <1>4, <1>5
<1> QED BY <1>1, <1>2, <1>6, Zenon DEF Piece

\* Reading r, from the byte after `from`, of a buffer whose twin holds the bytes up to `to`,
\* or of one that it has read too far.
ReadSo(r, n, from, to, t) ==
  /\ ReadingOf(r, n)
  /\ \/ Lost(r.b, t)
     \/ \E x \in Nat, s \in Buffers :
          /\ from <= x /\ r.out = Following(from, x - from)
          /\ Twin(r.b, s, t) /\ HeldFull(s, x, to)

LEMMA TurnTwin ==
  ASSUME NEW n \in Nat, NEW from \in Nat, NEW to \in Nat, NEW t, Shares(t), NEW r,
         ReadSo(r, n, from, to, t)
  PROVE  ReadSo(Turn(r), n, from, to, t)
<1>1. ReadingOf(r, n) /\ ReadingOf(Turn(r), n)
  BY TurnSane DEF ReadSo
<1>2. CASE Lost(r.b, t)
  BY <1>1, <1>2, TurnSane DEF Lost, ReadSo
<1>3. CASE Turn(r) = r
  BY <1>3
<1>4. CASE ~Lost(r.b, t) /\ r.b.read # 0 /\ Turn(r) = ReadPage(r)
  <2>1. PICK x \in Nat, s \in Buffers : /\ from <= x /\ r.out = Following(from, x - from)
                                        /\ Twin(r.b, s, t) /\ HeldFull(s, x, to)
    BY <1>4 DEF ReadSo
  <2>17. PICK g \in Nat : \E c, o : TurnTakes(r, r.b, n, g, c, o)
    BY <1>1, <1>4, TurnIs DEF TurnTakes
  <2>2. PICK c, o : TurnTakes(r, r.b, n, g, c, o)
    BY <2>17
  <2>3. PICK b, u : b = r.b /\ u = Turn(r)
    OBVIOUS
  <2>4. PICK N \in Nat : N = Len(b.page)
    <3>1. b \in Buffers
      BY <1>1, <2>3 DEF ReadingOf, Sane
    <3> QED BY <3>1 DEF Buffers
  <2>5. b \in Buffers /\ s \in Buffers /\ DOMAIN b.page = 1 .. N /\ Len(s.page) = N /\ DOMAIN s.page = 1 .. N
    <3>1. b \in Buffers /\ s \in Buffers /\ Len(s.page) = N
      BY <2>1, <2>3, <2>4 DEF Twin
    <3> QED BY <2>4, <3>1, PageFacts
  <2>6. PICK q \in 1 .. N : q = b.read /\ q = s.read
    BY <2>1, <2>2, <2>3, <2>5 DEF TurnTakes, Twin
  <2>7. /\ g \in Nat /\ HasBytes(b, g) /\ Takes(b, c, g)
        /\ o = r.out \o SubSeq(b.page[q].data, b.page[q].rd + 1, b.page[q].rd + g)
    BY <2>2, <2>3, <2>6 DEF TurnTakes
  <2>8. PICK wr \in Nat, rd \in Nat : /\ wr = b.page[q].wr /\ rd = b.page[q].rd
                                      /\ wr = s.page[q].wr /\ rd = s.page[q].rd
                                      /\ rd <= wr /\ wr <= PageSize
    <3>1. s.page[q].wr = b.page[q].wr /\ s.page[q].rd = b.page[q].rd
      BY <2>1, <2>3, <2>5 DEF Twin
    <3>2. /\ b.page[q].wr \in Nat /\ b.page[q].rd \in Nat
          /\ b.page[q].rd <= b.page[q].wr /\ b.page[q].wr <= PageSize
      BY <2>4, <2>5, PageFacts
    <3> QED BY <3>1, <3>2
  <2>9. rd + g <= wr /\ HasBytes(s, g)
    <3>1. g <= wr - rd /\ g \in Nat
      BY <2>6, <2>7, <2>8 DEF HasBytes
    <3>2. HasBytes(s, g)
      BY <2>6, <2>8, <3>1 DEF HasBytes
    <3>3. rd + g <= wr
      BY <3>1
    <3> QED BY <3>2, <3>3
  <2>10. PICK d : /\ d = Take(s, g) /\ HeldFull(d, x + g, to) /\ Takes(s, d, g)
                  /\ SubSeq(s.page[q].data, rd + 1, rd + g) = Following(x, g)
    <3>1. g \in Nat /\ HasBytes(s, g) /\ HeldFull(s, x, to)
      BY <2>1, <2>7, <2>9
    <3>2. /\ HeldFull(Take(s, g), x + g, to) /\ Takes(s, Take(s, g), g)
          /\ SubSeq(s.page[s.read].data, s.page[s.read].rd + 1, s.page[s.read].rd + g) = Following(x, g)
      BY <3>1, TakeHeld
    <3> QED BY <2>6, <2>8, <3>2
  <2>11. s.write \in DOMAIN b.page
    BY <2>1, <2>5, HeldSane DEF Sane
  <2>12. Twin(c, d, t)
    BY <2>1, <2>3, <2>5, <2>6, <2>7, <2>10, <2>11, TwinTakes
  <2>13. /\ c \in Buffers /\ c.read = q /\ c.page[q].rd = rd + g /\ c.page[q].wr = wr
         /\ d \in Buffers /\ d.read = q /\ DOMAIN c.page = 1 .. N /\ d.page[q].wr = wr /\ d.page[q].rd = rd + g
    <3>1. c \in Buffers /\ Len(c.page) = N
      BY <2>4, <2>7 DEF Takes
    <3>2. DOMAIN c.page = 1 .. N
      BY <2>4, <3>1, PageFacts
    <3> QED BY <2>6, <2>7, <2>8, <2>10, <3>1, <3>2 DEF Takes
  <2>14. /\ IsDone(c) => u.b = GiveBack(c) /\ u.out = o /\ GivesBack(c, GiveBack(c))
         /\ ~IsDone(c) => u.b = c /\ u.out = o
    <3>1. CASE IsDone(c)
      <4>1. u = [b |-> GiveBack(c), n |-> n, out |-> o, end |-> r.end] /\ GivesBack(c, GiveBack(c))
        BY <1>4, <2>2, <2>3, <3>1 DEF TurnTakes
      <4> QED BY <3>1, <4>1
    <3>2. CASE ~IsDone(c)
      <4>1. u = [b |-> c, n |-> n, out |-> o, end |-> c.page[c.read].rd >= c.page[c.read].wr]
        BY <1>4, <2>2, <2>3, <3>2 DEF TurnTakes
      <4> QED BY <3>2, <4>1
    <3> QED BY <3>1, <3>2
  <2>15. CASE q = t.w /\ (t.top < rd + g \/ IsDone(c))
    <3>1. PICK top \in Nat : top = t.top /\ top <= wr /\ wr <= top + 1 /\ t.wr = wr
      BY <2>1, <2>3, <2>8, <2>15 DEF Shares, Twin
    <3>2. rd + g = wr /\ (top < wr \/ wr >= PageSize)
      <4>1. CASE top < rd + g
        BY <2>9, <3>1, <4>1
      <4>2. CASE IsDone(c)
        <5>1. rd + g >= wr /\ wr >= PageSize
          BY <2>13, <4>2 DEF IsDone
        <5> QED BY <2>7, <2>9, <5>1
      <4> QED BY <2>15, <3>1, <4>1, <4>2
    <3>3. Lost(c, t)
      BY <2>13, <2>15, <3>1, <3>2 DEF Lost
    <3>4. ASSUME GivesBack(c, GiveBack(c)) PROVE Lost(GiveBack(c), t)
      <4>1. PICK e : e = GiveBack(c)
        OBVIOUS
      <4>2. e \in Buffers /\ Len(e.page) = N /\ e.page[q].wr = wr /\ e.page[q].rd = rd + g
        <5>1. Len(c.page) = N
          BY <2>4, <2>7 DEF Takes
        <5> QED BY <2>13, <3>4, <4>1, <5>1 DEF GivesBack
      <4>3. DOMAIN e.page = 1 .. N
        BY <4>2, PageFacts
      <4> QED BY <2>15, <3>1, <3>2, <4>1, <4>2, <4>3 DEF Lost
    <3> QED BY <1>1, <2>3, <2>14, <3>3, <3>4 DEF ReadSo
  <2>16. CASE ~(q = t.w /\ (t.top < rd + g \/ IsDone(c)))
    <3>1. SubSeq(b.page[q].data, rd + 1, rd + g) = Following(x, g)
      <4>1. CASE q = t.w
        <5>1. PICK top \in Nat : top = t.top /\ top <= PageSize /\ rd + g <= top
          <6>1. t.top \in Nat /\ t.top <= wr
            BY <2>1, <2>3, <2>8, <4>1 DEF Shares, Twin
          <6> QED BY <2>8, <2>16, <4>1, <6>1, PageAssumption
        <5>2. b.page[q].data \in [1 .. PageSize -> Nat] /\ s.page[q].data \in [1 .. PageSize -> Nat]
          BY <2>4, <2>5, PageFacts
        <5>3. Agree(b.page[q].data, s.page[q].data, top)
          BY <2>1, <2>3, <4>1, <5>1 DEF Shares, Twin
        <5>4. Piece(b.page[q].data, rd, g) = Piece(s.page[q].data, rd, g)
          <6>1. Common(b.page[q].data, s.page[q].data, rd, g, top)
            BY <5>1, <5>2, <5>3 DEF Common
          <6> QED BY <6>1, PieceSame
        <5> QED BY <2>10, <5>4, Zenon DEF Piece
      <4>2. CASE q # t.w
        BY <2>1, <2>3, <2>5, <2>10, <4>2 DEF Twin
      <4> QED BY <4>1, <4>2
    <3>2. PICK y \in Nat : y = x + g /\ from <= y /\ o = Following(from, y - from)
      <4>1. PICK k \in Nat : k = x - from /\ from + k = x
        BY <2>1
      <4>2. Following(from, k) \o Following(from + k, g) = Following(from, k + g)
        BY <2>7, FollowingJoin
      <4>3. o = Following(from, k + g)
        BY <2>1, <2>7, <2>8, <3>1, <4>1, <4>2
      <4>4. (x + g) - from = k + g /\ from <= x + g /\ x + g \in Nat
        BY <4>1
      <4> QED BY <4>3, <4>4
    <3>3. CASE IsDone(c)
      <4>1. q # t.w /\ IsDone(d)
        BY <2>13, <2>16, <3>3 DEF IsDone
      <4>2. d.read # d.write
        <5>1. wr >= PageSize
          BY <2>13, <3>3 DEF IsDone
        <5>2. ASSUME d.write = q PROVE FALSE
          <6>1. d.write = t.on /\ d.page[q].wr < PageSize
            BY <2>12, <4>1, <5>2 DEF Twin
          <6> QED BY <2>13, <5>1, <6>1, PageAssumption
        <5> QED BY <2>13, <5>2
      <4>3. HeldFull(GiveBack(d), y, to) /\ GivesBack(d, GiveBack(d))
        BY <2>10, <3>2, <4>1, <4>2, GiveBackHeld
      <4>4. c.read \in DOMAIN c.page /\ d.write \in DOMAIN c.page /\ c.read # t.w
        BY <2>5, <2>10, <2>11, <2>13, <4>1 DEF Takes
      <4>5. Twin(GiveBack(c), GiveBack(d), t)
        BY <2>12, <2>14, <3>3, <4>3, <4>4, TwinGives
      <4>6. GiveBack(d) \in Buffers
        BY <4>3 DEF GivesBack
      <4> QED BY <1>1, <2>3, <2>14, <3>2, <3>3, <4>3, <4>5, <4>6 DEF ReadSo
    <3>4. CASE ~IsDone(c)
      BY <1>1, <2>3, <2>10, <2>12, <2>13, <2>14, <3>2, <3>4 DEF ReadSo
    <3> QED BY <3>3, <3>4
  <2> QED BY <2>15, <2>16
<1>5. Turn(r) = r \/ (r.b.read # 0 /\ Turn(r) = ReadPage(r))
  BY DEF Turn
<1> QED BY <1>2, <1>3, <1>4, <1>5

\* read takes the oldest of what the twin holds, n bytes at most, or it reads too far.
LEMMA ReadTwin ==
  ASSUME NEW b, NEW s, NEW t, Twin(b, s, t), Shares(t), t.next \in DOMAIN b.page \cup {0},
         NEW from \in Nat, NEW to \in Nat, HeldFull(s, from, to), NEW n \in Nat
  PROVE  \/ Lost(Read(b, n).b, t)
         \/ \E k \in 0 .. n, d \in Buffers :
              /\ Read(b, n).out = Following(from, k)
              /\ Twin(Read(b, n).b, d, t) /\ HeldFull(d, from + k, to)
<1>1. Read(b, n) = (CHOOSE turn : Turns(turn, b, n))[n + 1]
  BY DEF Read, Turns
<1>2. PICK turn : Turns(turn, b, n) /\ Read(b, n) = turn[n + 1]
  BY <1>1, TurnsExist
<1>3. \A r : (CHOOSE q \in {Turn(p) : p \in {r}} : TRUE) = Turn(r)
  OBVIOUS
<1>4. \A k \in 0 .. n + 1 : turn[k] = IF k = 0 THEN [b |-> b, n |-> n, out |-> <<>>, end |-> FALSE]
                                     ELSE Turn(turn[k - 1])
  BY <1>2, <1>3 DEF Turns
<1>5. Sane(b)
  <2>1. PICK N \in Nat : N = Len(b.page)
    BY DEF Twin, Buffers
  <2>2. b \in Buffers /\ s \in Buffers /\ Len(s.page) = N
    BY <2>1 DEF Twin
  <2>3. DOMAIN b.page = 1 .. N /\ DOMAIN s.page = 1 .. N
    BY <2>1, <2>2, PageFacts
  <2>4. Sane(s)
    BY HeldSane
  <2>5. ASSUME NEW p \in 1 .. N PROVE b.page[p].next \in 1 .. N \cup {0}
    <3>1. CASE p = t.w
      BY <2>3, <3>1 DEF Twin
    <3>2. CASE p # t.w
      BY <2>3, <2>4, <3>2 DEF Twin, Sane
    <3> QED BY <3>1, <3>2
  <2>6. b.write \in 1 .. N /\ b.read \in 1 .. N \cup {0} /\ b.free \in 1 .. N \cup {0}
    BY <2>3, <2>4 DEF Twin, Sane
  <2> QED BY <2>2, <2>3, <2>5, <2>6 DEF Sane
<1> DEFINE S == {k \in 0 .. n + 1 : ReadSo(turn[k], n, from, to, t)}
<1>6. 0 \in S
  <2>1. 0 \in 0 .. n + 1
    OBVIOUS
  <2>2. PICK r : r = turn[0] /\ r = [b |-> b, n |-> n, out |-> <<>>, end |-> FALSE]
    BY <1>4, <2>1
  <2>3. <<>> = Following(from, 0) /\ from - from = 0
    BY FollowingFacts
  <2>4. ReadingOf(r, n)
    BY <1>5, <2>2 DEF ReadingOf
  <2>5. ReadSo(r, n, from, to, t)
    <3>1. s \in Buffers
      BY DEF Twin
    <3> QED BY <2>2, <2>3, <2>4, <3>1 DEF ReadSo
  <2> QED BY <2>1, <2>2, <2>5
<1>7. ASSUME NEW k \in 0 .. (n + 1) - 1, k \in S PROVE k + 1 \in S
  <2>1. ReadSo(turn[k], n, from, to, t)
    BY <1>7
  <2>2. ReadSo(Turn(turn[k]), n, from, to, t)
    BY <2>1, TurnTwin
  <2>3. k + 1 \in 0 .. n + 1 /\ k + 1 # 0 /\ (k + 1) - 1 = k
    OBVIOUS
  <2>4. turn[k + 1] = Turn(turn[k])
    BY <1>4, <2>3
  <2> QED BY <2>2, <2>3, <2>4
<1>8. ReadSo(turn[n + 1], n, from, to, t)
  <2>1. n + 1 \in Nat /\ n + 1 \in 0 .. n + 1
    OBVIOUS
  <2> HIDE DEF S
  <2>2. \A k \in 0 .. n + 1 : k \in S
    BY <1>6, <1>7, <2>1, InductionUpTo
  <2>3. n + 1 \in S
    BY <2>1, <2>2
  <2> QED BY <2>3 DEF S
<1>9. PICK r : r = Read(b, n) /\ ReadSo(r, n, from, to, t)
  BY <1>2, <1>8
<1>10. ASSUME ~Lost(r.b, t)
       PROVE  \E k \in 0 .. n, d \in Buffers : r.out = Following(from, k) /\ Twin(r.b, d, t) /\ HeldFull(d, from + k, to)
  <2>1. PICK x \in Nat, d \in Buffers : /\ from <= x /\ r.out = Following(from, x - from)
                                        /\ Twin(r.b, d, t) /\ HeldFull(d, x, to)
    BY <1>9, <1>10 DEF ReadSo
  <2>2. PICK k \in Nat : k = x - from /\ from + k = x
    BY <2>1
  <2>3. Len(r.out) <= n /\ Len(r.out) = k
    <3>1. Len(r.out) <= n
      BY <1>9 DEF ReadSo, ReadingOf
    <3>2. r.out = Following(from, k) /\ Len(Following(from, k)) = k
      <4>1. Len(Following(from, k)) = k
        BY FollowingFacts
      <4> QED BY <2>1, <2>2, <4>1
    <3> QED BY <3>1, <3>2
  <2>4. k \in 0 .. n
    BY <2>3
  <2> QED BY <2>1, <2>2, <2>4
<1> QED BY <1>9, <1>10

LEMMA TwinUnique ==
  ASSUME NEW b, NEW s, NEW d, NEW t, Twin(b, s, t), Twin(b, d, t)
  PROVE  s = d
<1>1. PICK N \in Nat : N = Len(b.page)
  BY DEF Twin, Buffers
<1>2. b \in Buffers /\ s \in Buffers /\ d \in Buffers /\ Len(s.page) = N /\ Len(d.page) = N
  BY <1>1 DEF Twin
<1>3. DOMAIN b.page = 1 .. N /\ DOMAIN s.page = 1 .. N /\ DOMAIN d.page = 1 .. N
  BY <1>1, <1>2, PageFacts
<1>4. ASSUME NEW p \in 1 .. N PROVE s.page[p] = d.page[p]
  <2>1. CASE p = t.w
    <3>1. s.page[p] \in Pages /\ d.page[p] \in Pages
      BY <1>2, PageFacts
    <3>2. /\ s.page[p].wr = d.page[p].wr /\ s.page[p].rd = d.page[p].rd
          /\ s.page[p].next = d.page[p].next /\ s.page[p].data = d.page[p].data
      BY <2>1 DEF Twin
    <3> QED BY <3>1, <3>2, SamePage
  <2>2. CASE p # t.w
    BY <1>3, <2>2 DEF Twin
  <2> QED BY <2>1, <2>2
<1>5. s.page = d.page
  <2>1. PICK x \in Seq(Pages), y \in Seq(Pages) : x = s.page /\ y = d.page
    BY <1>2 DEF Buffers
  <2>2. Len(x) = N /\ Len(y) = N /\ \A p \in 1 .. N : x[p] = y[p]
    BY <1>2, <1>4, <2>1
  <2> QED BY <2>1, <2>2
<1>6. s.read = d.read /\ s.write = d.write /\ s.free = d.free
  BY DEF Twin
<1> QED BY <1>2, <1>5, <1>6 DEF Buffers

\* Nobody is writing: the buffer is its own twin.
LEMMA SelfTwin ==
  ASSUME NEW b \in Buffers, NEW t, b.write = t.w, t.on = t.w, t.w \in DOMAIN b.page,
         b.page[t.w].wr = t.wr, b.page[t.w].next = t.next, t.then = t.next,
         b.page[t.w].data = t.data, t.full = t.data
  PROVE  Twin(b, b, t)
BY DEF Twin

\* A page of the writer that was read to its end while it was full; or the read went on.
ReadsOn(b, n, c, from, to) ==
  \/ /\ b.page[b.write].wr >= PageSize
     /\ c.page[b.write].wr = b.page[b.write].wr /\ c.page[b.write].rd = c.page[b.write].wr
  \/ /\ c.write = b.write /\ c.page[c.write].wr = b.page[b.write].wr
     /\ \E k \in 0 .. n : Read(b, n).out = Following(from, k) /\ HeldFull(c, from + k, to)

LEMMA ReadHeld ==
  ASSUME NEW b, NEW from \in Nat, NEW to \in Nat, HeldFull(b, from, to), NEW n \in Nat,
         NEW c, c = Read(b, n).b
  PROVE  ReadsOn(b, n, c, from, to)
<1>1. Sane(b)
  BY HeldSane
<1>2. PICK w, g : w = b.write /\ g = b.page[w] /\ w \in DOMAIN b.page
  BY <1>1 DEF Sane
<1>3. PICK t : t = [w |-> w, on |-> w, wr |-> g.wr, top |-> g.wr, next |-> g.next, then |-> g.next,
                    data |-> g.data, full |-> g.data]
  OBVIOUS
<1>4. b \in Buffers /\ t.next \in DOMAIN b.page \cup {0}
  BY <1>1, <1>2, <1>3 DEF Sane
<1>5. Twin(b, b, t)
  BY <1>2, <1>3, <1>4, SelfTwin
<1>6. Shares(t)
  <2>1. PICK N \in Nat : N = Len(b.page)
    BY <1>4 DEF Buffers
  <2>2. g.wr \in Nat
    BY <1>2, <1>4, <2>1, PageFacts
  <2> QED BY <1>3, <2>2 DEF Shares, Agree
<1>7. CASE Lost(c, t)
  <2>1. t.w = w /\ t.wr = g.wr /\ ~(t.top < t.wr)
    BY <1>3, <1>6 DEF Shares
  <2> QED BY <1>2, <1>7, <2>1 DEF Lost, ReadsOn
<1>8. CASE ~Lost(c, t)
  <2>1. PICK k \in 0 .. n, d \in Buffers : /\ Read(b, n).out = Following(from, k)
                                           /\ Twin(c, d, t) /\ HeldFull(d, from + k, to)
    BY <1>4, <1>5, <1>6, <1>8, ReadTwin
  <2>2. Twin(c, c, t)
    <3>1. /\ c \in Buffers /\ c.write = t.w /\ t.w \in DOMAIN c.page
          /\ c.page[t.w].wr = t.wr /\ c.page[t.w].next = t.next /\ c.page[t.w].data = t.data
      BY <2>1 DEF Twin
    <3>2. t.on = t.w /\ t.then = t.next /\ t.full = t.data
      BY <1>3
    <3> QED BY <3>1, <3>2, SelfTwin
  <2>3. c = d
    BY <2>1, <2>2, TwinUnique
  <2>4. c.write = w /\ c.page[w].wr = g.wr
    BY <1>3, <2>2 DEF Twin
  <2>5. c.write = b.write /\ c.page[c.write].wr = b.page[b.write].wr
    BY <1>2, <2>4
  <2>6. \E m \in 0 .. n : Read(b, n).out = Following(from, m) /\ HeldFull(c, from + m, to)
    BY <2>1, <2>3
  <2> QED BY <2>5, <2>6 DEF ReadsOn
<1> QED BY <1>7, <1>8

\* The byte that has been counted is not there yet.
LEMMA FillIs ==
  ASSUME NEW b \in Buffers, NEW x \in Nat, b.write \in DOMAIN b.page, b.page[b.write].wr # 0
  PROVE  /\ FillByte(b, x) \in Buffers
         /\ FillByte(b, x).read = b.read /\ FillByte(b, x).write = b.write
         /\ FillByte(b, x).free = b.free /\ Len(FillByte(b, x).page) = Len(b.page)
         /\ \A p \in DOMAIN b.page : p # b.write => FillByte(b, x).page[p] = b.page[p]
         /\ FillByte(b, x).page[b.write].wr = b.page[b.write].wr
         /\ FillByte(b, x).page[b.write].rd = b.page[b.write].rd
         /\ FillByte(b, x).page[b.write].next = b.page[b.write].next
         /\ FillByte(b, x).page[b.write].data
              = [b.page[b.write].data EXCEPT ![b.page[b.write].wr] = x]
<1>1. PICK pages \in Seq(Pages), w, r \in Nat, f \in Nat, N \in Nat :
        pages = b.page /\ w = b.write /\ r = b.read /\ f = b.free /\ N = Len(pages)
  <2>1. b.page \in Seq(Pages) /\ b.read \in Nat /\ b.free \in Nat
    BY DEF Buffers
  <2> QED BY <2>1
<1>2. b = [page |-> pages, write |-> w, read |-> r, free |-> f]
  BY <1>1 DEF Buffers
<1>3. DOMAIN pages = 1 .. N /\ w \in 1 .. N /\ pages[w] \in Pages
  BY <1>1
<1>4. PICK g \in Pages, wr \in Nat : g = pages[w] /\ wr = g.wr /\ wr \in 1 .. PageSize
  <2>1. PICK g \in Pages : g = pages[w]
    BY <1>3
  <2>2. PICK wr \in Nat : wr = g.wr /\ wr <= PageSize
    BY DEF Pages
  <2>3. wr \in 1 .. PageSize
    BY <1>1, <2>1, <2>2, PageAssumption
  <2> QED BY <2>1, <2>2, <2>3
<1>12. PICK full \in [1 .. PageSize -> Nat] : full = [g.data EXCEPT ![wr] = x]
  BY DEF Pages
<1>5. PICK h \in Pages : /\ h = [g EXCEPT !.data = full]
                         /\ h.wr = g.wr /\ h.rd = g.rd /\ h.next = g.next /\ h.data = full
  <2>1. full \in Data /\ wr \in Nat
    BY DEF Data
  <2> QED BY <2>1, PageWith
<1>6. PICK s : s = [pages EXCEPT ![w] = h]
  OBVIOUS
<1>7. s \in Seq(Pages) /\ Len(s) = N /\ s[w] = h /\ \A j \in 1 .. N : j # w => s[j] = pages[j]
  BY <1>1, <1>3, <1>6, Replaced
<1>8. PICK c : c = FillByte(b, x)
  OBVIOUS
<1>9. c = [page |-> s, write |-> w, read |-> r, free |-> f]
  <2>1. c = [b EXCEPT !.page = [b.page EXCEPT ![w] = [b.page[w] EXCEPT !.data = [b.page[w].data EXCEPT ![b.page[w].wr] = x]]]]
    BY <1>1, <1>8, Zenon DEF FillByte
  <2>2. [b.page EXCEPT ![w] = [b.page[w] EXCEPT !.data = [b.page[w].data EXCEPT ![b.page[w].wr] = x]]] = s
    BY <1>1, <1>4, <1>5, <1>6, <1>12, Zenon
  <2>3. c = [b EXCEPT !.page = s]
    BY <2>1, <2>2, Zenon
  <2> QED BY <1>2, <2>3
<1>10. c \in Buffers /\ c.page = s /\ c.write = w /\ c.read = r /\ c.free = f
  BY <1>1, <1>3, <1>7, <1>9 DEF Buffers
<1>11. c.page[w] = h /\ b.page[w] = g
  BY <1>1, <1>4, <1>7, <1>10
<1>13. \A p \in DOMAIN b.page : p # w => c.page[p] = b.page[p]
  BY <1>1, <1>3, <1>7, <1>10
<1>14. c.page[w].data = [b.page[w].data EXCEPT ![b.page[w].wr] = x]
  BY <1>4, <1>5, <1>11, <1>12, Zenon
<1>15. c.page[w].wr = b.page[w].wr /\ c.page[w].rd = b.page[w].rd /\ c.page[w].next = b.page[w].next
  BY <1>5, <1>11, Zenon
<1>16. Len(c.page) = Len(b.page)
  BY <1>1, <1>7, <1>10, Zenon
<1> QED BY <1>1, <1>8, <1>10, <1>13, <1>14, <1>15, <1>16, Zenon

\* The page behind the one that is written is linked, or about to be, and has room.
LEMMA LinkIs ==
  ASSUME NEW b \in Buffers, NEW h \in Nat, b.write \in DOMAIN b.page
  PROVE  /\ LinkPage(b, h) \in Buffers
         /\ LinkPage(b, h).read = b.read /\ LinkPage(b, h).write = b.write
         /\ LinkPage(b, h).free = b.free /\ Len(LinkPage(b, h).page) = Len(b.page)
         /\ \A p \in DOMAIN b.page : p # b.write => LinkPage(b, h).page[p] = b.page[p]
         /\ LinkPage(b, h).page[b.write].wr = b.page[b.write].wr
         /\ LinkPage(b, h).page[b.write].rd = b.page[b.write].rd
         /\ LinkPage(b, h).page[b.write].next = h
         /\ LinkPage(b, h).page[b.write].data = b.page[b.write].data
<1>1. PICK pages \in Seq(Pages), w, r \in Nat, f \in Nat, N \in Nat :
        pages = b.page /\ w = b.write /\ r = b.read /\ f = b.free /\ N = Len(pages)
  <2>1. b.page \in Seq(Pages) /\ b.read \in Nat /\ b.free \in Nat
    BY DEF Buffers
  <2> QED BY <2>1
<1>2. b = [page |-> pages, write |-> w, read |-> r, free |-> f]
  BY <1>1 DEF Buffers
<1>3. DOMAIN pages = 1 .. N /\ w \in 1 .. N /\ pages[w] \in Pages
  BY <1>1
<1>4. PICK g \in Pages : g = pages[w]
  BY <1>3
<1>5. PICK u \in Pages : /\ u = [g EXCEPT !.next = h]
                         /\ u.wr = g.wr /\ u.rd = g.rd /\ u.next = h /\ u.data = g.data
  <2>1. g.data \in Data
    BY DEF Pages, Data
  <2> QED BY <2>1, PageWith
<1>6. PICK s : s = [pages EXCEPT ![w] = u]
  OBVIOUS
<1>7. s \in Seq(Pages) /\ Len(s) = N /\ s[w] = u /\ \A j \in 1 .. N : j # w => s[j] = pages[j]
  BY <1>1, <1>3, <1>6, Replaced
<1>8. PICK c : c = LinkPage(b, h)
  OBVIOUS
<1>9. c = [page |-> s, write |-> w, read |-> r, free |-> f]
  <2>1. c = [b EXCEPT !.page = [b.page EXCEPT ![w] = [b.page[w] EXCEPT !.next = h]]]
    BY <1>1, <1>8, Zenon DEF LinkPage
  <2>2. c = [b EXCEPT !.page = s]
    BY <1>1, <1>4, <1>5, <1>6, <2>1, Zenon
  <2> QED BY <1>2, <2>2
<1>10. c \in Buffers /\ c.page = s /\ c.write = w /\ c.read = r /\ c.free = f
  BY <1>1, <1>3, <1>7, <1>9 DEF Buffers
<1>11. c.page[w] = u /\ b.page[w] = g
  BY <1>1, <1>4, <1>7, <1>10
<1>13. \A p \in DOMAIN b.page : p # w => c.page[p] = b.page[p]
  BY <1>1, <1>3, <1>7, <1>10
<1>14. Len(c.page) = Len(b.page)
  BY <1>1, <1>7, <1>10, Zenon
<1> QED BY <1>1, <1>5, <1>8, <1>10, <1>11, <1>13, <1>14, Zenon

LEMMA FillTwin ==
  ASSUME NEW b \in Buffers, NEW x \in Nat, NEW t, b.write = t.w, t.on = t.w, t.w \in DOMAIN b.page,
         b.page[t.w].wr = t.wr, t.wr # 0, b.page[t.w].next = t.next, t.then = t.next,
         b.page[t.w].data = t.data, t.full = [t.data EXCEPT ![t.wr] = x]
  PROVE  Twin(b, FillByte(b, x), t)
BY FillIs DEF Twin

\* The buffer with page h linked, or about to be, and m_write_ptr on it.
Turned(b, h, linked) == IF linked THEN MoveOn(b) ELSE MoveOn(LinkPage(b, h))

LEMMA LinkTwin ==
  ASSUME NEW b \in Buffers, NEW h, NEW linked \in BOOLEAN, NEW t, b.write = t.w, t.w \in DOMAIN b.page,
         h \in DOMAIN b.page, h # t.w, b.page[h].wr < PageSize, t.on = h, t.then = h,
         b.page[t.w].wr = t.wr, b.page[t.w].next = t.next, linked => t.next = h,
         b.page[t.w].data = t.data, t.full = t.data
  PROVE  Twin(b, Turned(b, h, linked), t)
<1>1. PICK N \in Nat : N = Len(b.page)
  BY DEF Buffers
<1>2. h \in Nat
  BY <1>1, PageFacts
<1>3. PICK d : d = LinkPage(b, h)
  OBVIOUS
<1>4. /\ d \in Buffers /\ d.read = b.read /\ d.write = t.w /\ d.free = b.free /\ Len(d.page) = N
      /\ \A p \in DOMAIN b.page : p # t.w => d.page[p] = b.page[p]
      /\ d.page[t.w].wr = t.wr /\ d.page[t.w].rd = b.page[t.w].rd
      /\ d.page[t.w].next = h /\ d.page[t.w].data = t.data
  BY <1>1, <1>2, <1>3, LinkIs
<1>5. ASSUME NEW e \in Buffers, NEW s, s = MoveOn(e), e.write = t.w, e.page[t.w].next = h
      PROVE  /\ s \in Buffers /\ s.page = e.page /\ s.read = e.read /\ s.free = e.free /\ s.write = h
  <2>1. s = [e EXCEPT !.write = h]
    BY <1>5 DEF MoveOn
  <2> QED BY <1>2, <2>1 DEF Buffers
<1>6. Twin(b, MoveOn(d), t)
  <2>1. PICK s : s = MoveOn(d)
    OBVIOUS
  <2>2. s \in Buffers /\ s.page = d.page /\ s.read = d.read /\ s.free = d.free /\ s.write = h
    BY <1>4, <1>5, <2>1
  <2>3. s.page[h].wr < PageSize
    BY <1>4, <2>2
  <2>4. Twin(b, s, t)
    BY <1>1, <1>4, <2>2, <2>3 DEF Twin
  <2> QED BY <2>1, <2>4
<1>7. ASSUME t.next = h PROVE Twin(b, MoveOn(b), t)
  <2>1. PICK s : s = MoveOn(b)
    OBVIOUS
  <2>2. s \in Buffers /\ s.page = b.page /\ s.read = b.read /\ s.free = b.free /\ s.write = h
    BY <1>5, <1>7, <2>1
  <2>4. Twin(b, s, t)
    BY <1>1, <1>7, <2>2 DEF Twin
  <2> QED BY <2>1, <2>4
<1> QED BY <1>3, <1>6, <1>7 DEF Turned

\* A read may come between the count and the byte,
LEMMA ReadWhileByte ==
  ASSUME NEW b \in Buffers, NEW x \in Nat, b.write \in DOMAIN b.page, b.page[b.write].wr # 0,
         NEW from \in Nat, NEW to \in Nat, HeldFull(FillByte(b, x), from, to),
         NEW n \in Nat, NEW c, c = Read(b, n).b
  PROVE  \/ c.page[b.write].rd = c.page[b.write].wr
         \/ /\ c \in Buffers /\ c.write = b.write /\ c.write \in DOMAIN c.page
            /\ c.page[c.write].wr = b.page[b.write].wr
            /\ \E k \in 0 .. n : Read(b, n).out = Following(from, k)
                                 /\ HeldFull(FillByte(c, x), from + k, to)
<1>1. PICK N \in Nat : N = Len(b.page)
  BY DEF Buffers
<1>2. PICK w, g : w = b.write /\ g = b.page[w] /\ w \in DOMAIN b.page /\ DOMAIN b.page = 1 .. N
  BY <1>1, PageFacts
<1>3. PICK wr \in Nat, data \in [1 .. PageSize -> Nat] : /\ wr = g.wr /\ data = g.data
                                                         /\ wr # 0 /\ wr <= PageSize
  BY <1>1, <1>2, PageFacts
<1>4. PICK t : t = [w |-> w, on |-> w, wr |-> wr, top |-> wr - 1, next |-> g.next, then |-> g.next,
                    data |-> data, full |-> [data EXCEPT ![wr] = x]]
  OBVIOUS
<1>5. Shares(t)
  <2>1. PICK top \in Nat : top = wr - 1 /\ top = t.top /\ top <= wr /\ wr <= top + 1
    BY <1>3, <1>4
  <2>2. \A j \in 1 .. top : j \in 1 .. PageSize /\ j # wr
    BY <1>3, <2>1, PageAssumption
  <2>3. \A j \in 1 .. top : t.data[j] = t.full[j]
    BY <1>4, <2>2
  <2> QED BY <1>4, <2>1, <2>3 DEF Shares, Agree
<1>6. ASSUME NEW e \in Buffers, e.write = w, w \in DOMAIN e.page, e.page[w].wr = wr,
             e.page[w].next = g.next, e.page[w].data = data
      PROVE  Twin(e, FillByte(e, x), t)
  BY <1>3, <1>4, <1>6, FillTwin
<1>7. Twin(b, FillByte(b, x), t)
  BY <1>2, <1>3, <1>6
<1>8. t.next \in DOMAIN b.page \cup {0}
  <2>1. PICK s : s = FillByte(b, x)
    OBVIOUS
  <2>2. s \in Buffers /\ Len(s.page) = N /\ s.write = w /\ s.page[w].next = g.next
    BY <1>1, <1>2, <2>1, FillIs
  <2>3. DOMAIN s.page = 1 .. N
    BY <1>1, <2>2, PageFacts
  <2>4. Sane(s)
    BY <2>1, HeldSane
  <2> QED BY <1>2, <1>4, <2>2, <2>3, <2>4 DEF Sane
<1>9. CASE Lost(c, t)
  BY <1>2, <1>4, <1>9 DEF Lost
<1>10. CASE ~Lost(c, t)
  <2>1. PICK k \in 0 .. n, d \in Buffers : /\ Read(b, n).out = Following(from, k)
                                           /\ Twin(c, d, t) /\ HeldFull(d, from + k, to)
    BY <1>5, <1>7, <1>8, <1>10, ReadTwin
  <2>2. /\ c \in Buffers /\ c.write = w /\ w \in DOMAIN c.page /\ c.page[w].wr = wr
        /\ c.page[w].next = g.next /\ c.page[w].data = data
    BY <1>4, <2>1 DEF Twin
  <2>3. d = FillByte(c, x)
    BY <1>6, <2>1, <2>2, TwinUnique
  <2> QED BY <1>2, <1>3, <2>1, <2>2, <2>3
<1> QED BY <1>9, <1>10

LEMMA LastHeld ==
  ASSUME NEW b, NEW from \in Nat, NEW to \in Nat, HeldFull(b, from, to)
  PROVE  b.page[b.write].next = 0
<1>1. PICK used \in [Nat -> Nat], spare \in [Nat -> Nat], lo \in [Nat -> Nat],
           m \in Nat \ {0}, k \in Nat : HeldAs(b, from, to, used, m, spare, k, lo)
  BY DEF HeldFull
<1>2. m \in 1 .. m /\ ~(m < m)
  OBVIOUS
<1>3. b.write = used[m]
  BY <1>1 DEF HeldAs, Shared
<1>4. \A i \in 1 .. m : b.page[used[i]].next = IF i < m THEN used[i + 1] ELSE 0
  BY <1>1 DEF HeldAs, Shared
<1> QED BY <1>2, <1>3, <1>4

\* between alloc_page and the link, and between the link and m_write_ptr.
LEMMA ReadWhileTurn ==
  ASSUME NEW b \in Buffers, NEW h \in Nat \ {0}, NEW linked \in BOOLEAN, b.write \in DOMAIN b.page,
         b.page[b.write].next = IF linked THEN h ELSE 0,
         NEW from \in Nat, NEW to \in Nat, Held(Turned(b, h, linked), from, to),
         NEW n \in Nat, NEW c, c = Read(b, n).b
  PROVE  \/ c.page[b.write].rd = c.page[b.write].wr
         \/ /\ c \in Buffers /\ c.write = b.write /\ c.write \in DOMAIN c.page
            /\ c.page[c.write].next = b.page[b.write].next
            /\ \E k \in 0 .. n : /\ Read(b, n).out = Following(from, k)
                                 /\ Held(Turned(c, h, linked), from + k, to)
<1>1. PICK N \in Nat : N = Len(b.page)
  BY DEF Buffers
<1>2. PICK w, g : w = b.write /\ g = b.page[w] /\ w \in DOMAIN b.page /\ DOMAIN b.page = 1 .. N
  BY <1>1, PageFacts
<1>3. PICK wr \in Nat : wr = g.wr /\ g.data \in [1 .. PageSize -> Nat]
  BY <1>1, <1>2, PageFacts
<1>4. PICK t : t = [w |-> w, on |-> h, wr |-> wr, top |-> wr, next |-> g.next, then |-> h,
                    data |-> g.data, full |-> g.data]
  OBVIOUS
<1>5. Shares(t)
  BY <1>3, <1>4 DEF Shares, Agree
<1>6. PICK s : s = Turned(b, h, linked) /\ Held(s, from, to)
  OBVIOUS
<1>7. PICK d \in Buffers : /\ d = IF linked THEN b ELSE LinkPage(b, h)
                          /\ s = MoveOn(d) /\ Len(d.page) = N /\ d.write = w /\ d.page[w].next = h
                          /\ \A p \in 1 .. N : p # w => d.page[p] = b.page[p]
  <2>1. CASE linked
    BY <1>1, <1>2, <1>6, <2>1 DEF Turned
  <2>2. CASE ~linked
    <3>1. PICK d : d = LinkPage(b, h)
      OBVIOUS
    <3>2. /\ d \in Buffers /\ Len(d.page) = N /\ d.write = w /\ d.page[w].next = h
          /\ \A p \in 1 .. N : p # w => d.page[p] = b.page[p]
      BY <1>1, <1>2, <3>1, LinkIs
    <3> QED BY <1>6, <2>2, <3>1, <3>2 DEF Turned
  <2> QED BY <2>1, <2>2
<1>8. s.page = d.page /\ s.write = h
  <2>1. s = [d EXCEPT !.write = h]
    BY <1>7 DEF MoveOn
  <2> QED BY <2>1 DEF Buffers
<1>9. h \in 1 .. N /\ h # w /\ b.page[h].wr < PageSize
  <2>1. HeldFull(s, from, to) /\ s.page[h].wr < PageSize
    BY <1>6, <1>8 DEF Held
  <2>2. s.page[h].next = 0 /\ h \in DOMAIN s.page
    BY <1>8, <2>1, HeldSane, LastHeld DEF Sane
  <2>3. DOMAIN d.page = 1 .. N
    BY <1>7, PageFacts
  <2> QED BY <1>7, <1>8, <2>1, <2>2, <2>3
<1>10. t.next \in DOMAIN b.page \cup {0}
  BY <1>2, <1>4, <1>9
<1>11. ASSUME NEW e \in Buffers, e.write = w, w \in DOMAIN e.page, h \in DOMAIN e.page,
              e.page[h].wr < PageSize, e.page[w].wr = wr, e.page[w].next = g.next, e.page[w].data = g.data
       PROVE  Twin(e, Turned(e, h, linked), t)
  <2>1. linked => t.next = h
    BY <1>2, <1>4
  <2> QED BY <1>4, <1>9, <1>11, <2>1, LinkTwin
<1>12. Twin(b, s, t)
  BY <1>2, <1>3, <1>6, <1>9, <1>11
<1>13. CASE Lost(c, t)
  BY <1>2, <1>4, <1>13 DEF Lost
<1>14. CASE ~Lost(c, t)
  <2>1. HeldFull(s, from, to)
    BY <1>6 DEF Held
  <2>2. PICK k \in 0 .. n, e \in Buffers : /\ Read(b, n).out = Following(from, k)
                                           /\ Twin(c, e, t) /\ HeldFull(e, from + k, to)
    BY <1>5, <1>10, <1>12, <1>14, <2>1, ReadTwin
  <2>3. /\ c \in Buffers /\ c.write = w /\ w \in DOMAIN c.page /\ c.page[w].wr = wr
        /\ c.page[w].next = g.next /\ c.page[w].data = g.data /\ Len(e.page) = Len(c.page)
        /\ e.write = h /\ e.page[h].wr < PageSize
    BY <1>4, <1>9, <2>2 DEF Twin
  <2>4. h \in DOMAIN c.page /\ c.page[h].wr < PageSize
    <3>1. from + k \in Nat
      OBVIOUS
    <3>2. h \in DOMAIN e.page
      BY <2>2, <2>3, <3>1, HeldSane DEF Sane
    <3>3. PICK M \in Nat : M = Len(c.page)
      <4>1. PICK f \in Buffers : f = c
        BY <2>3
      <4>2. Len(f.page) \in Nat
        BY DEF Buffers
      <4> QED BY <4>1, <4>2
    <3>4. DOMAIN e.page = 1 .. M /\ DOMAIN c.page = 1 .. M
      BY <2>3, <3>3, PageFacts
    <3>5. e.page[h] = c.page[h]
      BY <1>4, <1>9, <2>2, <3>2, <3>4 DEF Twin
    <3> QED BY <2>3, <3>2, <3>4, <3>5
  <2>5. e = Turned(c, h, linked)
    <3>1. Twin(c, Turned(c, h, linked), t)
      BY <1>11, <2>3, <2>4
    <3> QED BY <2>2, <3>1, TwinUnique
  <2>6. Held(e, from + k, to)
    BY <2>2, <2>3 DEF Held
  <2> QED BY <1>2, <2>2, <2>3, <2>5, <2>6
<1> QED BY <1>13, <1>14

-----------------------------------------------------------------------------
(* The statements of write, one by one.                                    *)

\* The free page is neither of those that are read and written.
LEMMA FreeApart ==
  ASSUME NEW b, NEW from \in Nat, NEW to \in Nat, HeldFull(b, from, to)
  PROVE  b.free # b.read /\ b.free # b.write
<1>1. PICK used \in [Nat -> Nat], spare \in [Nat -> Nat], lo \in [Nat -> Nat],
           m \in Nat \ {0}, k \in Nat : HeldAs(b, from, to, used, m, spare, k, lo)
  BY DEF HeldFull
<1>2. /\ b \in Buffers /\ Len(b.page) = m + k /\ Apart(used, m, spare, k)
      /\ b.read = used[1] /\ b.write = used[m] /\ b.free = IF k = 0 THEN 0 ELSE spare[1]
  BY <1>1 DEF HeldAs, Shared
<1>3. 1 \in 1 .. m /\ m \in 1 .. m /\ m + k \in Nat
  OBVIOUS
<1>4. used[1] \in 1 .. m + k /\ used[m] \in 1 .. m + k
  BY <1>2, <1>3, Zenon DEF Apart
<1>5. CASE k = 0
  <2>1. used[1] # 0 /\ used[m] # 0
    BY <1>3, <1>4
  <2> QED BY <1>2, <1>5, <2>1
<1>6. CASE k # 0
  <2>1. 1 \in 1 .. k
    BY <1>6
  <2>2. used[1] # spare[1] /\ used[m] # spare[1]
    <3>1. \A i \in 1 .. m, j \in 1 .. k : used[i] # spare[j]
      BY <1>2, Zenon DEF Apart
    <3> QED BY <1>3, <2>1, <3>1
  <2> QED BY <1>2, <1>6, <2>2
<1> QED BY <1>5, <1>6

\* wr_ptr++
LEMMA CountIs ==
  ASSUME NEW b \in Buffers, b.write \in DOMAIN b.page, b.page[b.write].wr < PageSize
  PROVE  /\ CountByte(b) \in Buffers /\ CountByte(b).write = b.write
         /\ b.write \in DOMAIN CountByte(b).page /\ CountByte(b).page[b.write].wr # 0
<1>1. PICK pages \in Seq(Pages), w, r \in Nat, f \in Nat, N \in Nat :
        pages = b.page /\ w = b.write /\ r = b.read /\ f = b.free /\ N = Len(pages)
  <2>1. b.page \in Seq(Pages) /\ b.write \in Nat /\ b.read \in Nat /\ b.free \in Nat
    BY DEF Buffers
  <2> QED BY <2>1
<1>2. b = [page |-> pages, write |-> w, read |-> r, free |-> f]
  BY <1>1 DEF Buffers
<1>3. DOMAIN pages = 1 .. N /\ w \in 1 .. N /\ pages[w] \in Pages
  BY <1>1
<1>4. PICK g \in Pages : g = pages[w]
  BY <1>3
<1>5. PICK at \in Nat : at = g.wr + 1 /\ at \in 1 .. PageSize /\ g.rd <= at
  <2>1. PICK n \in Nat, rd \in Nat : n = g.wr /\ rd = g.rd /\ rd <= n
    BY DEF Pages
  <2>2. n < PageSize /\ PageSize \in Nat
    BY <1>1, <1>4, <2>1, PageAssumption
  <2>3. n + 1 \in Nat /\ n + 1 \in 1 .. PageSize /\ rd <= n + 1
    BY <2>1, <2>2
  <2> QED BY <2>1, <2>3
<1>6. PICK h : h = [g EXCEPT !.wr = at]
  OBVIOUS
<1>7. h \in Pages /\ h.wr = at
  <2>1. at \in Nat /\ g.rd <= at /\ at <= PageSize
    BY <1>5
  <2> QED BY <1>6, <2>1 DEF Pages
<1>8. PICK s : s = [pages EXCEPT ![w] = h]
  OBVIOUS
<1>9. s \in Seq(Pages) /\ Len(s) = N /\ s[w] = h
  BY <1>1, <1>3, <1>7, <1>8, Replaced
<1>10. PICK c : c = CountByte(b)
  OBVIOUS
<1>11. c = [page |-> s, write |-> w, read |-> r, free |-> f]
  <2>1. c = [b EXCEPT !.page = [b.page EXCEPT ![w] = [b.page[w] EXCEPT !.wr = b.page[w].wr + 1]]]
    BY <1>1, <1>10, Zenon DEF CountByte
  <2>2. c = [b EXCEPT !.page = s]
    BY <1>1, <1>4, <1>5, <1>6, <1>8, <2>1, Zenon
  <2> QED BY <1>2, <2>2
<1>12. c \in Buffers /\ c.page = s /\ c.write = w
  BY <1>1, <1>3, <1>9, <1>11 DEF Buffers
<1>13. w \in DOMAIN s /\ s[w].wr # 0
  BY <1>3, <1>5, <1>7, <1>9
<1> QED BY <1>1, <1>10, <1>12, <1>13

\* alloc_page leaves the page that is written alone.
LEMMA AllocIs ==
  ASSUME NEW b \in Buffers, b.write \in DOMAIN b.page, NEW first, Seen(b, first), first # b.write
  PROVE  /\ AfterAlloc(b, first) \in Buffers /\ AfterAlloc(b, first).write = b.write
         /\ b.write \in DOMAIN AfterAlloc(b, first).page
         /\ AfterAlloc(b, first).page[b.write] = b.page[b.write]
         /\ PageFrom(b, first) \in Nat \ {0}
<1>1. PICK pages \in Seq(Pages), w, r \in Nat, f \in Nat, N \in Nat :
        pages = b.page /\ w = b.write /\ r = b.read /\ f = b.free /\ N = Len(pages)
  <2>1. b.page \in Seq(Pages) /\ b.write \in Nat /\ b.read \in Nat /\ b.free \in Nat
    BY DEF Buffers
  <2> QED BY <2>1
<1>2. b = [page |-> pages, write |-> w, read |-> r, free |-> f]
  BY <1>1 DEF Buffers
<1>3. DOMAIN pages = 1 .. N /\ \A q \in 1 .. N : pages[q] \in Pages
  BY <1>1
<1>4. w \in 1 .. N /\ (first # 0 => first = f /\ f \in 1 .. N /\ f # w)
  BY <1>1, <1>3 DEF Seen
<1>5. FreshPage \in Pages
  BY PageAssumption DEF FreshPage, Pages
<1>6. PICK a : a = AfterAlloc(b, first)
  OBVIOUS
<1>7. CASE first = 0
  <2>1. PageFrom(b, first) = N + 1 /\ N + 1 \in Nat \ {0}
    BY <1>1, <1>7 DEF PageFrom
  <2>2. PICK more : more = Append(pages, FreshPage)
    OBVIOUS
  <2>3. /\ more \in Seq(Pages) /\ Len(more) = N + 1 /\ \A q \in 1 .. N : more[q] = pages[q]
    BY <1>1, <1>5, <2>2, Appended
  <2>4. a = [page |-> more, write |-> w, read |-> r, free |-> f]
    BY <1>1, <1>2, <1>6, <1>7, <2>2 DEF AfterAlloc
  <2>5. w \in Nat /\ w \in DOMAIN more
    BY <1>4, <2>3
  <2>6. a \in Buffers /\ a.page = more /\ a.write = w
    BY <2>3, <2>4, <2>5 DEF Buffers
  <2> QED BY <1>1, <1>4, <1>6, <2>1, <2>3, <2>5, <2>6
<1>8. CASE first # 0
  <2>1. PageFrom(b, first) = f /\ first = f /\ f \in 1 .. N /\ f # w /\ f \in Nat \ {0}
    BY <1>1, <1>4, <1>8 DEF PageFrom
  <2>2. PICK old \in Pages : old = pages[f]
    BY <1>3, <2>1
  <2>3. PICK u \in Pages : u = [FreshPage EXCEPT !.data = old.data]
    <3>1. old.data \in [1 .. PageSize -> Nat]
      BY DEF Pages
    <3>2. [FreshPage EXCEPT !.data = old.data] \in Pages
      BY <1>5, <3>1 DEF Pages
    <3> QED BY <3>2
  <2>4. PICK more : more = [pages EXCEPT ![f] = u]
    OBVIOUS
  <2>5. /\ more \in Seq(Pages) /\ Len(more) = N /\ \A q \in 1 .. N : q # f => more[q] = pages[q]
    BY <1>1, <2>1, <2>4, Replaced
  <2>6. PICK nx \in Nat : nx = old.next
    BY DEF Pages
  <2>7. a = [page |-> more, write |-> w, read |-> r, free |-> nx]
    BY <1>1, <1>2, <1>6, <1>8, <2>1, <2>2, <2>3, <2>4, <2>6 DEF AfterAlloc
  <2>8. w \in Nat /\ w \in DOMAIN more
    BY <1>4, <2>5
  <2>9. a \in Buffers /\ a.page = more /\ a.write = w
    BY <2>5, <2>6, <2>7, <2>8 DEF Buffers
  <2> QED BY <1>1, <1>4, <1>6, <2>1, <2>5, <2>8, <2>9
<1> QED BY <1>7, <1>8

-----------------------------------------------------------------------------
(* write, while read is giving a page back: b is the buffer as it is, v as *)
(* it would be were page h still the one that is read.                     *)

Detached(b, h, v) ==
  /\ b \in Buffers /\ v \in Buffers /\ Len(v.page) = Len(b.page)
  /\ h \in DOMAIN b.page /\ v.read = h /\ v.write = b.write /\ v.free = b.free
  /\ \A p \in DOMAIN b.page : p # h => v.page[p] = b.page[p]

\* What b and v are after a write that has left page h alone.
StillDetached(b, h, v, c, w) ==
  /\ Detached(c, h, w) /\ c.read = b.read
  /\ c.page[h] = b.page[h] /\ w.page[h] = v.page[h]

LEMMA StoreApart ==
  ASSUME NEW b, NEW h, NEW v, Detached(b, h, v), h # v.write, v.write \in DOMAIN v.page,
         v.page[v.write].wr < PageSize, NEW x \in Nat
  PROVE  StillDetached(b, h, v, Store(b, x), Store(v, x))
<1>1. PICK N \in Nat : N = Len(b.page)
  BY DEF Detached, Buffers
<1>2. /\ b \in Buffers /\ v \in Buffers /\ Len(v.page) = N /\ DOMAIN b.page = 1 .. N /\ DOMAIN v.page = 1 .. N
  BY <1>1, PageFacts DEF Detached
<1>3. PICK w : w = b.write /\ w = v.write /\ w \in 1 .. N /\ w # h /\ v.page[w] = b.page[w]
  BY <1>2 DEF Detached
<1>4. PICK c, d : c = Store(b, x) /\ d = Store(v, x)
  OBVIOUS
<1>5. Stores(b, c, x) /\ Stores(v, d, x)
  BY <1>2, <1>3, <1>4, StoreIs
<1>6. /\ c \in Buffers /\ d \in Buffers /\ Len(c.page) = N /\ Len(d.page) = N
      /\ c.read = b.read /\ d.read = v.read /\ c.write = w /\ d.write = w
      /\ c.free = b.free /\ d.free = v.free
      /\ \A p \in 1 .. N : p # w => c.page[p] = b.page[p] /\ d.page[p] = v.page[p]
  BY <1>1, <1>2, <1>3, <1>5 DEF Stores
<1>7. c.page[w] = d.page[w]
  <2>1. c.page[w] \in Pages /\ d.page[w] \in Pages
    BY <1>3, <1>6, PageFacts
  <2>2. /\ c.page[w].wr = d.page[w].wr /\ c.page[w].rd = d.page[w].rd
        /\ c.page[w].next = d.page[w].next
    BY <1>3, <1>5 DEF Stores
  <2>3. c.page[w].data = d.page[w].data
    <3>1. c.page[w].data = [b.page[w].data EXCEPT ![b.page[w].wr + 1] = x]
      BY <1>3, <1>5 DEF Stores
    <3>2. d.page[w].data = [v.page[w].data EXCEPT ![v.page[w].wr + 1] = x]
      BY <1>3, <1>5 DEF Stores
    <3> QED BY <1>3, <3>1, <3>2, Zenon
  <2> QED BY <2>1, <2>2, <2>3, SamePage
<1>8. DOMAIN c.page = 1 .. N
  BY <1>6, PageFacts
<1>9. h \in 1 .. N /\ v.read = h /\ v.free = b.free /\ \A p \in 1 .. N : p # h => v.page[p] = b.page[p]
  BY <1>2 DEF Detached
<1>10. \A p \in 1 .. N : p # h => d.page[p] = c.page[p]
  BY <1>6, <1>7, <1>9
<1>11. Detached(c, h, d)
  BY <1>6, <1>8, <1>9, <1>10 DEF Detached
<1> QED BY <1>3, <1>4, <1>6, <1>9, <1>11 DEF StillDetached

LEMMA GrowApartFrom ==
  ASSUME NEW b, NEW h, NEW v, Detached(b, h, v), h # v.write, h # v.free, v.write \in DOMAIN v.page,
         v.free \in DOMAIN v.page \cup {0}, v.free # v.write
  PROVE  /\ StillDetached(b, h, v, GrowFrom(b, b.free), GrowFrom(v, v.free))
         /\ h # GrowFrom(v, v.free).write
<1>1. PICK N \in Nat : N = Len(b.page)
  BY DEF Detached, Buffers
<1>2. /\ b \in Buffers /\ v \in Buffers /\ Len(v.page) = N /\ DOMAIN b.page = 1 .. N /\ DOMAIN v.page = 1 .. N
  BY <1>1, PageFacts DEF Detached
<1>3. PICK w : w = b.write /\ w = v.write /\ w \in 1 .. N /\ w # h /\ v.page[w] = b.page[w]
  BY <1>2 DEF Detached
<1>4. PICK f : f = b.free /\ f = v.free /\ f # w /\ f # h /\ f \in 1 .. N \cup {0}
  BY <1>2, <1>3 DEF Detached
<1>5. f \in 1 .. N => v.page[f] = b.page[f]
  BY <1>2, <1>4 DEF Detached
<1>6. PICK c, d : c = GrowFrom(b, f) /\ d = GrowFrom(v, f)
  OBVIOUS
<1>7. PICK p : p = PageFrom(b, f) /\ p = PageFrom(v, f)
  BY <1>1, <1>2 DEF PageFrom
<1>8. Grows(b, c, f, p) /\ Grows(v, d, f, p)
  BY <1>2, <1>3, <1>4, <1>6, <1>7, GrowIs DEF Seen
<1>9. h \in 1 .. N /\ v.read = h /\ \A q \in 1 .. N : q # h => v.page[q] = b.page[q]
  BY <1>2 DEF Detached
<1>10. PICK M \in Nat : /\ M = IF f = 0 THEN N + 1 ELSE N
                       /\ p \in 1 .. M /\ p # h /\ p # w /\ \A q \in 1 .. M : q \in 1 .. N \/ q = p
  <2>1. CASE f = 0
    <3>1. p = N + 1
      BY <1>1, <1>8, <2>1 DEF Grows
    <3> QED BY <1>3, <1>9, <2>1, <3>1
  <2>2. CASE f # 0
    <3>1. p = f
      BY <1>4, <1>8, <2>2 DEF Grows
    <3> QED BY <1>4, <2>2, <3>1
  <2> QED BY <2>1, <2>2
<1>11. /\ c \in Buffers /\ d \in Buffers /\ Len(c.page) = M /\ Len(d.page) = M
       /\ c.read = b.read /\ d.read = v.read /\ c.write = p /\ d.write = p
       /\ \A q \in 1 .. N : q # p /\ q # w => c.page[q] = b.page[q] /\ d.page[q] = v.page[q]
  <2>1. Len(c.page) = M /\ Len(d.page) = M
    BY <1>1, <1>2, <1>8, <1>10 DEF Grows
  <2> QED BY <1>2, <1>3, <1>8, <2>1 DEF Grows
<1>12. c.free = d.free
  BY <1>4, <1>5, <1>8 DEF Grows
<1>13. DOMAIN c.page = 1 .. M
  BY <1>11, PageFacts
<1>14. c.page[p] = d.page[p]
  <2>1. c.page[p] \in Pages /\ d.page[p] \in Pages
    BY <1>10, <1>11, PageFacts
  <2>2. /\ c.page[p].wr = d.page[p].wr /\ c.page[p].rd = d.page[p].rd
        /\ c.page[p].next = d.page[p].next
    BY <1>8 DEF Grows
  <2>3. c.page[p].data = d.page[p].data
    <3>1. CASE f = 0
      BY <1>8, <3>1 DEF Grows
    <3>2. CASE f # 0
      <4>1. p = f
        BY <1>4, <1>8, <3>2 DEF Grows
      <4> QED BY <1>4, <1>5, <1>8, <3>2, <4>1 DEF Grows
    <3> QED BY <3>1, <3>2
  <2> QED BY <2>1, <2>2, <2>3, SamePage
<1>15. c.page[w] = d.page[w]
  <2>1. w \in 1 .. M
    BY <1>3, <1>10
  <2>2. c.page[w] \in Pages /\ d.page[w] \in Pages
    BY <1>11, <2>1, PageFacts
  <2>3. /\ c.page[w].wr = d.page[w].wr /\ c.page[w].rd = d.page[w].rd
        /\ c.page[w].next = d.page[w].next /\ c.page[w].data = d.page[w].data
    BY <1>3, <1>8 DEF Grows
  <2> QED BY <2>2, <2>3, SamePage
<1>16. \A q \in 1 .. M : q # h => d.page[q] = c.page[q]
  BY <1>9, <1>10, <1>11, <1>14, <1>15
<1>17. h \in 1 .. M
  BY <1>9, <1>10
<1>18. Detached(c, h, d)
  BY <1>9, <1>11, <1>12, <1>13, <1>16, <1>17 DEF Detached
<1>19. c.page[h] = b.page[h] /\ d.page[h] = v.page[h]
  BY <1>3, <1>9, <1>10, <1>11
<1>20. StillDetached(b, h, v, c, d)
  BY <1>11, <1>18, <1>19 DEF StillDetached
<1> QED BY <1>4, <1>6, <1>10, <1>11, <1>20

LEMMA WriteByteApart ==
  ASSUME NEW from \in Nat, NEW to \in Nat, NEW b, NEW h, NEW v, Detached(b, h, v), Held(v, from, to),
         h # v.write
  PROVE  /\ StillDetached(b, h, v, WriteByte(b, to + 1), WriteByte(v, to + 1))
         /\ h # WriteByte(v, to + 1).write
<1>1. PICK x \in Nat : x = to + 1
  OBVIOUS
<1>2. Sane(v) /\ v.page[v.write].wr < PageSize
  BY HeldSane DEF Held
<1>3. PICK c, d : c = Store(b, x) /\ d = Store(v, x)
  OBVIOUS
<1>4. StillDetached(b, h, v, c, d)
  BY <1>2, <1>3, StoreApart DEF Sane
<1>5. HeldFull(d, from, x)
  BY <1>1, <1>3, StoreHeld
<1>6. Stores(v, d, x)
  BY <1>2, <1>3, StoreIs DEF Sane
<1>7. d.write = v.write /\ c.write = v.write /\ d.free = c.free
  BY <1>4, <1>6 DEF Stores, StillDetached, Detached
<1>8. c.page[c.write].wr = d.page[d.write].wr
  <2>1. PICK N \in Nat : N = Len(c.page)
    BY <1>4 DEF StillDetached, Detached, Buffers
  <2>2. c \in Buffers /\ d \in Buffers /\ Len(d.page) = N
    BY <1>4, <2>1 DEF StillDetached, Detached
  <2>3. DOMAIN c.page = 1 .. N /\ DOMAIN d.page = 1 .. N
    BY <2>1, <2>2, PageFacts
  <2>4. d.write \in 1 .. N
    BY <1>5, <2>3, HeldSane DEF Sane
  <2>5. c.page[d.write] = d.page[d.write]
    BY <1>4, <1>7, <2>3, <2>4 DEF StillDetached, Detached
  <2> QED BY <1>7, <2>5
<1>9. CASE c.page[c.write].wr < PageSize
  <2>1. WriteByte(b, x) = c /\ WriteByte(v, x) = d
    BY <1>3, <1>8, <1>9 DEF WriteByte
  <2> QED BY <1>1, <1>4, <1>7, <2>1
<1>10. CASE ~(c.page[c.write].wr < PageSize)
  <2>1. PICK e, g : e = GrowFrom(c, c.free) /\ g = GrowFrom(d, d.free)
    OBVIOUS
  <2>2. WriteByte(b, x) = e /\ WriteByte(v, x) = g
    BY <1>3, <1>8, <1>10, <2>1 DEF WriteByte
  <2>3. d.free # d.read /\ d.free # d.write /\ Sane(d)
    BY <1>5, FreeApart, HeldSane
  <2>4. d.read = h /\ h # d.write /\ Detached(c, h, d)
    BY <1>4, <1>7 DEF StillDetached, Detached
  <2>5. StillDetached(c, h, d, e, g) /\ h # g.write
    BY <2>1, <2>3, <2>4, GrowApartFrom DEF Sane
  <2>6. StillDetached(b, h, v, e, g)
    BY <1>4, <2>5 DEF StillDetached
  <2> QED BY <1>1, <2>2, <2>5, <2>6
<1> QED BY <1>9, <1>10

LEMMA WriteApart ==
  ASSUME NEW from \in Nat, NEW to \in Nat, NEW n \in Nat, NEW b, NEW h, NEW v, Detached(b, h, v),
         Held(v, from, to), h # v.write
  PROVE  /\ StillDetached(b, h, v, Write(b, Following(to, n)), Write(v, Following(to, n)))
         /\ h # Write(v, Following(to, n)).write
<1>1. PICK bytes : bytes = Following(to, n)
  OBVIOUS
<1>2. DOMAIN bytes = 1 .. n /\ \A i \in 1 .. n : bytes[i] = to + i
  BY <1>1, FollowingFacts
<1>3. PICK after : /\ after[0] = b
                   /\ \A k \in 0 .. n - 1 : after[k + 1] = WriteByte(after[k], bytes[k + 1])
                   /\ after[n] = Write(b, bytes)
  BY <1>2, WriteIs
<1>4. PICK as : /\ as[0] = v
                /\ \A k \in 0 .. n - 1 : as[k + 1] = WriteByte(as[k], bytes[k + 1])
                /\ as[n] = Write(v, bytes)
  BY <1>2, WriteIs
<1> DEFINE S == {k \in 0 .. n : /\ Held(as[k], from, to + k) /\ h # as[k].write
                                /\ StillDetached(b, h, v, after[k], as[k])}
<1>5. 0 \in S
  <2>1. StillDetached(b, h, v, after[0], as[0])
    BY <1>3, <1>4 DEF StillDetached
  <2>2. 0 \in 0 .. n /\ to + 0 = to
    OBVIOUS
  <2> QED BY <1>4, <2>1, <2>2
<1>6. ASSUME NEW k \in 0 .. n - 1, k \in S PROVE k + 1 \in S
  <2>1. PICK x \in Nat : x = to + k
    OBVIOUS
  <2>2. PICK c, d : c = after[k] /\ d = as[k]
    OBVIOUS
  <2>3. Held(d, from, x) /\ h # d.write /\ StillDetached(b, h, v, c, d)
    BY <1>6, <2>1, <2>2
  <2>4. Held(WriteByte(d, x + 1), from, x + 1)
    BY <2>3, WriteByteHeld
  <2>5. Detached(c, h, d)
    BY <2>3 DEF StillDetached
  <2>6. StillDetached(c, h, d, WriteByte(c, x + 1), WriteByte(d, x + 1)) /\ h # WriteByte(d, x + 1).write
    BY <2>3, <2>5, WriteByteApart
  <2>7. StillDetached(b, h, v, WriteByte(c, x + 1), WriteByte(d, x + 1))
    BY <2>3, <2>6 DEF StillDetached
  <2>8. k + 1 \in 1 .. n /\ bytes[k + 1] = x + 1 /\ x + 1 = to + (k + 1)
    BY <1>2, <2>1
  <2>9. after[k + 1] = WriteByte(c, x + 1) /\ as[k + 1] = WriteByte(d, x + 1)
    BY <1>3, <1>4, <2>2, <2>8
  <2>10. k + 1 \in 0 .. n /\ Held(as[k + 1], from, to + (k + 1))
    BY <2>4, <2>8, <2>9
  <2>11. h # as[k + 1].write /\ StillDetached(b, h, v, after[k + 1], as[k + 1])
    BY <2>6, <2>7, <2>9, Zenon
  <2> QED BY <2>10, <2>11
<1> HIDE DEF S
<1>7. \A k \in 0 .. n : k \in S
  BY <1>5, <1>6, InductionUpTo
<1>8. n \in S
  BY <1>7
<1> QED BY <1>1, <1>3, <1>4, <1>8 DEF S

\* With the page before the free ones, the buffer is that from which it has been given back.
LEMMA DetachedBack ==
  ASSUME NEW b, NEW h, NEW v, Detached(b, h, v), v.page[h].next = b.read, NEW c \in Buffers,
         c.read = b.read, c.write = b.write, c.free = h, Len(c.page) = Len(b.page),
         \A p \in DOMAIN b.page : p # h => c.page[p] = b.page[p],
         c.page[h].next = b.free, c.page[h].wr = v.page[h].wr, c.page[h].rd = v.page[h].rd,
         c.page[h].data = v.page[h].data
  PROVE  c = GiveBack(v)
<1>1. PICK N \in Nat : N = Len(b.page)
  BY DEF Detached, Buffers
<1>2. /\ b \in Buffers /\ v \in Buffers /\ Len(v.page) = N /\ Len(c.page) = N
      /\ DOMAIN b.page = 1 .. N /\ DOMAIN v.page = 1 .. N /\ DOMAIN c.page = 1 .. N
      /\ h \in 1 .. N /\ v.read = h
  BY <1>1, PageFacts DEF Detached
<1>3. PICK d : d = GiveBack(v) /\ GivesBack(v, d)
  BY <1>2, GiveBackIs
<1>4. /\ d \in Buffers /\ d.read = b.read /\ d.write = b.write /\ d.free = h /\ Len(d.page) = N
      /\ \A p \in 1 .. N : p # h => d.page[p] = v.page[p]
  BY <1>2, <1>3 DEF GivesBack, Detached
<1>5. ASSUME NEW p \in 1 .. N PROVE c.page[p] = d.page[p]
  <2>1. CASE p = h
    <3>1. c.page[h] \in Pages /\ d.page[h] \in Pages
      BY <1>2, <1>4, PageFacts
    <3>2. /\ d.page[h].next = b.free /\ d.page[h].wr = v.page[h].wr /\ d.page[h].rd = v.page[h].rd
          /\ d.page[h].data = v.page[h].data
      BY <1>2, <1>3 DEF GivesBack, Detached
    <3> QED BY <2>1, <3>1, <3>2, SamePage
  <2>2. CASE p # h
    BY <1>2, <1>4, <2>2 DEF Detached
  <2> QED BY <2>1, <2>2
<1>6. c.page = d.page
  <2>1. PICK x \in Seq(Pages), y \in Seq(Pages) : x = c.page /\ y = d.page
    BY <1>4 DEF Buffers
  <2>2. Len(x) = N /\ Len(y) = N /\ \A p \in 1 .. N : x[p] = y[p]
    BY <1>2, <1>4, <1>5, <2>1
  <2> QED BY <2>1, <2>2
<1> QED BY <1>3, <1>4, <1>6 DEF Buffers

-----------------------------------------------------------------------------
(* The statements of read, one by one, and reads and writes that nobody    *)
(* disturbs.                                                               *)

LEMMA PagesHeld ==
  ASSUME NEW b, NEW from \in Nat, NEW to \in Nat, HeldFull(b, from, to)
  PROVE  \A p \in {b.read, b.write} :
           /\ p \in DOMAIN b.page /\ b.page[p].wr \in Nat /\ b.page[p].rd \in Nat
           /\ b.page[p].rd <= b.page[p].wr /\ b.page[p].wr <= PageSize
           /\ b.page[p].data \in [1 .. PageSize -> Nat]
<1>1. Sane(b) /\ b.read \in DOMAIN b.page
  BY HeldSane
<1>2. b \in Buffers /\ b.write \in DOMAIN b.page
  BY <1>1 DEF Sane
<1>3. PICK N \in Nat : N = Len(b.page)
  BY <1>2 DEF Buffers
<1>4. DOMAIN b.page = 1 .. N
  BY <1>2, <1>3, PageFacts
<1> QED BY <1>1, <1>2, <1>3, <1>4, PageFacts

\* With room on the page that is written, read cannot go too far.
LEMMA ReadAlone ==
  ASSUME NEW b, NEW from \in Nat, NEW to \in Nat, Held(b, from, to), NEW n \in Nat
  PROVE  \E k \in 0 .. n : Read(b, n).out = Following(from, k) /\ Held(Read(b, n).b, from + k, to)
<1>1. HeldFull(b, from, to) /\ b.page[b.write].wr < PageSize
  BY DEF Held
<1>2. PICK wr \in Nat : wr = b.page[b.write].wr /\ ~(wr >= PageSize)
  <2>1. PICK wr \in Nat : wr = b.page[b.write].wr
    BY <1>1, PagesHeld
  <2> QED BY <1>1, <2>1, PageAssumption
<1>3. PICK c : c = Read(b, n).b
  OBVIOUS
<1>4. /\ c.page[c.write].wr = b.page[b.write].wr
      /\ \E k \in 0 .. n : Read(b, n).out = Following(from, k) /\ HeldFull(c, from + k, to)
  <2>1. ReadsOn(b, n, c, from, to)
    BY <1>1, <1>3, ReadHeld
  <2> QED BY <1>2, <2>1 DEF ReadsOn
<1> QED BY <1>1, <1>3, <1>4 DEF Held

\* One byte.
LEMMA TakeOne ==
  ASSUME NEW b, NEW from \in Nat, NEW to \in Nat, Held(b, from, to),
         b.page[b.read].rd < b.page[b.read].wr
  PROVE  /\ b.page[b.read].data[b.page[b.read].rd + 1] = from + 1
         /\ Held(Take(b, 1), from + 1, to)
<1>1. HeldFull(b, from, to) /\ b.page[b.write].wr < PageSize
  BY DEF Held
<1>2. PICK wr \in Nat, rd \in Nat, data \in [1 .. PageSize -> Nat] :
        /\ wr = b.page[b.read].wr /\ rd = b.page[b.read].rd /\ data = b.page[b.read].data
        /\ rd < wr /\ wr <= PageSize
  BY <1>1, PagesHeld
<1>3. rd + 1 <= PageSize /\ 1 <= wr - rd
  BY <1>2, PageAssumption
<1>4. /\ HeldFull(Take(b, 1), from + 1, to) /\ Takes(b, Take(b, 1), 1)
      /\ SubSeq(data, rd + 1, rd + 1) = Following(from, 1)
  <2>1. HasBytes(b, 1)
    BY <1>2, <1>3 DEF HasBytes
  <2> QED BY <1>1, <1>2, <2>1, TakeHeld
<1>5. data[rd + 1] = from + 1
  <2>1. SubSeq(data, rd + 1, rd + 1)[1] = data[rd + 1]
    <3>1. data \in Seq(Nat) /\ Len(data) = PageSize
      BY PageAssumption
    <3>2. PICK q \in Seq(Nat) : q = data /\ Len(q) = PageSize
      BY <3>1
    <3>3. PICK at \in Nat : at = rd + 1 /\ at \in 1 .. Len(q)
      BY <1>2, <1>3, <3>2, PageAssumption
    <3>4. SubSeq(q, at, at)[1] = q[at]
      BY <3>3
    <3> QED BY <3>2, <3>3, <3>4
  <2>2. Following(from, 1)[1] = from + 1
    BY DEF Following
  <2> QED BY <1>4, <2>1, <2>2
<1>6. b.write \in DOMAIN b.page
  BY <1>1, PagesHeld
<1>7. PICK c : c = Take(b, 1)
  OBVIOUS
<1>8. c.page[c.write].wr = b.page[b.write].wr
  BY <1>4, <1>6, <1>7 DEF Takes
<1> QED BY <1>1, <1>2, <1>4, <1>5, <1>7, <1>8 DEF Held

LEMMA DoneApart ==
  ASSUME NEW b, NEW from \in Nat, NEW to \in Nat, Held(b, from, to), IsDone(b)
  PROVE  b.read # b.write
<1>1. PICK wr \in Nat : wr = b.page[b.write].wr
  BY PagesHeld DEF Held
<1> QED BY <1>1, PageAssumption DEF Held, IsDone

\* Page h has been read and left, and b is what else there is; its link is next.
GivingBack(b, h, next, from, to) ==
  \E v : /\ Detached(b, h, v) /\ Held(v, from, to) /\ IsDone(v) /\ v.page[h].next = b.read
         /\ b.page[h].wr = v.page[h].wr /\ b.page[h].rd = v.page[h].rd
         /\ b.page[h].data = v.page[h].data /\ b.page[h].next = next

LEMMA LeaveGives ==
  ASSUME NEW b, NEW from \in Nat, NEW to \in Nat, Held(b, from, to), IsDone(b)
  PROVE  GivingBack(LeavePage(b), b.read, LeavePage(b).read, from, to)
<1>1. Sane(b) /\ b.read \in DOMAIN b.page
  BY HeldSane DEF Held
<1>2. PICK N \in Nat : N = Len(b.page) /\ b \in Buffers
  BY <1>1 DEF Sane, Buffers
<1>3. b.page[b.read].next \in Nat
  BY <1>1, <1>2, PageFacts
<1>4. PICK c : c = LeavePage(b)
  OBVIOUS
<1>5. /\ c \in Buffers /\ c.page = b.page /\ c.write = b.write /\ c.free = b.free
      /\ c.read = b.page[b.read].next
  <2>1. c = [b EXCEPT !.read = b.page[b.read].next]
    BY <1>4 DEF LeavePage
  <2> QED BY <1>2, <1>3, <2>1 DEF Buffers
<1>6. Detached(c, b.read, b)
  BY <1>1, <1>2, <1>5 DEF Detached
<1> QED BY <1>4, <1>5, <1>6 DEF GivingBack

LEMMA FreeLinkIs ==
  ASSUME NEW b \in Buffers, NEW h \in DOMAIN b.page
  PROVE  /\ FreeLink(b, h) \in Buffers
         /\ FreeLink(b, h).read = b.read /\ FreeLink(b, h).write = b.write
         /\ FreeLink(b, h).free = b.free /\ Len(FreeLink(b, h).page) = Len(b.page)
         /\ \A p \in DOMAIN b.page : p # h => FreeLink(b, h).page[p] = b.page[p]
         /\ FreeLink(b, h).page[h].wr = b.page[h].wr /\ FreeLink(b, h).page[h].rd = b.page[h].rd
         /\ FreeLink(b, h).page[h].next = b.free /\ FreeLink(b, h).page[h].data = b.page[h].data
<1>1. PICK pages \in Seq(Pages), w, r \in Nat, f \in Nat, N \in Nat :
        pages = b.page /\ w = b.write /\ r = b.read /\ f = b.free /\ N = Len(pages)
  <2>1. b.page \in Seq(Pages) /\ b.write \in Nat /\ b.read \in Nat /\ b.free \in Nat
    BY DEF Buffers
  <2> QED BY <2>1
<1>2. b = [page |-> pages, write |-> w, read |-> r, free |-> f]
  BY <1>1 DEF Buffers
<1>3. DOMAIN pages = 1 .. N /\ h \in 1 .. N /\ pages[h] \in Pages
  BY <1>1
<1>4. PICK g \in Pages : g = pages[h]
  BY <1>3
<1>5. PICK u \in Pages : /\ u = [g EXCEPT !.next = f]
                         /\ u.wr = g.wr /\ u.rd = g.rd /\ u.next = f /\ u.data = g.data
  <2>1. g.data \in Data
    BY DEF Pages, Data
  <2> QED BY <2>1, PageWith
<1>6. PICK s : s = [pages EXCEPT ![h] = u]
  OBVIOUS
<1>7. s \in Seq(Pages) /\ Len(s) = N /\ s[h] = u /\ \A j \in 1 .. N : j # h => s[j] = pages[j]
  BY <1>1, <1>3, <1>6, Replaced
<1>8. PICK c : c = FreeLink(b, h)
  OBVIOUS
<1>9. c = [page |-> s, write |-> w, read |-> r, free |-> f]
  <2>1. c = [b EXCEPT !.page = [b.page EXCEPT ![h] = [b.page[h] EXCEPT !.next = b.free]]]
    BY <1>8, Zenon DEF FreeLink
  <2>2. c = [b EXCEPT !.page = s]
    BY <1>1, <1>4, <1>5, <1>6, <2>1, Zenon
  <2> QED BY <1>2, <2>2
<1>10. c \in Buffers /\ c.page = s /\ c.write = w /\ c.read = r /\ c.free = f
  BY <1>1, <1>7, <1>9 DEF Buffers
<1>11. c.page[h] = u /\ b.page[h] = g
  BY <1>1, <1>4, <1>7, <1>10
<1>12. \A p \in DOMAIN b.page : p # h => c.page[p] = b.page[p]
  BY <1>1, <1>3, <1>7, <1>10
<1>13. Len(c.page) = Len(b.page)
  BY <1>1, <1>7, <1>10, Zenon
<1> QED BY <1>1, <1>5, <1>8, <1>10, <1>11, <1>12, <1>13, Zenon

LEMMA LinkGives ==
  ASSUME NEW b, NEW h, NEW next, NEW from \in Nat, NEW to \in Nat, GivingBack(b, h, next, from, to)
  PROVE  /\ GivingBack(FreeLink(b, h), h, b.free, from, to)
         /\ FreeLink(b, h).read = b.read /\ FreeLink(b, h).free = b.free
<1>1. PICK v : /\ Detached(b, h, v) /\ Held(v, from, to) /\ IsDone(v) /\ v.page[h].next = b.read
               /\ b.page[h].wr = v.page[h].wr /\ b.page[h].rd = v.page[h].rd
               /\ b.page[h].data = v.page[h].data
  BY DEF GivingBack
<1>2. PICK c : c = FreeLink(b, h)
  OBVIOUS
<1>3. /\ c \in Buffers /\ c.read = b.read /\ c.write = b.write /\ c.free = b.free
      /\ Len(c.page) = Len(b.page) /\ \A p \in DOMAIN b.page : p # h => c.page[p] = b.page[p]
      /\ c.page[h].wr = b.page[h].wr /\ c.page[h].rd = b.page[h].rd
      /\ c.page[h].next = b.free /\ c.page[h].data = b.page[h].data
  BY <1>1, <1>2, FreeLinkIs DEF Detached
<1>4. DOMAIN c.page = DOMAIN b.page
  <2>1. PICK N \in Nat : N = Len(b.page) /\ b \in Buffers
    BY <1>1 DEF Detached, Buffers
  <2> QED BY <1>3, <2>1, PageFacts
<1>5. Detached(c, h, v)
  BY <1>1, <1>3, <1>4 DEF Detached
<1> QED BY <1>1, <1>2, <1>3, <1>5 DEF GivingBack

\* The page is back.
LEMMA HeadGives ==
  ASSUME NEW b, NEW h, NEW from \in Nat, NEW to \in Nat, GivingBack(b, h, b.free, from, to)
  PROVE  Held(FreeHead(b, h), from, to)
<1>1. PICK v : /\ Detached(b, h, v) /\ Held(v, from, to) /\ IsDone(v) /\ v.page[h].next = b.read
               /\ b.page[h].wr = v.page[h].wr /\ b.page[h].rd = v.page[h].rd
               /\ b.page[h].data = v.page[h].data /\ b.page[h].next = b.free
  BY DEF GivingBack
<1>2. PICK c : c = FreeHead(b, h)
  OBVIOUS
<1>3. PICK N \in Nat : N = Len(b.page) /\ b \in Buffers /\ h \in DOMAIN b.page
  BY <1>1 DEF Detached, Buffers
<1>4. /\ c \in Buffers /\ c.page = b.page /\ c.write = b.write /\ c.free = h /\ c.read = b.read
  <2>1. c = [b EXCEPT !.free = h]
    BY <1>2 DEF FreeHead
  <2>2. DOMAIN b.page = 1 .. N
    BY <1>3, PageFacts
  <2>3. h \in Nat
    BY <1>3, <2>2
  <2> QED BY <1>3, <2>1, <2>3 DEF Buffers
<1>5. c = GiveBack(v)
  BY <1>1, <1>4, DetachedBack
<1>6. v.read # v.write /\ HeldFull(v, from, to) /\ v.page[v.write].wr < PageSize
  BY <1>1, DoneApart DEF Held
<1>7. HeldFull(c, from, to) /\ GivesBack(v, c)
  BY <1>1, <1>5, <1>6, GiveBackHeld
<1>8. v.write \in DOMAIN v.page
  BY <1>6, PagesHeld
<1>9. c.page[c.write].wr < PageSize
  BY <1>6, <1>7, <1>8 DEF GivesBack
<1> QED BY <1>2, <1>7, <1>9 DEF Held

\* write in between.
StillGiving(c, b, h, next, from, to) == GivingBack(c, h, next, from, to) /\ c.read = b.read

LEMMA WriteGives ==
  ASSUME NEW b, NEW h, NEW next, NEW from \in Nat, NEW to \in Nat, NEW n \in Nat,
         GivingBack(b, h, next, from, to)
  PROVE  StillGiving(Write(b, Following(to, n)), b, h, next, from, to + n)
<1>1. PICK v : /\ Detached(b, h, v) /\ Held(v, from, to) /\ IsDone(v) /\ v.page[h].next = b.read
               /\ b.page[h].wr = v.page[h].wr /\ b.page[h].rd = v.page[h].rd
               /\ b.page[h].data = v.page[h].data /\ b.page[h].next = next
  BY DEF GivingBack
<1>2. PICK c, w : c = Write(b, Following(to, n)) /\ w = Write(v, Following(to, n))
  OBVIOUS
<1>3. h # v.write
  BY <1>1, DoneApart DEF Detached
<1>4. StillDetached(b, h, v, c, w)
  BY <1>1, <1>2, <1>3, WriteApart
<1>5. Held(w, from, to + n) /\ w.read = v.read
  BY <1>1, <1>2, WriteHeld
<1>6. /\ Detached(c, h, w) /\ c.read = b.read /\ c.page[h] = b.page[h] /\ w.page[h] = v.page[h]
      /\ v.read = h
  BY <1>1, <1>4 DEF StillDetached, Detached
<1>7. IsDone(w)
  BY <1>1, <1>5, <1>6 DEF IsDone
<1>8. w.page[h].next = c.read
  BY <1>1, <1>6
<1>9. /\ c.page[h].wr = w.page[h].wr /\ c.page[h].rd = w.page[h].rd
      /\ c.page[h].data = w.page[h].data /\ c.page[h].next = next
  BY <1>1, <1>6
<1> QED BY <1>2, <1>5, <1>6, <1>7, <1>8, <1>9 DEF GivingBack, StillGiving

\* write leaves a page alone that has been read to its end and is full.
LEMMA WriteDone ==
  ASSUME NEW b, NEW from \in Nat, NEW to \in Nat, NEW n \in Nat, Held(b, from, to), IsDone(b)
  PROVE  IsDone(Write(b, Following(to, n)))
<1>1. b.read # b.write
  BY DoneApart
<1>2. Sane(b) /\ b.read \in DOMAIN b.page
  BY HeldSane DEF Held
<1>3. Detached(b, b.read, b)
  BY <1>2 DEF Detached, Sane
<1>4. PICK c : c = Write(b, Following(to, n))
  OBVIOUS
<1>5. StillDetached(b, b.read, b, c, c)
  BY <1>1, <1>3, <1>4, WriteApart
<1>6. c.read = b.read /\ c.page[b.read] = b.page[b.read]
  BY <1>5 DEF StillDetached
<1> QED BY <1>4, <1>6 DEF IsDone

LEMMA GivingRoom ==
  ASSUME NEW b, NEW h, NEW next, NEW from \in Nat, NEW to \in Nat, GivingBack(b, h, next, from, to)
  PROVE  b.page[b.write].wr < PageSize
<1>1. PICK v : Detached(b, h, v) /\ Held(v, from, to) /\ IsDone(v)
  BY DEF GivingBack
<1>2. h # v.write
  BY <1>1, DoneApart DEF Detached
<1>3. PICK N \in Nat : N = Len(b.page) /\ b \in Buffers /\ v \in Buffers /\ Len(v.page) = N
  BY <1>1 DEF Detached, Buffers
<1>4. DOMAIN b.page = 1 .. N /\ DOMAIN v.page = 1 .. N
  BY <1>3, PageFacts
<1>5. v.write \in 1 .. N /\ v.page[v.write].wr < PageSize
  BY <1>1, <1>4, PagesHeld DEF Held
<1> QED BY <1>1, <1>2, <1>4, <1>5 DEF Detached

-----------------------------------------------------------------------------
(* What Content and PagesSound say of a buffer.                            *)

\* The first n pages of a list as a sequence.
Listed(list, n) == [i \in 1 .. n |-> list[i]]

LEMMA ListedFacts ==
  ASSUME NEW list \in [Nat -> Nat], NEW n \in Nat
  PROVE  /\ Listed(list, n) \in Seq(Nat) /\ Len(Listed(list, n)) = n
         /\ DOMAIN Listed(list, n) = 1 .. n
         /\ \A i \in 1 .. n : Listed(list, n)[i] = list[i]
         /\ Listed(list, n) = <<>> <=> n = 0
<1>1. PICK s : s = Listed(list, n)
  OBVIOUS
<1>2. s \in [1 .. n -> Nat] /\ \A i \in 1 .. n : s[i] = list[i]
  <2>1. \A i \in 1 .. n : list[i] \in Nat
    OBVIOUS
  <2> QED BY <1>1, <2>1 DEF Listed
<1>3. s \in Seq(Nat) /\ Len(s) = n /\ DOMAIN s = 1 .. n
  BY <1>2
<1>4. s = <<>> <=> n = 0
  BY <1>3
<1> QED BY <1>1, <1>2, <1>3, <1>4

\* The n pages of a list are those from head on, of N in all.
Leads(b, N, head, list, n) ==
  /\ list \in [Nat -> Nat] /\ N \in Nat /\ n \in Nat /\ n <= N /\ Len(b.page) = N
  /\ head = IF n = 0 THEN 0 ELSE list[1]
  /\ \A i \in 1 .. n : list[i] \in 1 .. N
  /\ \A i \in 1 .. n : b.page[list[i]].next = IF i < n THEN list[i + 1] ELSE 0

LEMMA ChainListed ==
  ASSUME NEW b, NEW N, NEW head, NEW list, NEW n, Leads(b, N, head, list, n)
  PROVE  Chain(b, head) = Listed(list, n)
<1>1. list \in [Nat -> Nat] /\ N \in Nat /\ n \in Nat /\ n <= N /\ Len(b.page) = N
  BY DEF Leads
<1>2. PICK s \in Seq(Nat) : s = Listed(list, n)
  BY <1>1, ListedFacts
<1>3. Len(s) = n /\ (s = <<>> <=> n = 0)
  BY <1>1, <1>2, ListedFacts
<1>4. \A i \in 1 .. n : s[i] = list[i]
  BY <1>1, <1>2, ListedFacts
<1>5. head = IF s = <<>> THEN 0 ELSE s[1]
  <2>1. CASE n = 0
    BY <1>3, <2>1 DEF Leads
  <2>2. CASE n # 0
    <3>1. 1 \in 1 .. n
      BY <1>1, <2>2
    <3>2. s[1] = list[1] /\ s # <<>>
      BY <1>3, <1>4, <2>2, <3>1
    <3> QED BY <2>2, <3>2 DEF Leads
  <2> QED BY <2>1, <2>2
<1>6. ASSUME NEW i \in 1 .. n
      PROVE  /\ s[i] \in 1 .. N
             /\ b.page[s[i]].next = IF i < n THEN s[i + 1] ELSE 0
  <2>1. s[i] = list[i]
    BY <1>4
  <2>2. s[i] \in 1 .. N
    BY <2>1 DEF Leads
  <2>3. b.page[list[i]].next = IF i < n THEN list[i + 1] ELSE 0
    BY DEF Leads
  <2>4. CASE i < n
    <3>1. i + 1 \in 1 .. n
      BY <1>1, <2>4
    <3>2. s[i + 1] = list[i + 1]
      BY <1>4, <3>1
    <3> QED BY <2>1, <2>2, <2>3, <2>4, <3>2
  <2>5. CASE ~(i < n)
    BY <2>1, <2>2, <2>3, <2>5
  <2> QED BY <2>4, <2>5
<1>7. Linked(b, head, s)
  BY <1>1, <1>3, <1>5, <1>6 DEF Linked
<1>8. Len(s) <= Len(b.page) /\ Len(b.page) \in Nat
  BY <1>1, <1>3
<1> QED BY <1>2, <1>7, <1>8, ChainIs

LEMMA Joined ==
  ASSUME NEW s \in Seq(Nat), NEW t \in Seq(Nat), NEW m \in Nat, NEW k \in Nat, m = Len(s), k = Len(t)
  PROVE  /\ Len(s \o t) = m + k /\ DOMAIN (s \o t) = 1 .. m + k
         /\ \A i \in 1 .. m : (s \o t)[i] = s[i]
         /\ \A j \in 1 .. k : (s \o t)[m + j] = t[j]
<1>1. Len(s \o t) = m + k /\ DOMAIN (s \o t) = 1 .. m + k
  OBVIOUS
<1>2. \A i \in 1 .. m : (s \o t)[i] = s[i]
  OBVIOUS
<1>3. ASSUME NEW j \in 1 .. k PROVE (s \o t)[m + j] = t[j]
  <2>1. PICK i \in 1 .. m + k : i = m + j
    OBVIOUS
  <2>2. (s \o t)[i] = t[i - m]
    BY <2>1
  <2>3. i - m = j
    BY <2>1
  <2> QED BY <2>1, <2>2, <2>3
<1> QED BY <1>1, <1>2, <1>3

LEMMA HeldContent ==
  ASSUME NEW b, NEW from \in Nat, NEW to \in Nat, HeldFull(b, from, to)
  PROVE  from <= to /\ Content(b) = Following(from, to - from) /\ PagesSound(b)
<1>1. PICK used \in [Nat -> Nat], spare \in [Nat -> Nat], lo \in [Nat -> Nat],
           m \in Nat \ {0}, k \in Nat : HeldAs(b, from, to, used, m, spare, k, lo)
  BY DEF Held, HeldFull
<1>2. PICK N \in Nat : N = m + k /\ m <= N /\ k <= N
  OBVIOUS
<1>3. lo[1] = from /\ lo[m + 1] = to /\ Stored(b, used, m, lo) /\ Shared(b, used, m, spare, k)
  BY <1>1 DEF HeldAs
<1>4. Apart(used, m, spare, k) /\ Len(b.page) = N /\ b \in Buffers
  BY <1>1, <1>2, <1>3 DEF Shared, HeldAs
<1>5. /\ \A i \in 1 .. m : used[i] \in 1 .. N
      /\ \A i \in 1 .. k : spare[i] \in 1 .. N
  BY <1>2, <1>4, Zenon DEF Apart
<1>6. Chain(b, b.read) = Listed(used, m)
  <2>1. b.read = IF m = 0 THEN 0 ELSE used[1]
    BY <1>3 DEF Shared
  <2>2. \A i \in 1 .. m : b.page[used[i]].next = IF i < m THEN used[i + 1] ELSE 0
    BY <1>3 DEF Shared
  <2>3. Leads(b, N, b.read, used, m)
    BY <1>2, <1>4, <1>5, <2>1, <2>2 DEF Leads
  <2> QED BY <2>3, ChainListed
<1>7. Chain(b, b.free) = Listed(spare, k)
  <2>1. b.free = IF k = 0 THEN 0 ELSE spare[1]
    BY <1>3 DEF Shared
  <2>2. \A i \in 1 .. k : b.page[spare[i]].next = IF i < k THEN spare[i + 1] ELSE 0
    BY <1>3 DEF Shared
  <2>3. Leads(b, N, b.free, spare, k)
    BY <1>2, <1>4, <1>5, <2>1, <2>2 DEF Leads
  <2> QED BY <2>3, ChainListed
<1>8. PICK chain \in Seq(Nat), free \in Seq(Nat) : chain = Listed(used, m) /\ free = Listed(spare, k)
  BY ListedFacts
<1>9. /\ Len(chain) = m /\ DOMAIN chain = 1 .. m /\ \A i \in 1 .. m : chain[i] = used[i]
      /\ Len(free) = k /\ \A i \in 1 .. k : free[i] = spare[i]
  BY <1>8, ListedFacts
<1>10. PagesSound(b)
  <2>1. PICK all : all = chain \o free
    OBVIOUS
  <2>20. /\ Len(all) = m + k /\ DOMAIN all = 1 .. m + k
         /\ \A i \in 1 .. m : all[i] = chain[i]
         /\ \A j \in 1 .. k : all[m + j] = free[j]
    <3>1. m = Len(chain) /\ k = Len(free)
      BY <1>9
    <3>2. m \in Nat
      OBVIOUS
    <3> QED BY <2>1, <3>1, <3>2, Joined
  <2>2. Len(all) = N /\ DOMAIN all = 1 .. N
    BY <1>2, <2>20
  <2>3. ASSUME NEW i \in 1 .. m PROVE i \in 1 .. N /\ all[i] = used[i]
    <3>1. i \in 1 .. N
      BY <1>2
    <3> QED BY <1>9, <2>20, <3>1
  <2>4. ASSUME NEW j \in 1 .. k PROVE m + j \in 1 .. N /\ all[m + j] = spare[j]
    <3>1. m + j \in 1 .. N
      BY <1>2
    <3> QED BY <1>9, <2>20, <3>1
  <2>5. ASSUME NEW i \in 1 .. N PROVE all[i] \in 1 .. N
    <3>1. CASE i <= m
      <4>1. i \in 1 .. m
        BY <3>1
      <4> QED BY <1>5, <2>3, <4>1
    <3>2. CASE ~(i <= m)
      <4>1. i - m \in 1 .. k /\ m + (i - m) = i
        BY <1>2, <3>2
      <4>2. all[m + (i - m)] = spare[i - m]
        BY <2>4, <4>1
      <4> QED BY <1>5, <4>1, <4>2
    <3> QED BY <3>1, <3>2
  <2>6. ASSUME NEW p \in 1 .. N PROVE \E i \in 1 .. N : all[i] = p
    <3>1. (\E i \in 1 .. m : used[i] = p) \/ (\E j \in 1 .. k : spare[j] = p)
      BY <1>2, <1>4, Zenon DEF Apart
    <3> QED BY <2>3, <2>4, <3>1
  <2>7. Range(all) = 1 .. N
    BY <2>2, <2>5, <2>6 DEF Range
  <2>8. chain # <<>> /\ Last(chain) = used[m]
    <3>1. m \in 1 .. m
      OBVIOUS
    <3>2. chain # <<>> /\ Last(chain) = chain[m]
      BY <1>9 DEF Last
    <3> QED BY <1>9, <3>1, <3>2
  <2>9. used[m] = b.write /\ DOMAIN b.page = 1 .. N
    BY <1>3, <1>4, PageFacts DEF Shared
  <2> QED BY <1>4, <1>6, <1>7, <1>8, <2>1, <2>2, <2>7, <2>8, <2>9 DEF PagesSound
<1>11. PICK segs : segs = [i \in DOMAIN chain |->
                            SubSeq(b.page[chain[i]].data, b.page[chain[i]].rd + 1, b.page[chain[i]].wr)]
  OBVIOUS
<1>12. Content(b) = FlattenSeq(segs)
  BY <1>6, <1>8, <1>11 DEF Content
<1>13. ASSUME NEW i \in 1 .. m
       PROVE  lo[i] <= lo[i + 1] /\ segs[i] = Following(lo[i], lo[i + 1] - lo[i])
  <2>1. PICK p : p = b.page[used[i]]
    OBVIOUS
  <2>2. PICK x \in Nat, y \in Nat : x = lo[i] /\ y = lo[i + 1]
    <3>1. i \in Nat /\ i + 1 \in Nat
      OBVIOUS
    <3> QED BY <3>1
  <2>3. Bears(p, x, y)
    BY <1>3, <2>1, <2>2 DEF Stored
  <2>4. p.data \in [1 .. PageSize -> Nat] /\ p.wr \in Nat /\ p.rd \in Nat
    BY <1>4, <1>5, <2>1, PageFacts
  <2>5. PICK wr \in Nat, rd \in Nat : wr = p.wr /\ rd = p.rd
    BY <2>4
  <2>6. /\ rd <= wr /\ wr <= PageSize /\ y = x + (wr - rd)
        /\ \A j \in rd + 1 .. wr : p.data[j] = x + (j - rd)
    BY <2>3, <2>5 DEF Bears
  <2>7. PICK g \in Nat : g = wr - rd /\ rd + g = wr /\ y - x = g
    <3>1. wr - rd \in Nat /\ rd + (wr - rd) = wr /\ y - x = wr - rd
      BY <2>6
    <3> QED BY <3>1
  <2>8. Numbered(p.data, rd, g, x)
    BY <2>4, <2>6, <2>7 DEF Numbered
  <2>9. SubSeq(p.data, rd + 1, wr) = Following(x, g)
    <3>1. Piece(p.data, rd, g) = Following(x, g)
      BY <2>8, FollowingSub
    <3> QED BY <2>7, <3>1 DEF Piece
  <2>10. segs[i] = SubSeq(p.data, rd + 1, wr)
    BY <1>9, <1>11, <2>1, <2>5
  <2>11. x <= y
    BY <2>7
  <2> QED BY <2>2, <2>7, <2>9, <2>10, <2>11
<1>14. Len(segs) = m
  BY <1>9, <1>11
<1>15. lo[1] <= lo[m + 1] /\ FlattenSeq(segs) = Following(lo[1], lo[m + 1] - lo[1])
  <2>1. Segments(segs, m, lo)
    BY <1>13, <1>14 DEF Segments
  <2> QED BY <2>1, FlattenIs
<1> QED BY <1>3, <1>10, <1>12, <1>15
=============================================================================

--------------------------- MODULE SvfTasks_proofs ---------------------------
(***************************************************************************)
(* Theorems about SvfTasks, for any number of tasks and any programs: the  *)
(* thread manager's linked lists are what they should be and behave as a   *)
(* round robin, and svf_root::run does not return under a working task.    *)
(***************************************************************************)
EXTENDS SvfTasks, Induction, FiniteSetTheorems

-----------------------------------------------------------------------------
(* Sequences, as the provers like them.                                    *)

LEMMA SeqAppend ==
  ASSUME NEW S, NEW s \in Seq(S), NEW e \in S, NEW n \in Nat, n = Len(s), NEW t, t = Append(s, e)
  PROVE  t \in Seq(S) /\ Len(t) = n + 1 /\ t[n + 1] = e /\ \A i \in 1 .. n : t[i] = s[i]
OBVIOUS

LEMMA SeqTail ==
  ASSUME NEW S, NEW s \in Seq(S), NEW n \in Nat, n + 1 = Len(s), NEW t, t = Tail(s)
  PROVE  t \in Seq(S) /\ Len(t) = n /\ \A i \in 1 .. n : t[i] = s[i + 1]
<1>1. s # <<>>
  OBVIOUS
<1> QED BY <1>1

LEMMA NotEmpty == ASSUME NEW S, NEW s \in Seq(S) PROVE s # <<>> <=> Len(s) # 0
OBVIOUS

LEMMA SeqSame ==
  ASSUME NEW S, NEW s \in Seq(S), NEW t \in Seq(S), NEW n \in Nat, Len(s) = n, Len(t) = n,
         \A i \in 1 .. n : s[i] = t[i]
  PROVE  s = t
<1>1. s = [i \in 1 .. n |-> s[i]] /\ t = [i \in 1 .. n |-> t[i]]
  OBVIOUS
<1>2. [i \in 1 .. n |-> s[i]] = [i \in 1 .. n |-> t[i]]
  OBVIOUS
<1> QED BY <1>1, <1>2

-----------------------------------------------------------------------------
(* A list in the manager.                                                  *)

\* s is the threads from head on, along next.
Linked(next, head, s) ==
  /\ head = IF s = <<>> THEN null ELSE s[1]
  /\ \A i \in 1 .. Len(s) : next[s[i]] = IF i < Len(s) THEN s[i + 1] ELSE null

Begin(s, k) == [i \in 1 .. k |-> s[i]]

AtMost(n, k) == IF k <= n THEN k ELSE n

\* One step of the walk of OnList.
WalkOn(next, head, before) ==
  LET link == IF before = <<>> THEN head ELSE next[Last(before)]
  IN  IF link = null THEN before ELSE Append(before, link)

LEMMA WalkIs ==
  ASSUME NEW q, NEW list, NEW s \in Seq(Threads), Linked(q.next, q[list], s),
         NEW N \in Nat, N = Cardinality(Threads), Len(s) <= N
  PROVE  OnList(q, list) = s
<1>1. PICK n \in Nat : n = Len(s) /\ n <= N
  <2>1. Len(s) \in Nat OBVIOUS
  <2> QED BY <2>1
<1>n. PICK next, head : next = q.next /\ head = q[list]
  OBVIOUS
<1>l. /\ head = IF s = <<>> THEN null ELSE s[1]
      /\ \A i \in 1 .. n : next[s[i]] = IF i < n THEN s[i + 1] ELSE null
  BY <1>1, <1>n DEF Linked
<1>t. null \notin Threads
  BY ThreadAssumption DEF Threads
<1> DEFINE To(k) == AtMost(n, k)
           StepTo(before) == WalkOn(next, head, before)
           W == [k \in 0 .. N |-> Begin(s, To(k))]
           Walks(g) == g = [k \in 0 .. N |->
             IF k = 0 THEN <<>>
             ELSE LET before == g[k - 1]
                      link   == IF before = <<>> THEN head ELSE next[Last(before)]
                  IN  IF link = null THEN before ELSE Append(before, link)]
<1>2. OnList(q, list) = (CHOOSE g : Walks(g))[N]
  BY <1>n DEF OnList
<1>3. \A g : Walks(g) <=> g = [k \in 0 .. N |-> IF k = 0 THEN <<>> ELSE StepTo(g[k - 1])]
  BY DEF WalkOn
<1>4. Begin(s, 0) = <<>> BY DEF Begin
<1>5. ASSUME NEW k \in 1 .. N PROVE StepTo(Begin(s, To(k - 1))) = Begin(s, To(k))
  <2>1. CASE k = 1 /\ n > 0
    <3>1. To(k - 1) = 0 /\ To(k) = 1 BY <2>1 DEF AtMost
    <3>2. s # <<>> /\ s[1] \in Threads /\ head = s[1] BY <1>1, <1>l, <2>1
    <3>3. StepTo(<<>>) = Append(<<>>, s[1]) BY <1>t, <3>2 DEF WalkOn
    <3>4. Append(<<>>, s[1]) = Begin(s, 1) BY DEF Begin
    <3> QED BY <1>4, <3>1, <3>3, <3>4
  <2>2. CASE n = 0
    <3>1. To(k - 1) = 0 /\ To(k) = 0 BY <2>2 DEF AtMost
    <3>2. s = <<>> /\ head = null
      <4>1. Len(s) = 0 BY <1>1, <2>2
      <4>2. s = <<>> BY <4>1
      <4> QED BY <1>l, <4>2
    <3>3. StepTo(<<>>) = <<>> BY <3>2 DEF WalkOn
    <3> QED BY <1>4, <3>1, <3>3
  <2>3. CASE k > 1 /\ k <= n
    <3>1. To(k - 1) = k - 1 /\ To(k) = k /\ k - 1 \in 1 .. n /\ (k - 1) + 1 = k /\ k - 1 < n BY <2>3 DEF AtMost
    <3>2. next[s[k - 1]] = s[k] /\ s[k] \in Threads
      <4>1. k \in 1 .. n /\ s[(k - 1) + 1] = s[k] BY <2>3, <3>1
      <4>2. next[s[k - 1]] = s[(k - 1) + 1] BY <1>l, <3>1
      <4>3. s[k] \in Threads BY <1>1, <4>1
      <4> QED BY <4>1, <4>2, <4>3
    <3>3. Begin(s, k - 1) # <<>> /\ Len(Begin(s, k - 1)) = k - 1 /\ Last(Begin(s, k - 1)) = s[k - 1]
      BY <3>1 DEF Begin, Last
    <3>4. StepTo(Begin(s, k - 1)) = Append(Begin(s, k - 1), s[k]) BY <1>t, <3>2, <3>3 DEF WalkOn
    <3>5. Append(Begin(s, k - 1), s[k]) = Begin(s, k) BY <3>1 DEF Begin
    <3> QED BY <3>1, <3>4, <3>5
  <2>4. CASE k > n /\ n > 0
    <3>1. To(k - 1) = n /\ To(k) = n /\ n \in 1 .. n /\ ~(n < n) BY <1>1, <2>4 DEF AtMost
    <3>2. next[s[n]] = null BY <1>l, <3>1
    <3>3. Begin(s, n) # <<>> /\ Last(Begin(s, n)) = s[n] BY <1>1, <2>4 DEF Begin, Last
    <3>4. StepTo(Begin(s, n)) = Begin(s, n) BY <3>2, <3>3 DEF WalkOn
    <3> QED BY <3>1, <3>4
  <2> QED BY <1>1, <2>1, <2>2, <2>3, <2>4
<1>6. To(0) = 0 BY <1>1 DEF AtMost
<1>7. Walks(W)
  <2>1. \A k \in 1 .. N : k - 1 \in 0 .. N /\ W[k - 1] = Begin(s, To(k - 1)) OBVIOUS
  <2>2. \A k \in 0 .. N : Begin(s, To(k)) = IF k = 0 THEN <<>> ELSE StepTo(W[k - 1])
    BY <1>4, <1>5, <1>6, <2>1
  <2>3. W = [k \in 0 .. N |-> IF k = 0 THEN <<>> ELSE StepTo(W[k - 1])] BY <2>2
  <2> QED BY <1>3, <2>3
<1> HIDE DEF Walks
<1>8. PICK g : g = (CHOOSE h : Walks(h)) /\ Walks(g)
  BY <1>7
<1>9. \A k \in 0 .. N : g[k] = IF k = 0 THEN <<>> ELSE StepTo(g[k - 1])
  BY <1>3, <1>8
<1> DEFINE S == {k \in 0 .. N : g[k] = Begin(s, To(k))}
<1>10. 0 \in S BY <1>4, <1>6, <1>9, <1>1
<1>11. ASSUME NEW k \in 0 .. N - 1, k \in S PROVE k + 1 \in S
  <2>1. k + 1 \in 1 .. N /\ (k + 1) - 1 = k OBVIOUS
  <2>2. StepTo(Begin(s, To(k))) = Begin(s, To(k + 1)) BY <1>5, <2>1
  <2>3. g[k + 1] = StepTo(g[k])
    <3>1. k + 1 \in 0 .. N /\ k + 1 # 0 BY <2>1
    <3>2. g[k + 1] = StepTo(g[(k + 1) - 1]) BY <1>9, <3>1
    <3> QED BY <2>1, <3>2
  <2> QED BY <1>11, <2>1, <2>2, <2>3
<1> HIDE DEF S
<1>12. N \in S
  <2>1. N \in Nat /\ N \in 0 .. N BY <1>1
  <2>2. \A k \in 0 .. N : k \in S BY <1>10, <1>11, <2>1, InductionUpTo
  <2> QED BY <2>1, <2>2
<1>13. g[N] = Begin(s, n) BY <1>1, <1>12 DEF S, AtMost
<1>14. Begin(s, n) = s BY <1>1 DEF Begin
<1> QED BY <1>2, <1>8, <1>13, <1>14

-----------------------------------------------------------------------------
(* All lists.  L says which threads are on which, first to last.           *)

\* No thread is on them twice.
Apart(L) ==
  \A l, m \in Lists : \A i \in 1 .. Len(L[l]), j \in 1 .. Len(L[m]) :
    L[l][i] = L[m][j] => l = m /\ i = j

On(L, t) == \E l \in Lists : \E i \in 1 .. Len(L[l]) : t = L[l][i]

Back(prev, s) == \A i \in 1 .. Len(s) : prev[s[i]] = IF i = 1 THEN null ELSE s[i - 1]

\* The link of a thread on no list is clear, but for the running one, which may still
\* point to who came after it.
Clear(q, L, t) ==
  \A u \in Threads :
    ~On(L, u) /\ u # t =>
      q.next[u] = null \/ (u = q.curr /\ (q.next[u] = t \/ On(L, q.next[u])))

\* The manager's lists are L; t is in hand, on none of them, and its links are old.
Sound(q, L, t) ==
  /\ q \in Scheduler /\ L \in [Lists -> Seq(Threads)]
  /\ \A l \in Lists : Linked(q.next, q[l], L[l])
  /\ Apart(L) /\ Back(q.prev, L["blocked"])
  /\ ~On(L, t) /\ Clear(q, L, t)

LEMMA Facts ==
  /\ null \notin Threads /\ main \in Threads /\ Workers \subseteq Threads
  /\ Lists = {"active", "blocked", "terminated"}
BY ThreadAssumption DEF Threads, Lists

\* What append_thread does, last being the last of the list, or null.
Appends(q, r, l, t, last) ==
  /\ r.curr = q.curr
  /\ r.next = [u \in Threads |-> IF u = t THEN null ELSE IF u = last THEN t ELSE q.next[u]]
  /\ r.prev = [u \in Threads |-> IF u = t THEN last ELSE q.prev[u]]
  /\ \A m \in Lists : r[m] = IF m = l /\ last = null THEN t ELSE q[m]

LastOn(s) == IF s = <<>> THEN null ELSE s[Len(s)]

\* The end of the list that thread v is on.
EndOf(L, v) == LET m == CHOOSE l \in Lists : \E i \in 1 .. Len(L[l]) : v = L[l][i]
               IN  L[m][Len(L[m])]

Ends(e, cut) == e = [u \in Threads |-> IF cut[u] = null THEN u ELSE e[cut[u]]]

LEMMA EndOfIs ==
  ASSUME NEW L, Apart(L), NEW l \in Lists, NEW i \in 1 .. Len(L[l])
  PROVE  EndOf(L, L[l][i]) = L[l][Len(L[l])]
<1>1. \A m \in Lists : (\E j \in 1 .. Len(L[m]) : L[l][i] = L[m][j]) => m = l
  BY DEF Apart
<1>2. \E j \in 1 .. Len(L[l]) : L[l][i] = L[l][j]
  OBVIOUS
<1>3. (CHOOSE m \in Lists : \E j \in 1 .. Len(L[m]) : L[l][i] = L[m][j]) = l
  BY <1>1, <1>2
<1> QED BY <1>3 DEF EndOf

\* The walk to the end is defined, and ends there.
LEMMA EndIs ==
  ASSUME NEW q, NEW L, NEW t \in Threads, Sound(q, L, t), NEW l \in Lists, L[l] # <<>>,
         NEW cut, cut = [q.next EXCEPT ![t] = null]
  PROVE  \E e : /\ e = (CHOOSE f : Ends(f, cut))
                /\ e[q[l]] = L[l][Len(L[l])]
<1>1. /\ cut \in [Threads -> Link] /\ cut[t] = null
      /\ \A u \in Threads : u # t => cut[u] = q.next[u]
  BY Facts DEF Sound, Scheduler, Link
<1>2. ASSUME NEW m \in Lists, NEW i \in 1 .. Len(L[m])
      PROVE  /\ L[m][i] \in Threads /\ L[m][i] # t
             /\ cut[L[m][i]] = IF i < Len(L[m]) THEN L[m][i + 1] ELSE null
  <2>1. L[m] \in Seq(Threads) /\ Linked(q.next, q[m], L[m])
    BY DEF Sound
  <2>2. L[m][i] \in Threads
    BY <2>1
  <2>3. L[m][i] # t
    BY DEF Sound, On
  <2>4. q.next[L[m][i]] = IF i < Len(L[m]) THEN L[m][i + 1] ELSE null
    BY <2>1 DEF Linked
  <2> QED BY <1>1, <2>2, <2>3, <2>4
<1>3. PICK z : z = [u \in Threads |-> IF cut[u] = null THEN u
                                      ELSE IF cut[u] = t THEN t ELSE EndOf(L, cut[u])]
  OBVIOUS
<1>4. ASSUME NEW m \in Lists, NEW i \in 1 .. Len(L[m])
      PROVE  z[L[m][i]] = L[m][Len(L[m])]
  <2>0. Len(L[m]) \in Nat /\ Apart(L)
    BY DEF Sound
  <2>1. CASE i = Len(L[m])
    BY <1>2, <1>3, <2>1
  <2>2. CASE i # Len(L[m])
    <3>1. i < Len(L[m]) /\ i + 1 \in 1 .. Len(L[m])
      BY <2>0, <2>2
    <3>2. cut[L[m][i]] = L[m][i + 1] /\ L[m][i] \in Threads
      BY <1>2, <3>1
    <3>3. L[m][i + 1] # t /\ L[m][i + 1] # null
      BY <1>2, <3>1, Facts
    <3>4. EndOf(L, L[m][i + 1]) = L[m][Len(L[m])]
      BY <2>0, <3>1, EndOfIs
    <3> QED BY <1>3, <3>2, <3>3, <3>4
  <2> QED BY <2>1, <2>2
<1>5. ASSUME NEW u \in Threads PROVE z[u] = IF cut[u] = null THEN u ELSE z[cut[u]]
  <2>1. CASE cut[u] = null
    BY <1>3, <2>1
  <2>2. CASE cut[u] = t
    <3>1. z[t] = t /\ z[u] = t /\ t # null
      BY <1>1, <1>3, <2>2, Facts
    <3> QED BY <2>2, <3>1
  <2>3. CASE cut[u] # null /\ cut[u] # t
    <3>1. u # t /\ cut[u] = q.next[u]
      BY <1>1, <2>3
    <3>2. On(L, cut[u])
      <4>1. CASE On(L, u)
        <5>1. PICK m \in Lists : \E i \in 1 .. Len(L[m]) : u = L[m][i]
          BY <4>1 DEF On
        <5>2. PICK i \in 1 .. Len(L[m]) : u = L[m][i]
          BY <5>1
        <5>3. cut[u] = L[m][i + 1] /\ i < Len(L[m])
          BY <1>2, <2>3, <5>2
        <5>4. i + 1 \in 1 .. Len(L[m])
          BY <5>3
        <5> QED BY <5>3, <5>4 DEF On
      <4>2. CASE ~On(L, u)
        BY <2>3, <3>1, <4>2 DEF Sound, Clear
      <4> QED BY <4>1, <4>2
    <3>3. PICK m \in Lists : \E i \in 1 .. Len(L[m]) : cut[u] = L[m][i]
      BY <3>2 DEF On
    <3>4. PICK i \in 1 .. Len(L[m]) : cut[u] = L[m][i]
      BY <3>3
    <3>5. EndOf(L, L[m][i]) = L[m][Len(L[m])]
      BY EndOfIs DEF Sound
    <3>6. z[u] = EndOf(L, cut[u])
      BY <1>3, <2>3
    <3>7. z[L[m][i]] = L[m][Len(L[m])]
      BY <1>4
    <3> QED BY <2>3, <3>4, <3>5, <3>6, <3>7
  <2> QED BY <2>1, <2>2, <2>3
<1>6. Ends(z, cut)
  <2>1. z = [u \in Threads |-> z[u]]
    BY <1>3
  <2> QED BY <1>5, <2>1 DEF Ends
<1>7. PICK e : e = (CHOOSE f : Ends(f, cut)) /\ Ends(e, cut)
  BY <1>6
<1>8. \A u \in Threads : e[u] = IF cut[u] = null THEN u ELSE e[cut[u]]
  BY <1>7 DEF Ends
<1>9. PICK n \in Nat : n = Len(L[l]) /\ n >= 1
  <2>1. L[l] \in Seq(Threads)
    BY DEF Sound
  <2>2. Len(L[l]) \in Nat /\ Len(L[l]) # 0
    BY <2>1
  <2> QED BY <2>2
<1> DEFINE S == {k \in 0 .. n - 1 : e[L[l][n - k]] = L[l][n]}
<1>10. 0 \in S
  <2>1. n \in 1 .. Len(L[l]) /\ n - 0 = n /\ 0 \in 0 .. n - 1
    BY <1>9
  <2>2. cut[L[l][n]] = null /\ L[l][n] \in Threads
    BY <1>2, <1>9, <2>1
  <2> QED BY <1>8, <2>1, <2>2
<1>11. ASSUME NEW k \in 0 .. (n - 1) - 1, k \in S PROVE k + 1 \in S
  <2>1. PICK i \in Nat : i = n - (k + 1) /\ i >= 1 /\ i < n /\ i + 1 = n - k
    <3>1. n - (k + 1) \in Nat /\ n - (k + 1) >= 1
      BY <1>9
    <3>2. n - (k + 1) < n /\ (n - (k + 1)) + 1 = n - k
      BY <1>9
    <3> QED BY <3>1, <3>2
  <2>2. i \in 1 .. Len(L[l]) /\ i + 1 \in 1 .. Len(L[l])
    BY <1>9, <2>1
  <2>3. cut[L[l][i]] = L[l][i + 1] /\ L[l][i] \in Threads /\ L[l][i + 1] # null
    BY <1>2, <1>9, <2>1, <2>2, Facts
  <2>4. e[L[l][i]] = e[L[l][i + 1]]
    BY <1>8, <2>3
  <2>5. e[L[l][n - k]] = L[l][n] /\ k + 1 \in 0 .. n - 1
    BY <1>11
  <2> QED BY <2>1, <2>4, <2>5
<1>12. n - 1 \in S
  <2> HIDE DEF S
  <2>1. n - 1 \in Nat /\ n - 1 \in 0 .. n - 1
    BY <1>9
  <2>2. \A k \in 0 .. n - 1 : k \in S
    BY <1>10, <1>11, <2>1, InductionUpTo
  <2> QED BY <2>1, <2>2
<1>13. n - (n - 1) = 1
  BY <1>9
<1>14. e[L[l][1]] = L[l][n]
  BY <1>12, <1>13
<1>15. q[l] = L[l][1]
  BY DEF Sound, Linked
<1> QED BY <1>7, <1>9, <1>14, <1>15

LEMMA AppendIs ==
  ASSUME NEW q, NEW L, NEW t \in Threads, Sound(q, L, t), NEW l \in Lists
  PROVE  /\ AppendThread(q, l, t) \in Scheduler
         /\ Appends(q, AppendThread(q, l, t), l, t, LastOn(L[l]))
<1>1. /\ q \in Scheduler /\ q.next \in [Threads -> Link] /\ q.prev \in [Threads -> Link]
      /\ q.curr \in Threads
  BY DEF Sound, Scheduler
<1>2. L[l] \in Seq(Threads) /\ Linked(q.next, q[l], L[l])
  BY DEF Sound
<1>t. t \in Link /\ null \in Link /\ null \notin Threads /\ t # null
  BY Facts DEF Link
<1>3. PICK cut : cut = [q.next EXCEPT ![t] = null]
  OBVIOUS
<1>4. cut \in [Threads -> Link] /\ \A u \in Threads : cut[u] = IF u = t THEN null ELSE q.next[u]
  BY <1>1, <1>3, <1>t
<1>5. CASE L[l] = <<>>
  <2>1. q[l] = null /\ LastOn(L[l]) = null
    BY <1>2, <1>5 DEF Linked, LastOn
  <2>2. PICK r : r = [q EXCEPT !.next = cut, !.prev[t] = null, ![l] = t]
    OBVIOUS
  <2>3. AppendThread(q, l, t) = r
    BY <1>3, <2>1, <2>2 DEF AppendThread
  <2>4. /\ r \in Scheduler /\ r.curr = q.curr /\ r.next = cut
        /\ r.prev = [q.prev EXCEPT ![t] = null]
        /\ \A m \in Lists : r[m] = IF m = l THEN t ELSE q[m]
    <3>1. CASE l = "active"
      BY <1>1, <1>4, <1>t, <2>2, <3>1 DEF Scheduler, Lists
    <3>2. CASE l = "blocked"
      BY <1>1, <1>4, <1>t, <2>2, <3>2 DEF Scheduler, Lists
    <3>3. CASE l = "terminated"
      BY <1>1, <1>4, <1>t, <2>2, <3>3 DEF Scheduler, Lists
    <3> QED BY <3>1, <3>2, <3>3 DEF Lists
  <2>5. r.next = [u \in Threads |-> IF u = t THEN null ELSE IF u = null THEN t ELSE q.next[u]]
    BY <1>1, <1>3, <1>t, <2>4
  <2>6. r.prev = [u \in Threads |-> IF u = t THEN null ELSE q.prev[u]]
    BY <1>1, <2>4
  <2> QED BY <2>1, <2>3, <2>4, <2>5, <2>6 DEF Appends
<1>6. CASE L[l] # <<>>
  <2>1. PICK last \in Threads : last = L[l][Len(L[l])] /\ last # t
    <3>1. Len(L[l]) \in 1 .. Len(L[l])
      BY <1>2, <1>6
    <3>2. L[l][Len(L[l])] \in Threads
      BY <1>2, <3>1
    <3>3. L[l][Len(L[l])] # t
      BY <3>1 DEF Sound, On
    <3> QED BY <3>2, <3>3
  <2>2. q[l] # null /\ LastOn(L[l]) = last
    <3>1. L[l][1] \in Threads /\ q[l] = L[l][1]
      BY <1>2, <1>6 DEF Linked
    <3> QED BY <1>6, <1>t, <2>1, <3>1 DEF LastOn
  <2>3. PICK e : e = (CHOOSE f : Ends(f, cut)) /\ e[q[l]] = last
    BY <1>3, <1>6, <2>1, EndIs
  <2>4. PICK r : r = [q EXCEPT !.next = [cut EXCEPT ![last] = t], !.prev[t] = last]
    OBVIOUS
  <2>5. AppendThread(q, l, t) = r
    <3>1. AppendThread(q, l, t) =
            LET end == CHOOSE f : Ends(f, cut)
                lst == end[q[l]]
            IN  [q EXCEPT !.next = [cut EXCEPT ![lst] = t], !.prev[t] = lst]
      BY <1>3, <2>2 DEF AppendThread, Ends
    <3> QED BY <2>3, <2>4, <3>1
  <2>6. /\ r \in Scheduler /\ r.curr = q.curr /\ r.next = [cut EXCEPT ![last] = t]
        /\ r.prev = [q.prev EXCEPT ![t] = last]
        /\ \A m \in Lists : r[m] = q[m]
    BY <1>1, <1>4, <1>t, <2>1, <2>4 DEF Scheduler, Lists, Link
  <2>7. r.next = [u \in Threads |-> IF u = t THEN null ELSE IF u = last THEN t ELSE q.next[u]]
    BY <1>1, <1>3, <1>t, <2>1, <2>6
  <2>8. r.prev = [u \in Threads |-> IF u = t THEN last ELSE q.prev[u]]
    BY <1>1, <2>6
  <2>9. last # null
    BY <1>t, <2>1
  <2> QED BY <2>2, <2>5, <2>6, <2>7, <2>8, <2>9 DEF Appends
<1> QED BY <1>5, <1>6

\* Thread t comes to the end of list l.
Appended(L, l, t) == [L EXCEPT ![l] = Append(L[l], t)]

Longer(L, K, l, t, n) ==
  /\ K \in [Lists -> Seq(Threads)]
  /\ Len(K[l]) = n + 1 /\ K[l][n + 1] = t
  /\ \A i \in 1 .. n : K[l][i] = L[l][i]
  /\ \A m \in Lists : m # l => K[m] = L[m]
  /\ \A u : On(K, u) <=> On(L, u) \/ u = t

LEMMA AppendedFacts ==
  ASSUME NEW L \in [Lists -> Seq(Threads)], NEW l \in Lists, NEW t \in Threads,
         NEW n \in Nat, n = Len(L[l])
  PROVE  Longer(L, Appended(L, l, t), l, t, n)
<1>0. PICK K : K = Appended(L, l, t)
  OBVIOUS
<1>1. PICK s \in Seq(Threads) : s = Append(L[l], t)
  <2>1. L[l] \in Seq(Threads)
    OBVIOUS
  <2>2. Append(L[l], t) \in Seq(Threads)
    BY <2>1
  <2> QED BY <2>2
<1>2. Len(s) = n + 1 /\ s[n + 1] = t /\ \A i \in 1 .. n : s[i] = L[l][i]
  BY <1>1, SeqAppend
<1>3. K[l] = s /\ K \in [Lists -> Seq(Threads)] /\ \A m \in Lists : m # l => K[m] = L[m]
  BY <1>0, <1>1 DEF Appended
<1>4. ASSUME NEW u, On(L, u) PROVE On(K, u)
  <2>1. PICK m \in Lists : \E i \in 1 .. Len(L[m]) : u = L[m][i]
    BY <1>4 DEF On
  <2>2. PICK i \in 1 .. Len(L[m]) : u = L[m][i]
    BY <2>1
  <2>3. i \in 1 .. Len(K[m]) /\ K[m][i] = u
    <3>1. CASE m = l
      <4>1. i \in 1 .. n /\ i \in 1 .. n + 1
        BY <2>2, <3>1
      <4> QED BY <1>2, <1>3, <2>2, <3>1, <4>1
    <3>2. CASE m # l
      BY <1>3, <2>2, <3>2
    <3> QED BY <3>1, <3>2
  <2> QED BY <2>3 DEF On
<1>5. On(K, t)
  <2>1. n + 1 \in 1 .. Len(K[l])
    BY <1>2, <1>3
  <2> QED BY <1>2, <1>3, <2>1 DEF On
<1>6. ASSUME NEW u, On(K, u) PROVE On(L, u) \/ u = t
  <2>1. PICK m \in Lists : \E i \in 1 .. Len(K[m]) : u = K[m][i]
    BY <1>6 DEF On
  <2>2. PICK i \in 1 .. Len(K[m]) : u = K[m][i]
    BY <2>1
  <2>3. CASE m = l /\ i = n + 1
    BY <1>2, <1>3, <2>2, <2>3
  <2>4. CASE m # l
    BY <1>3, <2>2, <2>4 DEF On
  <2>5. CASE m = l /\ i # n + 1
    <3>1. i \in 1 .. n
      BY <1>2, <1>3, <2>5
    <3> QED BY <1>2, <1>3, <2>2, <2>5, <3>1 DEF On
  <2> QED BY <2>3, <2>4, <2>5
<1> QED BY <1>0, <1>2, <1>3, <1>4, <1>5, <1>6 DEF Longer

LEMMA AppendSound ==
  ASSUME NEW q, NEW L, NEW t \in Threads, Sound(q, L, t), NEW l \in Lists
  PROVE  /\ Sound(AppendThread(q, l, t), Appended(L, l, t), null)
         /\ AppendThread(q, l, t).curr = q.curr
<1>1. PICK r \in Scheduler, last \in Link :
        r = AppendThread(q, l, t) /\ last = LastOn(L[l]) /\ Appends(q, r, l, t, last)
  <2>1. LastOn(L[l]) \in Link
    <3>1. L[l] \in Seq(Threads)
      BY DEF Sound
    <3>2. L[l] # <<>> => L[l][Len(L[l])] \in Threads
      BY <3>1
    <3> QED BY <3>2 DEF LastOn, Link
  <2> QED BY <2>1, AppendIs
<1>2. PICK n \in Nat : n = Len(L[l])
  <2>1. L[l] \in Seq(Threads)
    BY DEF Sound
  <2> QED BY <2>1
<1>3. L \in [Lists -> Seq(Threads)]
  BY DEF Sound
<1>4. PICK K \in [Lists -> Seq(Threads)] :
        /\ K = Appended(L, l, t)
        /\ Len(K[l]) = n + 1 /\ K[l][n + 1] = t
        /\ \A i \in 1 .. n : K[l][i] = L[l][i]
        /\ \A m \in Lists : m # l => K[m] = L[m]
        /\ \A u : On(K, u) <=> On(L, u) \/ u = t
  <2>1. PICK K : K = Appended(L, l, t)
    OBVIOUS
  <2>2. Longer(L, K, l, t, n)
    BY <1>2, <1>3, <2>1, AppendedFacts
  <2> QED BY <2>1, <2>2 DEF Longer
<1>5. last = IF n = 0 THEN null ELSE L[l][n]
  BY <1>1, <1>2, <1>3 DEF LastOn
<1>6. /\ r.curr = q.curr
      /\ \A u \in Threads : r.next[u] = IF u = t THEN null ELSE IF u = last THEN t ELSE q.next[u]
      /\ \A u \in Threads : r.prev[u] = IF u = t THEN last ELSE q.prev[u]
      /\ \A m \in Lists : r[m] = IF m = l /\ last = null THEN t ELSE q[m]
  BY <1>1 DEF Appends
<1>7. ASSUME NEW m \in Lists, NEW i \in 1 .. Len(L[m])
      PROVE  /\ L[m][i] \in Threads /\ L[m][i] # t
             /\ q.next[L[m][i]] = IF i < Len(L[m]) THEN L[m][i + 1] ELSE null
             /\ L[m][i] = last => m = l /\ i = n
  <2>1. L[m][i] \in Threads
    BY <1>3
  <2>2. L[m][i] # t
    BY DEF Sound, On
  <2>3. q.next[L[m][i]] = IF i < Len(L[m]) THEN L[m][i + 1] ELSE null
    BY DEF Sound, Linked
  <2>4. ASSUME L[m][i] = last PROVE m = l /\ i = n
    <3>1. last = L[l][n] /\ n \in 1 .. Len(L[l])
      BY <1>2, <1>5, <2>1, <2>4, Facts
    <3> QED BY <2>4, <3>1 DEF Sound, Apart
  <2> QED BY <2>1, <2>2, <2>3, <2>4
<1>8. ASSUME NEW m \in Lists PROVE Linked(r.next, r[m], K[m])
  <2>1. CASE m # l
    <3>1. K[m] = L[m] /\ r[m] = q[m]
      BY <1>4, <1>6, <2>1
    <3>2. \A i \in 1 .. Len(L[m]) : r.next[L[m][i]] = q.next[L[m][i]]
      BY <1>6, <1>7, <2>1
    <3>3. Linked(q.next, q[m], L[m])
      BY DEF Sound
    <3> QED BY <3>1, <3>2, <3>3 DEF Linked
  <2>2. CASE m = l
    <3>1. r[l] = K[l][1] /\ K[l] # <<>>
      <4>1. CASE n = 0
        <5>1. n + 1 = 1 /\ last = null
          BY <1>5, <4>1
        <5>2. Len(K[l]) = 1 /\ K[l][1] = t /\ r[l] = t
          BY <1>4, <1>6, <5>1
        <5>3. K[l] # <<>>
          <6>1. K[l] \in Seq(Threads) /\ Len(K[l]) # 0
            BY <5>2
          <6> QED BY <6>1, NotEmpty
        <5> QED BY <5>2, <5>3
      <4>2. CASE n # 0
        <5>1. 1 \in 1 .. n /\ L[l] # <<>> /\ L[l][n] \in Threads
          BY <1>2, <1>3, <4>2
        <5>2. q[l] = L[l][1] /\ last # null
          BY <1>5, <4>2, <5>1, Facts DEF Sound, Linked
        <5> QED BY <1>4, <1>6, <5>1, <5>2
      <4> QED BY <4>1, <4>2
    <3>2. ASSUME NEW i \in 1 .. n + 1
          PROVE  r.next[K[l][i]] = IF i < n + 1 THEN K[l][i + 1] ELSE null
      <4>1. CASE i = n + 1
        BY <1>4, <1>6, <4>1
      <4>2. CASE i = n
        <5>1. i \in 1 .. n /\ K[l][i] = L[l][n] /\ last = L[l][n]
          BY <1>4, <1>5, <4>2
        <5>2. K[l][i] \in Threads /\ K[l][i] # t /\ K[l][i + 1] = t
          BY <1>2, <1>4, <1>7, <4>2, <5>1
        <5> QED BY <1>6, <4>2, <5>1, <5>2
      <4>3. CASE i < n
        <5>1. i \in 1 .. n /\ i + 1 \in 1 .. n
          BY <4>3
        <5>2. L[l][i] \in Threads /\ L[l][i] # t /\ L[l][i] # last /\ q.next[L[l][i]] = L[l][i + 1]
          BY <1>2, <1>7, <4>3, <5>1
        <5> QED BY <1>4, <1>6, <4>3, <5>1, <5>2
      <4> QED BY <4>1, <4>2, <4>3
    <3> QED BY <1>4, <2>2, <3>1, <3>2 DEF Linked
  <2> QED BY <2>1, <2>2
<1>9. Apart(K)
  <2> SUFFICES ASSUME NEW m \in Lists, NEW o \in Lists,
                      NEW i \in 1 .. Len(K[m]), NEW j \in 1 .. Len(K[o]), K[m][i] = K[o][j]
               PROVE  m = o /\ i = j
    BY DEF Apart
  <2>1. \A p \in Lists : \A k \in 1 .. Len(K[p]) :
          \/ p = l /\ k = n + 1 /\ K[p][k] = t
          \/ k \in 1 .. Len(L[p]) /\ K[p][k] = L[p][k]
    BY <1>2, <1>4
  <2>2. \A p \in Lists : \A k \in 1 .. Len(L[p]) : L[p][k] # t
    BY <1>7
  <2>3. \/ m = l /\ i = n + 1 /\ K[m][i] = t
        \/ i \in 1 .. Len(L[m]) /\ K[m][i] = L[m][i]
    BY <2>1
  <2>4. \/ o = l /\ j = n + 1 /\ K[o][j] = t
        \/ j \in 1 .. Len(L[o]) /\ K[o][j] = L[o][j]
    BY <2>1
  <2>5. CASE i \in 1 .. Len(L[m]) /\ j \in 1 .. Len(L[o]) /\ L[m][i] = L[o][j]
    BY <2>5 DEF Sound, Apart
  <2> QED BY <2>2, <2>3, <2>4, <2>5
<1>10. Back(r.prev, K["blocked"])
  <2>0. "blocked" \in Lists /\ Back(q.prev, L["blocked"])
    BY DEF Lists, Sound
  <2>1. CASE l # "blocked"
    <3>1. K["blocked"] = L["blocked"]
      BY <1>4, <2>0, <2>1
    <3>2. \A i \in 1 .. Len(L["blocked"]) : r.prev[L["blocked"][i]] = q.prev[L["blocked"][i]]
      BY <1>6, <1>7, <2>0
    <3> QED BY <2>0, <3>1, <3>2 DEF Back
  <2>2. CASE l = "blocked"
    <3>1. ASSUME NEW i \in 1 .. n + 1 PROVE r.prev[K[l][i]] = IF i = 1 THEN null ELSE K[l][i - 1]
      <4>1. CASE i = n + 1
        <5>1. r.prev[K[l][i]] = last
          BY <1>4, <1>6, <4>1
        <5>2. n # 0 => n \in 1 .. n /\ i - 1 = n
          BY <4>1
        <5> QED BY <1>4, <1>5, <4>1, <5>1, <5>2
      <4>2. CASE i # n + 1
        <5>1. i \in 1 .. n /\ (i # 1 => i - 1 \in 1 .. n)
          BY <4>2
        <5>2. L[l][i] \in Threads /\ L[l][i] # t
          BY <1>2, <1>7, <5>1
        <5>3. q.prev[L[l][i]] = IF i = 1 THEN null ELSE L[l][i - 1]
          BY <1>2, <2>0, <2>2, <5>1 DEF Back
        <5> QED BY <1>4, <1>6, <5>1, <5>2, <5>3
      <4> QED BY <4>1, <4>2
    <3> QED BY <1>4, <2>2, <3>1 DEF Back
  <2> QED BY <2>1, <2>2
<1>11. ~On(K, null)
  <2>1. ~On(L, null)
    BY <1>7, Facts DEF On
  <2> QED BY <1>4, <2>1, Facts
<1>12. Clear(r, K, null)
  <2> SUFFICES ASSUME NEW u \in Threads, ~On(K, u)
               PROVE  r.next[u] = null \/ (u = r.curr /\ On(K, r.next[u]))
    BY DEF Clear
  <2>1. u # t /\ ~On(L, u)
    BY <1>4
  <2>2. u # last
    <3>1. n # 0 => n \in 1 .. Len(L[l])
      BY <1>2
    <3> QED BY <1>5, <2>1, <3>1, Facts DEF On
  <2>3. r.next[u] = q.next[u]
    BY <1>6, <2>1, <2>2
  <2>4. q.next[u] = null \/ (u = q.curr /\ (q.next[u] = t \/ On(L, q.next[u])))
    BY <2>1 DEF Sound, Clear
  <2> QED BY <1>4, <1>6, <2>3, <2>4
<1> QED BY <1>1, <1>4, <1>6, <1>8, <1>9, <1>10, <1>11, <1>12 DEF Sound

\* next_thread: the first of the active list runs.
Switched(L) == [L EXCEPT !["active"] = Tail(L["active"])]

Shorter(L, K, t, n) ==
  /\ K \in [Lists -> Seq(Threads)]
  /\ Len(K["active"]) = n /\ L["active"][1] = t
  /\ \A i \in 1 .. n : K["active"][i] = L["active"][i + 1]
  /\ \A m \in Lists : m # "active" => K[m] = L[m]
  /\ \A u : On(L, u) <=> On(K, u) \/ u = t

LEMMA SwitchedFacts ==
  ASSUME NEW L \in [Lists -> Seq(Threads)], NEW n \in Nat, n + 1 = Len(L["active"]), NEW t,
         t = L["active"][1]
  PROVE  Shorter(L, Switched(L), t, n)
<1>0. PICK K : K = Switched(L)
  OBVIOUS
<1>l. "active" \in Lists
  BY Facts
<1>1. PICK s \in Seq(Threads) : s = L["active"]
  BY <1>l
<1>2. PICK r \in Seq(Threads) : r = Tail(s) /\ Len(r) = n /\ \A i \in 1 .. n : r[i] = s[i + 1]
  <2>1. Tail(s) \in Seq(Threads) /\ Len(Tail(s)) = n /\ \A i \in 1 .. n : Tail(s)[i] = s[i + 1]
    BY <1>1, SeqTail
  <2> QED BY <2>1
<1>3. K["active"] = r /\ K \in [Lists -> Seq(Threads)] /\ \A m \in Lists : m # "active" => K[m] = L[m]
  BY <1>0, <1>1, <1>2, <1>l DEF Switched
<1>4. ASSUME NEW u, On(K, u) PROVE On(L, u)
  <2>1. PICK m \in Lists : \E i \in 1 .. Len(K[m]) : u = K[m][i]
    BY <1>4 DEF On
  <2>2. PICK i \in 1 .. Len(K[m]) : u = K[m][i]
    BY <2>1
  <2>3. CASE m = "active"
    <3>1. i \in 1 .. n /\ i + 1 \in 1 .. n + 1
      BY <1>2, <1>3, <2>2, <2>3
    <3>2. u = L["active"][i + 1] /\ i + 1 \in 1 .. Len(L["active"])
      BY <1>1, <1>2, <1>3, <2>2, <2>3, <3>1
    <3> QED BY <1>l, <3>2 DEF On
  <2>4. CASE m # "active"
    BY <1>3, <2>2, <2>4 DEF On
  <2> QED BY <2>3, <2>4
<1>5. On(L, t)
  <2>1. 1 \in 1 .. Len(L["active"])
    OBVIOUS
  <2> QED BY <1>l, <2>1 DEF On
<1>6. ASSUME NEW u, On(L, u) PROVE On(K, u) \/ u = t
  <2>1. PICK m \in Lists : \E i \in 1 .. Len(L[m]) : u = L[m][i]
    BY <1>6 DEF On
  <2>2. PICK i \in 1 .. Len(L[m]) : u = L[m][i]
    BY <2>1
  <2>3. CASE m = "active" /\ i = 1
    BY <2>2, <2>3
  <2>4. CASE m # "active"
    BY <1>3, <2>2, <2>4 DEF On
  <2>5. CASE m = "active" /\ i # 1
    <3>1. i - 1 \in 1 .. n /\ (i - 1) + 1 = i
      BY <2>2, <2>5
    <3>2. u = K["active"][i - 1] /\ i - 1 \in 1 .. Len(K["active"])
      BY <1>1, <1>2, <1>3, <2>2, <2>5, <3>1
    <3> QED BY <1>l, <3>2 DEF On
  <2> QED BY <2>3, <2>4, <2>5
<1> QED BY <1>0, <1>2, <1>1, <1>3, <1>4, <1>5, <1>6 DEF Shorter

\* The thread that ran is in hand, or already on a list.
LEMMA SwitchSound ==
  ASSUME NEW q, NEW L, NEW t, Sound(q, L, t), L["active"] # <<>>, q.curr = t \/ On(L, q.curr)
  PROVE  /\ Sound(Switch(q), Switched(L), t)
         /\ Switch(q).curr = L["active"][1]
         /\ ~On(Switched(L), L["active"][1])
<1>l. "active" \in Lists /\ "blocked" \in Lists /\ L \in [Lists -> Seq(Threads)] /\ q \in Scheduler
  BY Facts DEF Sound
<1>1. PICK n \in Nat : n + 1 = Len(L["active"])
  <2>1. L["active"] \in Seq(Threads)
    BY <1>l
  <2>2. Len(L["active"]) - 1 \in Nat /\ (Len(L["active"]) - 1) + 1 = Len(L["active"])
    BY <2>1
  <2> QED BY <2>2
<1>2. PICK h \in Threads : h = L["active"][1] /\ q.active = h /\ h # t
  <2>1. 1 \in 1 .. Len(L["active"]) /\ L["active"] \in Seq(Threads)
    BY <1>1, <1>l
  <2>2. L["active"][1] \in Threads
    BY <2>1
  <2>3. q["active"] = L["active"][1]
    BY <1>l DEF Sound, Linked
  <2>4. L["active"][1] # t
    BY <1>l, <2>1 DEF Sound, On
  <2> QED BY <2>2, <2>3, <2>4
<1>3. PICK K \in [Lists -> Seq(Threads)] : K = Switched(L) /\ Shorter(L, K, h, n)
  <2>1. Shorter(L, Switched(L), h, n)
    BY <1>1, <1>2, <1>l, SwitchedFacts
  <2> QED BY <2>1 DEF Shorter
<1>4. /\ Len(K["active"]) = n
      /\ \A i \in 1 .. n : K["active"][i] = L["active"][i + 1]
      /\ \A m \in Lists : m # "active" => K[m] = L[m]
      /\ \A u : On(L, u) <=> On(K, u) \/ u = h
  BY <1>3 DEF Shorter
<1>5. PICK r : r = Switch(q)
  OBVIOUS
<1>6. r = [q EXCEPT !.curr = h, !.active = q.next[h]]
  BY <1>2, <1>5, Facts DEF Switch
<1>7. q.next[h] = IF n = 0 THEN null ELSE L["active"][2]
  <2>1. 1 \in 1 .. Len(L["active"]) /\ (1 < Len(L["active"]) <=> n # 0)
    BY <1>1
  <2>2. q.next[L["active"][1]] = IF 1 < Len(L["active"]) THEN L["active"][1 + 1] ELSE null
    BY <1>l, <2>1 DEF Sound, Linked
  <2>3. 1 + 1 = 2
    OBVIOUS
  <2> QED BY <1>2, <2>1, <2>2, <2>3
<1>8. /\ r \in Scheduler /\ r.curr = h /\ r.next = q.next /\ r.prev = q.prev
      /\ r["active"] = q.next[h] /\ \A m \in Lists : m # "active" => r[m] = q[m]
  <2>1. q.next[h] \in Link
    BY <1>2, <1>l DEF Scheduler
  <2> QED BY <1>2, <1>6, <1>l, <2>1 DEF Scheduler, Lists
<1>9. ~On(K, h)
  <2> SUFFICES ASSUME NEW m \in Lists, NEW i \in 1 .. Len(K[m]), h = K[m][i] PROVE FALSE
    BY DEF On
  <2>1. CASE m = "active"
    <3>1. i + 1 \in 1 .. Len(L["active"]) /\ 1 \in 1 .. Len(L["active"]) /\ i \in 1 .. n /\ i + 1 # 1
      BY <1>1, <1>4, <2>1
    <3>2. L["active"][1] = L["active"][i + 1]
      BY <1>2, <1>4, <2>1, <3>1
    <3> QED BY <1>l, <3>1, <3>2 DEF Sound, Apart
  <2>2. CASE m # "active"
    <3>0. 1 \in 1 .. Len(L["active"]) /\ K[m] = L[m]
      BY <1>1, <1>4, <2>2
    <3>1. 1 \in 1 .. Len(L["active"]) /\ i \in 1 .. Len(L[m]) /\ L["active"][1] = L[m][i]
      BY <1>2, <3>0
    <3> QED BY <1>l, <2>2, <3>1 DEF Sound, Apart
  <2> QED BY <2>1, <2>2
<1>10. ASSUME NEW m \in Lists PROVE Linked(r.next, r[m], K[m])
  <2>1. Linked(q.next, q[m], L[m])
    BY DEF Sound
  <2>2. CASE m # "active"
    BY <1>4, <1>8, <2>1, <2>2
  <2>3. CASE m = "active"
    <3>1. r["active"] = IF K["active"] = <<>> THEN null ELSE K["active"][1]
      <4>1. CASE n = 0
        <5>1. PICK s \in Seq(Threads) : s = K["active"]
          BY <1>l
        <5>2. s = <<>>
          BY <1>4, <4>1, <5>1
        <5> QED BY <1>7, <1>8, <4>1, <5>1, <5>2
      <4>2. CASE n # 0
        <5>1. PICK s \in Seq(Threads) : s = K["active"]
          BY <1>l
        <5>2. s # <<>> /\ 1 \in 1 .. n /\ 1 + 1 = 2
          BY <1>4, <4>2, <5>1
        <5>3. K["active"][1] = L["active"][1 + 1]
          BY <1>4, <5>2
        <5> QED BY <1>7, <1>8, <4>2, <5>1, <5>2, <5>3
      <4> QED BY <4>1, <4>2
    <3>2. ASSUME NEW i \in 1 .. n
          PROVE  q.next[K["active"][i]] = IF i < n THEN K["active"][i + 1] ELSE null
      <4>1. i + 1 \in 1 .. Len(L["active"]) /\ (i + 1 < Len(L["active"]) <=> i < n)
        BY <1>1
      <4>2. q.next[L["active"][i + 1]] =
              IF i + 1 < Len(L["active"]) THEN L["active"][(i + 1) + 1] ELSE null
        BY <2>1, <2>3, <4>1 DEF Linked
      <4>3. i < n => i + 1 \in 1 .. n
        OBVIOUS
      <4> QED BY <1>4, <4>1, <4>2, <4>3
    <3> QED BY <1>4, <1>8, <2>3, <3>1, <3>2 DEF Linked
  <2> QED BY <2>2, <2>3
<1>11. Apart(K)
  <2> SUFFICES ASSUME NEW m \in Lists, NEW o \in Lists,
                      NEW i \in 1 .. Len(K[m]), NEW j \in 1 .. Len(K[o]), K[m][i] = K[o][j]
               PROVE  m = o /\ i = j
    BY DEF Apart
  <2>1. ASSUME NEW p \in Lists, NEW k \in 1 .. Len(K[p])
        PROVE  \E x \in 1 .. Len(L[p]) : /\ K[p][k] = L[p][x]
                                         /\ x = IF p = "active" THEN k + 1 ELSE k
    <3>1. CASE p = "active"
      <4>1. k \in 1 .. n /\ k + 1 \in 1 .. Len(L[p])
        BY <1>1, <1>4, <3>1
      <4> QED BY <1>4, <3>1, <4>1
    <3>2. CASE p # "active"
      BY <1>4, <3>2
    <3> QED BY <3>1, <3>2
  <2>2. PICK x \in 1 .. Len(L[m]) : K[m][i] = L[m][x] /\ x = IF m = "active" THEN i + 1 ELSE i
    BY <2>1
  <2>3. PICK y \in 1 .. Len(L[o]) : K[o][j] = L[o][y] /\ y = IF o = "active" THEN j + 1 ELSE j
    BY <2>1
  <2>4. Apart(L) /\ L[m][x] = L[o][y]
    BY <2>2, <2>3 DEF Sound
  <2>5. m = o /\ x = y
    BY <2>4 DEF Apart
  <2> QED BY <2>2, <2>3, <2>5
<1>12. Back(r.prev, K["blocked"]) /\ ~On(K, t)
  BY <1>4, <1>8, <1>l DEF Sound
<1>13. Clear(r, K, t)
  <2> SUFFICES ASSUME NEW u \in Threads, ~On(K, u), u # t
               PROVE  r.next[u] = null \/ (u = r.curr /\ (r.next[u] = t \/ On(K, r.next[u])))
    BY DEF Clear
  <2>1. CASE u = h
    <3>1. n # 0 => On(K, q.next[h])
      <4> SUFFICES ASSUME n # 0 PROVE On(K, q.next[h])
        OBVIOUS
      <4>1. 1 \in 1 .. n /\ 1 + 1 = 2
        OBVIOUS
      <4>2. K["active"][1] = L["active"][1 + 1] /\ 1 \in 1 .. Len(K["active"])
        BY <1>4, <4>1
      <4>3. q.next[h] = K["active"][1]
        BY <1>7, <4>1, <4>2
      <4> QED BY <1>l, <4>2, <4>3 DEF On
    <3> QED BY <1>7, <1>8, <2>1, <3>1
  <2>2. CASE u # h
    <3>1. ~On(L, u) /\ u # q.curr
      BY <1>4, <2>2
    <3> QED BY <1>8, <3>1 DEF Sound, Clear
  <2> QED BY <2>1, <2>2
<1> QED BY <1>2, <1>3, <1>5, <1>8, <1>9, <1>10, <1>11, <1>12, <1>13 DEF Sound

\* The thread at place k of the blocked list is taken off.
Without(s, k) == [i \in 1 .. Len(s) - 1 |-> IF i < k THEN s[i] ELSE s[i + 1]]
Unlinked(L, k) == [L EXCEPT !["blocked"] = Without(L["blocked"], k)]

Fewer(L, K, k, n) ==
  /\ K \in [Lists -> Seq(Threads)]
  /\ Len(K["blocked"]) = n
  /\ \A i \in 1 .. n : K["blocked"][i] = IF i < k THEN L["blocked"][i] ELSE L["blocked"][i + 1]
  /\ \A m \in Lists : m # "blocked" => K[m] = L[m]
  /\ \A u : On(L, u) <=> On(K, u) \/ u = L["blocked"][k]

LEMMA UnlinkedFacts ==
  ASSUME NEW L \in [Lists -> Seq(Threads)], NEW n \in Nat, n + 1 = Len(L["blocked"]),
         NEW k \in 1 .. n + 1
  PROVE  Fewer(L, Unlinked(L, k), k, n)
<1>0. PICK K : K = Unlinked(L, k)
  OBVIOUS
<1>l. "blocked" \in Lists
  BY Facts
<1>1. PICK s \in Seq(Threads) : s = L["blocked"] /\ Len(s) = n + 1
  BY <1>l
<1>2. PICK r \in Seq(Threads) : r = Without(s, k) /\ Len(r) = n
                                /\ \A i \in 1 .. n : r[i] = IF i < k THEN s[i] ELSE s[i + 1]
  <2>1. PICK r : r = Without(s, k)
    OBVIOUS
  <2>2. (n + 1) - 1 = n
    OBVIOUS
  <2>3. r = [i \in 1 .. n |-> IF i < k THEN s[i] ELSE s[i + 1]]
    BY <1>1, <2>1, <2>2 DEF Without
  <2>4. \A i \in 1 .. n : s[i] \in Threads /\ s[i + 1] \in Threads
    BY <1>1
  <2>5. r \in [1 .. n -> Threads]
    BY <2>3, <2>4
  <2>6. r \in Seq(Threads) /\ Len(r) = n
    BY <2>5
  <2> QED BY <2>1, <2>3, <2>6
<1>3. K["blocked"] = r /\ K \in [Lists -> Seq(Threads)] /\ \A m \in Lists : m # "blocked" => K[m] = L[m]
  BY <1>0, <1>1, <1>2, <1>l DEF Unlinked
<1>4. ASSUME NEW u, On(K, u) PROVE On(L, u)
  <2>1. PICK m \in Lists : \E i \in 1 .. Len(K[m]) : u = K[m][i]
    BY <1>4 DEF On
  <2>2. PICK i \in 1 .. Len(K[m]) : u = K[m][i]
    BY <2>1
  <2>3. CASE m = "blocked"
    <3>1. i \in 1 .. n /\ i \in 1 .. n + 1 /\ i + 1 \in 1 .. n + 1
      BY <1>2, <1>3, <2>2, <2>3
    <3>2. u = s[i] \/ u = s[i + 1]
      BY <1>2, <1>3, <2>2, <2>3, <3>1
    <3> QED BY <1>1, <1>l, <3>1, <3>2 DEF On
  <2>4. CASE m # "blocked"
    BY <1>3, <2>2, <2>4 DEF On
  <2> QED BY <2>3, <2>4
<1>5. On(L, L["blocked"][k])
  BY <1>1, <1>l DEF On
<1>6. ASSUME NEW u, On(L, u) PROVE On(K, u) \/ u = L["blocked"][k]
  <2>1. PICK m \in Lists : \E i \in 1 .. Len(L[m]) : u = L[m][i]
    BY <1>6 DEF On
  <2>2. PICK i \in 1 .. Len(L[m]) : u = L[m][i]
    BY <2>1
  <2>3. CASE m = "blocked" /\ i = k
    BY <2>2, <2>3
  <2>4. CASE m # "blocked"
    BY <1>3, <2>2, <2>4 DEF On
  <2>5. CASE m = "blocked" /\ i < k
    <3>1. i \in 1 .. n
      BY <1>1, <2>2, <2>5
    <3>2. u = K["blocked"][i] /\ i \in 1 .. Len(K["blocked"])
      BY <1>1, <1>2, <1>3, <2>2, <2>5, <3>1
    <3> QED BY <1>l, <3>2 DEF On
  <2>6. CASE m = "blocked" /\ i > k
    <3>1. i - 1 \in 1 .. n /\ (i - 1) + 1 = i /\ ~(i - 1 < k)
      BY <1>1, <2>2, <2>6
    <3>2. u = K["blocked"][i - 1] /\ i - 1 \in 1 .. Len(K["blocked"])
      BY <1>1, <1>2, <1>3, <2>2, <2>6, <3>1
    <3> QED BY <1>l, <3>2 DEF On
  <2>7. i < k \/ i = k \/ i > k
    BY <2>2
  <2> QED BY <2>3, <2>4, <2>5, <2>6, <2>7
<1> QED BY <1>0, <1>1, <1>2, <1>3, <1>4, <1>5, <1>6 DEF Fewer

\* What unlink_thread does to a blocked thread t between p and o.
Unlinks(q, r, t, p, o) ==
  /\ r \in Scheduler /\ r.curr = q.curr
  /\ \A u \in Threads : r.next[u] = IF u = p THEN o ELSE q.next[u]
  /\ \A u \in Threads : r.prev[u] = IF u = o THEN p ELSE q.prev[u]
  /\ r["blocked"] = IF q["blocked"] = t THEN o ELSE q["blocked"]
  /\ \A m \in Lists : m # "blocked" => r[m] = q[m]

LEMMA UnlinkIs ==
  ASSUME NEW q \in Scheduler, NEW t \in Threads
  PROVE  Unlinks(q, UnlinkThread(q, "blocked", t), t, q.prev[t], q.next[t])
<1>1. PICK p \in Link, o \in Link : p = q.prev[t] /\ o = q.next[t]
  BY DEF Scheduler
<1>2. /\ q.next \in [Threads -> Link] /\ q.prev \in [Threads -> Link]
      /\ p # null => p \in Threads
      /\ o # null => o \in Threads
      /\ null \notin Threads
  BY <1>1, Facts DEF Scheduler, Link
<1>3. PICK next \in [Threads -> Link] :
        /\ next = IF p # null THEN [q.next EXCEPT ![p] = o] ELSE q.next
        /\ \A u \in Threads : next[u] = IF u = p THEN o ELSE q.next[u]
  <2>1. CASE p = null
    BY <1>2, <2>1
  <2>2. CASE p # null
    <3>1. PICK next : next = [q.next EXCEPT ![p] = o]
      OBVIOUS
    <3>2. next \in [Threads -> Link] /\ \A u \in Threads : next[u] = IF u = p THEN o ELSE q.next[u]
      BY <1>2, <2>2, <3>1
    <3> QED BY <2>2, <3>1, <3>2
  <2> QED BY <2>1, <2>2
<1>4. PICK prev \in [Threads -> Link] :
        /\ prev = IF o # null THEN [q.prev EXCEPT ![o] = p] ELSE q.prev
        /\ \A u \in Threads : prev[u] = IF u = o THEN p ELSE q.prev[u]
  <2>1. CASE o = null
    BY <1>2, <2>1
  <2>2. CASE o # null
    <3>1. PICK prev : prev = [q.prev EXCEPT ![o] = p]
      OBVIOUS
    <3>2. prev \in [Threads -> Link] /\ \A u \in Threads : prev[u] = IF u = o THEN p ELSE q.prev[u]
      BY <1>2, <2>2, <3>1
    <3> QED BY <2>2, <3>1, <3>2
  <2> QED BY <2>1, <2>2
<1>5. PICK r : r = [q EXCEPT !.next = next, !.prev = prev, !.blocked = IF @ = t THEN o ELSE @]
  OBVIOUS
<1>6. UnlinkThread(q, "blocked", t) = r
  BY <1>1, <1>3, <1>4, <1>5 DEF UnlinkThread
<1>7. /\ r \in Scheduler /\ r.curr = q.curr /\ r.next = next /\ r.prev = prev
      /\ r["blocked"] = IF q["blocked"] = t THEN o ELSE q["blocked"]
      /\ \A m \in Lists : m # "blocked" => r[m] = q[m]
  BY <1>1, <1>5 DEF Scheduler, Lists
<1> QED BY <1>1, <1>3, <1>4, <1>6, <1>7 DEF Unlinks

LEMMA UnlinkSound ==
  ASSUME NEW q, NEW L, Sound(q, L, null), NEW k \in 1 .. Len(L["blocked"]),
         NEW t, t = L["blocked"][k]
  PROVE  /\ Sound(UnlinkThread(q, "blocked", t), Unlinked(L, k), t)
         /\ UnlinkThread(q, "blocked", t).curr = q.curr
<1>l. "blocked" \in Lists /\ L \in [Lists -> Seq(Threads)] /\ q \in Scheduler
  BY Facts DEF Sound
<1>1. PICK B \in Seq(Threads) : B = L["blocked"]
  BY <1>l
<1>2. PICK n \in Nat : n + 1 = Len(B) /\ k \in 1 .. n + 1
  <2>1. Len(B) - 1 \in Nat /\ (Len(B) - 1) + 1 = Len(B)
    BY <1>1
  <2> QED BY <1>1, <2>1
<1>3. t \in Threads /\ B[k] = t
  BY <1>1, <1>2
<1>4. PICK K \in [Lists -> Seq(Threads)] : K = Unlinked(L, k) /\ Fewer(L, K, k, n)
  <2>1. Fewer(L, Unlinked(L, k), k, n)
    BY <1>1, <1>2, <1>l, UnlinkedFacts
  <2> QED BY <2>1 DEF Fewer
<1>5. PICK C : C = K["blocked"]
  OBVIOUS
<1>6. /\ Len(C) = n /\ C \in Seq(Threads)
      /\ \A i \in 1 .. n : C[i] = IF i < k THEN B[i] ELSE B[i + 1]
      /\ \A m \in Lists : m # "blocked" => K[m] = L[m]
      /\ \A u : On(L, u) <=> On(K, u) \/ u = t
  BY <1>1, <1>3, <1>4, <1>5, <1>l DEF Fewer
<1>7. /\ \A i \in 1 .. n + 1 : q.next[B[i]] = IF i < n + 1 THEN B[i + 1] ELSE null
      /\ \A i \in 1 .. n + 1 : q.prev[B[i]] = IF i = 1 THEN null ELSE B[i - 1]
      /\ q["blocked"] = B[1]
  <2>1. Linked(q.next, q["blocked"], B) /\ Back(q.prev, B)
    BY <1>1, <1>l DEF Sound
  <2>2. B # <<>>
    BY <1>2, NotEmpty
  <2> QED BY <1>2, <2>1, <2>2 DEF Linked, Back
<1>8. \A i, j \in 1 .. n + 1 : B[i] = B[j] => i = j
  BY <1>1, <1>2, <1>l DEF Sound, Apart
<1>9. PICK p \in Link, o \in Link :
        /\ p = q.prev[t] /\ o = q.next[t]
        /\ p = IF k = 1 THEN null ELSE B[k - 1]
        /\ o = IF k < n + 1 THEN B[k + 1] ELSE null
  BY <1>2, <1>3, <1>7, <1>l DEF Scheduler
<1>10. PICK r \in Scheduler : r = UnlinkThread(q, "blocked", t) /\ Unlinks(q, r, t, p, o)
  <2>1. Unlinks(q, UnlinkThread(q, "blocked", t), t, p, o)
    BY <1>3, <1>9, <1>l, UnlinkIs
  <2> QED BY <2>1 DEF Unlinks
<1>11. /\ r.curr = q.curr
       /\ \A u \in Threads : r.next[u] = IF u = p THEN o ELSE q.next[u]
       /\ \A u \in Threads : r.prev[u] = IF u = o THEN p ELSE q.prev[u]
       /\ r["blocked"] = IF q["blocked"] = t THEN o ELSE q["blocked"]
       /\ \A m \in Lists : m # "blocked" => r[m] = q[m]
  BY <1>10 DEF Unlinks
<1>12. ASSUME NEW i \in 1 .. n + 1
       PROVE  /\ B[i] \in Threads
              /\ B[i] = p <=> i = k - 1
              /\ B[i] = o <=> i = k + 1
  <2>1. B[i] \in Threads
    BY <1>2
  <2>2. B[i] = p <=> i = k - 1
    <3>1. CASE k = 1
      BY <1>9, <2>1, <3>1, Facts
    <3>2. CASE k # 1
      <4>1. k - 1 \in 1 .. n + 1
        BY <1>2, <3>2
      <4> QED BY <1>8, <1>9, <3>2, <4>1
    <3> QED BY <3>1, <3>2
  <2>3. B[i] = o <=> i = k + 1
    <3>1. CASE k < n + 1
      <4>1. k + 1 \in 1 .. n + 1
        BY <1>2, <3>1
      <4> QED BY <1>8, <1>9, <3>1, <4>1
    <3>2. CASE ~(k < n + 1)
      <4>1. i # k + 1
        BY <1>2, <3>2
      <4> QED BY <1>9, <2>1, <3>2, <4>1, Facts
    <3> QED BY <3>1, <3>2
  <2> QED BY <2>1, <2>2, <2>3
<1>13. \A i \in 1 .. n + 1 :
         /\ r.next[B[i]] = IF i = k - 1 THEN o ELSE q.next[B[i]]
         /\ r.prev[B[i]] = IF i = k + 1 THEN p ELSE q.prev[B[i]]
  BY <1>11, <1>12
<1>14. Linked(r.next, r["blocked"], C)
  <2>1. r["blocked"] = IF C = <<>> THEN null ELSE C[1]
    <3>1. CASE n = 0
      <4>1. k = 1 /\ C = <<>> /\ ~(k < n + 1)
        BY <1>2, <1>6, <3>1, NotEmpty
      <4> QED BY <1>3, <1>7, <1>9, <1>11, <4>1
    <3>2. CASE n # 0 /\ k = 1
      <4>1. C # <<>> /\ C[1] = B[1 + 1] /\ k < n + 1
        <5>1. C # <<>> /\ 1 \in 1 .. n
          BY <1>6, <3>2, NotEmpty
        <5> QED BY <1>6, <3>2, <5>1
      <4> QED BY <1>3, <1>7, <1>9, <1>11, <3>2, <4>1
    <3>3. CASE n # 0 /\ k # 1
      <4>1. C # <<>> /\ 1 \in 1 .. n /\ 1 < k /\ 1 \in 1 .. n + 1
        BY <1>2, <1>6, <3>3, NotEmpty
      <4>2. C[1] = B[1] /\ B[1] # t
        BY <1>2, <1>3, <1>6, <1>8, <3>3, <4>1
      <4> QED BY <1>7, <1>11, <4>1, <4>2
    <3> QED BY <3>1, <3>2, <3>3
  <2>2. ASSUME NEW i \in 1 .. n PROVE r.next[C[i]] = IF i < n THEN C[i + 1] ELSE null
    <3>1. CASE i < k - 1
      <4>1. i \in 1 .. n + 1 /\ i + 1 \in 1 .. n /\ i < k /\ i + 1 < k /\ i < n + 1 /\ i # k - 1 /\ i < n
        BY <1>2, <3>1
      <4>2. C[i] = B[i] /\ C[i + 1] = B[i + 1] /\ q.next[B[i]] = B[i + 1]
        BY <1>6, <1>7, <4>1
      <4> QED BY <1>13, <4>1, <4>2
    <3>2. CASE i = k - 1
      <4>1. i \in 1 .. n + 1 /\ i < k /\ (i < n <=> k < n + 1) /\ i + 1 = k /\ ~(k < k)
        BY <1>2, <3>2
      <4>2. C[i] = B[i] /\ r.next[B[i]] = o
        BY <1>6, <1>13, <3>2, <4>1
      <4>3. i < n => C[i + 1] = B[k + 1]
        <5>1. i < n => k \in 1 .. n
          BY <4>1
        <5> QED BY <1>6, <4>1, <5>1
      <4> QED BY <1>9, <4>1, <4>2, <4>3
    <3>3. CASE i > k - 1
      <4>1. /\ i + 1 \in 1 .. n + 1 /\ ~(i < k) /\ i + 1 # k - 1 /\ (i + 1 < n + 1 <=> i < n)
            /\ ~(i + 1 < k)
        BY <1>2, <3>3
      <4>2. C[i] = B[i + 1] /\ r.next[B[i + 1]] = q.next[B[i + 1]]
        BY <1>6, <1>13, <4>1
      <4>3. i < n => C[i + 1] = B[(i + 1) + 1]
        <5>1. i < n => i + 1 \in 1 .. n
          OBVIOUS
        <5> QED BY <1>6, <4>1, <5>1
      <4> QED BY <1>7, <4>1, <4>2, <4>3
    <3>4. i < k - 1 \/ i = k - 1 \/ i > k - 1
      BY <1>2
    <3> QED BY <3>1, <3>2, <3>3, <3>4
  <2> QED BY <1>6, <2>1, <2>2 DEF Linked
<1>15. Back(r.prev, C)
  <2>1. ASSUME NEW i \in 1 .. n PROVE r.prev[C[i]] = IF i = 1 THEN null ELSE C[i - 1]
    <3>1. CASE i < k
      <4>1. i \in 1 .. n + 1 /\ i # k + 1 /\ (i # 1 => i - 1 \in 1 .. n /\ i - 1 < k)
        BY <1>2, <3>1
      <4>2. C[i] = B[i] /\ r.prev[B[i]] = q.prev[B[i]] /\ (i # 1 => C[i - 1] = B[i - 1])
        BY <1>6, <1>13, <3>1, <4>1
      <4> QED BY <1>7, <4>1, <4>2
    <3>2. CASE i = k
      <4>1. i + 1 \in 1 .. n + 1 /\ ~(i < k) /\ (k # 1 => k - 1 \in 1 .. n /\ k - 1 < k)
        BY <1>2, <3>2
      <4>2. C[i] = B[k + 1] /\ r.prev[B[k + 1]] = p /\ (k # 1 => C[k - 1] = B[k - 1])
        BY <1>6, <1>13, <3>2, <4>1
      <4> QED BY <1>9, <3>2, <4>2
    <3>3. CASE i > k
      <4>1. /\ i + 1 \in 1 .. n + 1 /\ ~(i < k) /\ i + 1 # k + 1 /\ i - 1 \in 1 .. n /\ ~(i - 1 < k)
            /\ i # 1 /\ i + 1 # 1 /\ (i - 1) + 1 = i /\ (i + 1) - 1 = i
        BY <1>2, <3>3
      <4>2. C[i] = B[i + 1] /\ r.prev[B[i + 1]] = q.prev[B[i + 1]]
        BY <1>6, <1>13, <4>1
      <4>3. C[i - 1] = B[i] /\ q.prev[B[i + 1]] = B[i]
        BY <1>6, <1>7, <4>1
      <4> QED BY <4>1, <4>2, <4>3
    <3>4. i < k \/ i = k \/ i > k
      BY <1>2
    <3> QED BY <3>1, <3>2, <3>3, <3>4
  <2> QED BY <1>6, <2>1 DEF Back
<1>16. ASSUME NEW m \in Lists, m # "blocked" PROVE Linked(r.next, r[m], K[m])
  <2>1. K[m] = L[m] /\ r[m] = q[m] /\ Linked(q.next, q[m], L[m])
    BY <1>6, <1>11, <1>16 DEF Sound
  <2>2. \A i \in 1 .. Len(L[m]) : L[m][i] \in Threads /\ L[m][i] # p
    <3> SUFFICES ASSUME NEW i \in 1 .. Len(L[m]) PROVE L[m][i] \in Threads /\ L[m][i] # p
      OBVIOUS
    <3>1. L[m][i] \in Threads
      BY <1>l
    <3>2. CASE k = 1
      BY <1>9, <3>1, <3>2, Facts
    <3>3. CASE k # 1
      <4>1. k - 1 \in 1 .. Len(L["blocked"]) /\ p = L["blocked"][k - 1]
        BY <1>1, <1>2, <1>9, <3>3
      <4>2. Apart(L)
        BY DEF Sound
      <4>3. L[m][i] # L["blocked"][k - 1]
        BY <1>16, <1>l, <4>1, <4>2 DEF Apart
      <4> QED BY <3>1, <4>1, <4>3
    <3> QED BY <3>2, <3>3
  <2>3. \A i \in 1 .. Len(L[m]) : r.next[L[m][i]] = q.next[L[m][i]]
    BY <1>11, <2>2
  <2> QED BY <2>1, <2>3 DEF Linked
<1>17. Apart(K) /\ ~On(K, t)
  <2>0. Apart(L)
    BY DEF Sound
  <2>1. ASSUME NEW m \in Lists, NEW i \in 1 .. Len(K[m])
        PROVE  \E x \in 1 .. Len(L[m]) : /\ K[m][i] = L[m][x]
                                         /\ x = IF m = "blocked" /\ i >= k THEN i + 1 ELSE i
                                         /\ m = "blocked" => x # k
    <3>1. CASE m = "blocked" /\ i < k
      <4>1. i \in 1 .. n /\ i \in 1 .. n + 1 /\ ~(i >= k) /\ i # k
        BY <1>2, <1>5, <1>6, <3>1
      <4> QED BY <1>1, <1>2, <1>5, <1>6, <3>1, <4>1
    <3>2. CASE m = "blocked" /\ i >= k
      <4>1. i \in 1 .. n /\ i + 1 \in 1 .. n + 1 /\ ~(i < k) /\ i + 1 # k
        BY <1>2, <1>5, <1>6, <3>2
      <4> QED BY <1>1, <1>2, <1>5, <1>6, <3>2, <4>1
    <3>3. CASE m # "blocked"
      BY <1>6, <3>3
    <3>4. i < k \/ i >= k
      BY <1>2, <1>5, <1>6
    <3> QED BY <3>1, <3>2, <3>3, <3>4
  <2>2. ASSUME NEW m \in Lists, NEW o2 \in Lists,
               NEW i \in 1 .. Len(K[m]), NEW j \in 1 .. Len(K[o2]), K[m][i] = K[o2][j]
        PROVE  m = o2 /\ i = j
    <3>1. PICK x \in 1 .. Len(L[m]) : K[m][i] = L[m][x] /\ x = IF m = "blocked" /\ i >= k THEN i + 1 ELSE i
      BY <2>1
    <3>2. PICK y \in 1 .. Len(L[o2]) : K[o2][j] = L[o2][y] /\ y = IF o2 = "blocked" /\ j >= k THEN j + 1 ELSE j
      BY <2>1
    <3>3. L[m][x] = L[o2][y]
      BY <2>2, <3>1, <3>2
    <3>4. m = o2 /\ x = y
      BY <2>0, <3>3 DEF Apart
    <3>5. i \in Nat /\ j \in Nat /\ k \in Nat
      BY <1>2
    <3> QED BY <3>1, <3>2, <3>4, <3>5
  <2>3. ASSUME NEW m \in Lists, NEW i \in 1 .. Len(K[m]), t = K[m][i] PROVE FALSE
    <3>1. PICK x \in 1 .. Len(L[m]) : K[m][i] = L[m][x] /\ (m = "blocked" => x # k)
      BY <2>1
    <3>2. L[m][x] = L["blocked"][k]
      BY <2>3, <3>1
    <3>3. m = "blocked" /\ x = k
      BY <1>l, <2>0, <3>2 DEF Apart
    <3> QED BY <3>1, <3>3
  <2> QED BY <2>2, <2>3 DEF Apart, On
<1>18. Clear(r, K, t)
  <2> SUFFICES ASSUME NEW u \in Threads, ~On(K, u), u # t
               PROVE  r.next[u] = null \/ (u = r.curr /\ (r.next[u] = t \/ On(K, r.next[u])))
    BY DEF Clear
  <2>1. ~On(L, u)
    BY <1>6
  <2>2. u # p
    <3>1. CASE k = 1
      BY <1>9, <3>1, Facts
    <3>2. CASE k # 1
      <4>1. k - 1 \in 1 .. Len(L["blocked"]) /\ p = L["blocked"][k - 1]
        BY <1>1, <1>2, <1>9, <3>2
      <4> QED BY <1>l, <2>1, <4>1 DEF On
    <3> QED BY <3>1, <3>2
  <2>3. r.next[u] = q.next[u]
    BY <1>11, <2>2
  <2>4. q.next[u] = null \/ (u = q.curr /\ (q.next[u] = null \/ On(L, q.next[u])))
    BY <2>1, Facts DEF Sound, Clear
  <2> QED BY <1>6, <1>11, <2>3, <2>4
<1>19. \A m \in Lists : Linked(r.next, r[m], K[m])
  BY <1>5, <1>14, <1>16
<1>20. Back(r.prev, K["blocked"])
  BY <1>5, <1>15
<1> QED BY <1>4, <1>10, <1>11, <1>17, <1>18, <1>19, <1>20 DEF Sound

LEMMA ThreadsFinite == IsFiniteSet(Threads) /\ Cardinality(Threads) \in Nat
<1>1. IsFiniteSet(Workers)
  BY ThreadAssumption
<1>2. IsFiniteSet(Workers \cup {main})
  BY <1>1, FS_AddElement
<1> QED BY <1>2, FS_CardinalityType DEF Threads

\* A sequence without repetition is no longer than there are elements, and its range is as large.
LEMMA OnceEach ==
  ASSUME NEW S, NEW s \in Seq(S), NEW n \in Nat, n = Len(s),
         \A i, j \in 1 .. n : s[i] = s[j] => i = j
  PROVE  /\ IsFiniteSet(Range(s)) /\ Cardinality(Range(s)) = n
         /\ IsFiniteSet(S) => n <= Cardinality(S)
<1>0. PICK D : D = 1 .. n
  OBVIOUS
<1>1. PICK f : f = s /\ f \in [D -> S] /\ DOMAIN f = D /\ \A i, j \in D : f[i] = f[j] => i = j
  <2>1. s \in [1 .. n -> S] /\ DOMAIN s = 1 .. n
    OBVIOUS
  <2> QED BY <1>0, <2>1
<1>2. IsFiniteSet(D) /\ Cardinality(D) = n
  <2>1. 1 \in Int /\ n \in Int
    OBVIOUS
  <2>2. IsFiniteSet(1 .. n) /\ Cardinality(1 .. n) = IF 1 > n THEN 0 ELSE n - 1 + 1
    BY <2>1, FS_Interval
  <2> QED BY <1>0, <2>2
<1>3. PICK R : R = Range(s) /\ R = {f[i] : i \in D}
  <2>1. Range(s) = {s[i] : i \in DOMAIN s}
    BY DEF Range
  <2>2. {s[i] : i \in DOMAIN s} = {f[i] : i \in D}
    BY <1>1
  <2> QED BY <2>1, <2>2
<1>4. f \in [D -> R]
  <2>1. \A i \in D : f[i] \in R
    BY <1>3
  <2> QED BY <1>1, <2>1
<1>5. f \in Surjection(D, R)
  <2>1. \A r \in R : \E i \in D : f[i] = r
    BY <1>3
  <2> QED BY <1>4, <2>1 DEF Surjection
<1>6. f \in Injection(D, R) /\ f \in Injection(D, S)
  BY <1>1, <1>4 DEF Injection, IsInjective
<1>7. IsFiniteSet(R) /\ Cardinality(R) = Cardinality(D)
  BY <1>2, <1>5, <1>6, FS_Surjection
<1>8. IsFiniteSet(S) => Cardinality(D) <= Cardinality(S)
  BY <1>6, FS_Injection
<1> QED BY <1>2, <1>3, <1>7, <1>8

\* Then OnList is what L says.
LEMMA OnListIs ==
  ASSUME NEW q, NEW L, NEW t, Sound(q, L, t), NEW l \in Lists
  PROVE  OnList(q, l) = L[l]
<1>1. PICK s \in Seq(Threads) : s = L[l]
  BY DEF Sound
<1>2. PICK n \in Nat : n = Len(s)
  OBVIOUS
<1>3. \A i, j \in 1 .. n : s[i] = s[j] => i = j
  BY <1>1, <1>2 DEF Sound, Apart
<1>4. n <= Cardinality(Threads)
  BY <1>2, <1>3, OnceEach, ThreadsFinite
<1>5. Linked(q.next, q[l], s)
  BY <1>1 DEF Sound
<1>6. PICK N \in Nat : N = Cardinality(Threads)
  BY ThreadsFinite
<1> QED BY <1>1, <1>2, <1>4, <1>5, <1>6, WalkIs

-----------------------------------------------------------------------------
(* The manager's calls.                                                    *)

\* Between two calls: the lists are L, and the running thread is on none.
Rest(q, L) == Sound(q, L, null) /\ ~On(L, q.curr)

LEMMA InHand ==
  ASSUME NEW q, NEW L, NEW t, Sound(q, L, null), ~On(L, t)
  PROVE  Sound(q, L, t)
<1>1. Clear(q, L, null)
  BY DEF Sound
<1>2. Clear(q, L, t)
  <2>1. \A u \in Threads : u # null
    BY Facts
  <2> QED BY <1>1, <2>1, Zenon DEF Clear
<1> QED BY <1>2 DEF Sound

LEMMA RestFacts ==
  ASSUME NEW q, NEW L, Rest(q, L)
  PROVE  /\ q \in Scheduler /\ q.curr \in Threads /\ L \in [Lists -> Seq(Threads)] /\ Apart(L)
         /\ "active" \in Lists /\ "blocked" \in Lists /\ "terminated" \in Lists
         /\ L["active"] \in Seq(Threads) /\ L["blocked"] \in Seq(Threads)
         /\ L["terminated"] \in Seq(Threads)
<1>1. q \in Scheduler /\ L \in [Lists -> Seq(Threads)] /\ Apart(L)
  BY DEF Rest, Sound
<1>2. "active" \in Lists /\ "blocked" \in Lists /\ "terminated" \in Lists
  BY DEF Lists
<1> QED BY <1>1, <1>2 DEF Scheduler

LEMMA FirstOn ==
  ASSUME NEW L \in [Lists -> Seq(Threads)], L["active"] # <<>>
  PROVE  On(L, L["active"][1]) /\ L["active"][1] \in Threads
<1>1. "active" \in Lists /\ L["active"] \in Seq(Threads)
  BY DEF Lists
<1>2. 1 \in 1 .. Len(L["active"])
  BY <1>1
<1> QED BY <1>1, <1>2 DEF On

LEMMA AppendedOn ==
  ASSUME NEW L \in [Lists -> Seq(Threads)], NEW l \in Lists, NEW t \in Threads, NEW u
  PROVE  On(Appended(L, l, t), u) <=> On(L, u) \/ u = t
<1>1. PICK n \in Nat : n = Len(L[l])
  <2>1. L[l] \in Seq(Threads)
    OBVIOUS
  <2> QED BY <2>1
<1>2. Longer(L, Appended(L, l, t), l, t, n)
  BY <1>1, AppendedFacts
<1> QED BY <1>2 DEF Longer

LEMMA SwitchedOn ==
  ASSUME NEW L \in [Lists -> Seq(Threads)], L["active"] # <<>>, NEW u
  PROVE  /\ Switched(L) \in [Lists -> Seq(Threads)]
         /\ On(L, u) <=> On(Switched(L), u) \/ u = L["active"][1]
<1>1. PICK n \in Nat : n + 1 = Len(L["active"])
  <2>1. L["active"] \in Seq(Threads)
    BY DEF Lists
  <2>2. Len(L["active"]) - 1 \in Nat /\ (Len(L["active"]) - 1) + 1 = Len(L["active"])
    BY <2>1
  <2> QED BY <2>2
<1>2. Shorter(L, Switched(L), L["active"][1], n)
  BY <1>1, SwitchedFacts
<1> QED BY <1>2 DEF Shorter

\* yield.
Yielded(q, L) == Appended(Switched(L), "active", q.curr)

LEMMA YieldIs ==
  ASSUME NEW q, NEW L, Rest(q, L), L["active"] # <<>>
  PROVE  Rest(YieldThread(q), Yielded(q, L)) /\ YieldThread(q).curr = L["active"][1]
<1>1. PICK t \in Threads : t = q.curr /\ Sound(q, L, t)
  BY InHand, RestFacts DEF Rest
<1>2. PICK h : h = L["active"][1] /\ h # t
  BY <1>1, FirstOn, RestFacts DEF Rest
<1>3. PICK r, K : r = Switch(q) /\ K = Switched(L) /\ Sound(r, K, t) /\ r.curr = h /\ ~On(K, h)
  BY <1>1, <1>2, SwitchSound
<1>4. K \in [Lists -> Seq(Threads)] /\ "active" \in Lists
  BY <1>3 DEF Sound, Lists
<1>5. /\ Sound(AppendThread(r, "active", t), Appended(K, "active", t), null)
      /\ AppendThread(r, "active", t).curr = h
  BY <1>3, <1>4, AppendSound
<1>6. ~On(Appended(K, "active", t), h)
  BY <1>2, <1>3, <1>4, AppendedOn
<1>7. q.active # null
  <2>1. Linked(q.next, q["active"], L["active"])
    BY <1>1, <1>4 DEF Sound
  <2> QED BY <2>1, FirstOn, RestFacts, Facts DEF Linked
<1>8. YieldThread(q) = AppendThread(r, "active", t)
  BY <1>1, <1>3, <1>7 DEF YieldThread
<1> QED BY <1>1, <1>2, <1>3, <1>5, <1>6, <1>8 DEF Rest, Yielded

LEMMA YieldAlone ==
  ASSUME NEW q, NEW L, Rest(q, L), L["active"] = <<>>
  PROVE  YieldThread(q) = q
<1>1. Linked(q.next, q["active"], L["active"])
  BY RestFacts DEF Rest, Sound
<1>2. q.active = null
  BY <1>1 DEF Linked
<1> QED BY <1>2 DEF YieldThread

\* block_thread, and the end of a thread.
GivenUp(q, L, l) == Switched(Appended(L, l, q.curr))

LEMMA GiveUpIs ==
  ASSUME NEW q, NEW L, Rest(q, L), L["active"] # <<>>, NEW l \in {"blocked", "terminated"},
         NEW r, r = Switch(AppendThread(q, l, q.curr))
  PROVE  Rest(r, GivenUp(q, L, l)) /\ r.curr = L["active"][1]
<1>1. PICK t \in Threads : t = q.curr /\ Sound(q, L, t)
  BY InHand, RestFacts DEF Rest
<1>2. l \in Lists /\ l # "active" /\ "active" \in Lists /\ L \in [Lists -> Seq(Threads)]
  BY RestFacts DEF Lists
<1>3. PICK p, K : p = AppendThread(q, l, t) /\ K = Appended(L, l, t) /\ Sound(p, K, null) /\ p.curr = t
  BY <1>1, <1>2, AppendSound
<1>4. On(K, t) /\ K["active"] = L["active"]
  BY <1>2, <1>3, AppendedOn DEF Appended
<1>5. /\ Sound(Switch(p), Switched(K), null)
      /\ Switch(p).curr = L["active"][1]
      /\ ~On(Switched(K), L["active"][1])
  <2>1. K["active"] # <<>> /\ On(K, p.curr)
    BY <1>3, <1>4
  <2> QED BY <1>3, <1>4, <2>1, SwitchSound
<1> QED BY <1>1, <1>3, <1>5 DEF Rest, GivenUp

\* create_thread.
LEMMA CreateIs ==
  ASSUME NEW q, NEW L, Rest(q, L), NEW t \in Threads, ~On(L, t), t # q.curr
  PROVE  /\ Rest(CreateThread(q, t), Appended(L, "active", t))
         /\ CreateThread(q, t).curr = q.curr
<1>1. Sound(q, L, t) /\ L \in [Lists -> Seq(Threads)] /\ "active" \in Lists
  BY InHand, RestFacts DEF Rest
<1>2. /\ Sound(AppendThread(q, "active", t), Appended(L, "active", t), null)
      /\ AppendThread(q, "active", t).curr = q.curr
  BY <1>1, AppendSound
<1>3. ~On(Appended(L, "active", t), q.curr)
  BY <1>1, AppendedOn DEF Rest
<1> QED BY <1>2, <1>3 DEF Rest, CreateThread

\* unblock_thread.
Unblocked(L, k) == Appended(Unlinked(L, k), "active", L["blocked"][k])

LEMMA UnblockIs ==
  ASSUME NEW q, NEW L, Rest(q, L), NEW k \in 1 .. Len(L["blocked"]),
         NEW t, t = L["blocked"][k]
  PROVE  Rest(UnblockThread(q, t), Unblocked(L, k)) /\ UnblockThread(q, t).curr = q.curr
<1>1. /\ L \in [Lists -> Seq(Threads)] /\ "active" \in Lists /\ "blocked" \in Lists
      /\ L["blocked"] \in Seq(Threads) /\ t \in Threads
  BY RestFacts
<1>2. PICK p, K : /\ p = UnlinkThread(q, "blocked", t) /\ K = Unlinked(L, k)
                  /\ Sound(p, K, t) /\ p.curr = q.curr
  BY UnlinkSound DEF Rest
<1>3. K \in [Lists -> Seq(Threads)]
  BY <1>2 DEF Sound
<1>4. /\ Sound(AppendThread(p, "active", t), Appended(K, "active", t), null)
      /\ AppendThread(p, "active", t).curr = q.curr
  BY <1>1, <1>2, AppendSound
<1>5. On(L, t)
  BY <1>1 DEF On
<1>6. \A u : On(L, u) <=> On(K, u) \/ u = t
  <2>1. PICK n \in Nat : n + 1 = Len(L["blocked"])
    <3>1. Len(L["blocked"]) - 1 \in Nat /\ (Len(L["blocked"]) - 1) + 1 = Len(L["blocked"])
      BY <1>1
    <3> QED BY <3>1
  <2>2. Fewer(L, K, k, n)
    BY <1>1, <1>2, <2>1, UnlinkedFacts
  <2> QED BY <2>2 DEF Fewer
<1>7. ~On(Appended(K, "active", t), q.curr)
  <2>1. ~On(L, q.curr)
    BY DEF Rest
  <2>2. ~On(K, q.curr) /\ q.curr # t
    BY <1>5, <1>6, <2>1
  <2> QED BY <1>1, <1>3, <2>2, AppendedOn
<1> QED BY <1>2, <1>4, <1>7 DEF Rest, UnblockThread, Unblocked

-----------------------------------------------------------------------------
(* uth_cond_broadcast: the fold of UnblockThread.                          *)

Iterates(g, d, q, cond) ==
  g = [s \in SUBSET d |-> IF s = {} THEN q ELSE UnblockThread(g[s \ {Max(s)}], cond[Max(s)])]

LEMMA FoldIs ==
  ASSUME NEW q, NEW cond
  PROVE  WakeAll(q, cond) = (CHOOSE g : Iterates(g, DOMAIN cond, q, cond))[DOMAIN cond]
<1>1. WakeAll(q, cond) = (CHOOSE g : g = [s \in SUBSET DOMAIN cond |->
        IF s = {} THEN q ELSE UnblockThread(g[s \ {Max(s)}], cond[Max(s)])])[DOMAIN cond]
  BY Zenon DEF WakeAll, FoldLeft, MapThenFoldSet
<1> QED BY <1>1, Zenon DEF Iterates

LEMMA FoldIterates ==
  ASSUME NEW q, NEW cond, \E g : Iterates(g, DOMAIN cond, q, cond)
  PROVE  \E g : Iterates(g, DOMAIN cond, q, cond) /\ WakeAll(q, cond) = g[DOMAIN cond]
BY FoldIs

LEMMA MaxIs == ASSUME NEW n \in Nat, NEW s \in SUBSET (1 .. n + 1), n + 1 \in s
               PROVE  Max(s) = n + 1
<1>1. \A y \in s : n + 1 >= y
  OBVIOUS
<1>2. \A x \in s : (\A y \in s : x >= y) => x = n + 1
  OBVIOUS
<1> QED BY <1>1, <1>2 DEF Max

LEMMA IteratesExists ==
  ASSUME NEW q, NEW cond, NEW n \in Nat
  PROVE  \E g : Iterates(g, 1 .. n, q, cond)
<1> DEFINE S == {d \in Nat : \E g : Iterates(g, 1 .. d, q, cond)}
<1>1. 0 \in S
  <2>1. PICK g : g = [s \in SUBSET (1 .. 0) |-> q]
    OBVIOUS
  <2>2. \A s \in SUBSET (1 .. 0) : s = {}
    OBVIOUS
  <2>3. g = [s \in SUBSET (1 .. 0) |-> IF s = {} THEN q ELSE UnblockThread(g[s \ {Max(s)}], cond[Max(s)])]
    BY <2>1, <2>2
  <2>4. Iterates(g, 1 .. 0, q, cond)
    BY <2>3 DEF Iterates
  <2> QED BY <2>4
<1>2. ASSUME NEW d \in Nat, d \in S PROVE d + 1 \in S
  <2>1. PICK g : Iterates(g, 1 .. d, q, cond)
    BY <1>2
  <2>2. \A s \in SUBSET (1 .. d) :
          g[s] = IF s = {} THEN q ELSE UnblockThread(g[s \ {Max(s)}], cond[Max(s)])
    BY <2>1 DEF Iterates
  <2>3. PICK e \in Nat : e = d + 1
    OBVIOUS
  <2>4. PICK h : h = [s \in SUBSET (1 .. e) |->
                       IF e \in s THEN UnblockThread(g[s \ {e}], cond[e]) ELSE g[s]]
    OBVIOUS
  <2>5. ASSUME NEW s \in SUBSET (1 .. d) PROVE h[s] = g[s]
    <3>1. s \in SUBSET (1 .. e) /\ e \notin s
      BY <2>3
    <3> QED BY <2>4, <3>1
  <2>6. ASSUME NEW s \in SUBSET (1 .. e)
        PROVE h[s] = IF s = {} THEN q ELSE UnblockThread(h[s \ {Max(s)}], cond[Max(s)])
    <3>1. CASE e \in s
      <4>1. Max(s) = e /\ s # {}
        BY <2>3, <3>1, MaxIs
      <4>2. s \ {e} \in SUBSET (1 .. d)
        BY <2>3
      <4>3. h[s] = UnblockThread(g[s \ {e}], cond[e])
        BY <2>4, <3>1
      <4>4. h[s \ {e}] = g[s \ {e}]
        BY <2>5, <4>2
      <4> QED BY <4>1, <4>3, <4>4
    <3>2. CASE e \notin s
      <4>1. s \in SUBSET (1 .. d) /\ s \ {Max(s)} \in SUBSET (1 .. d)
        <5>1. \A x \in 1 .. e : x # e => x \in 1 .. d
          BY <2>3
        <5>2. \A x \in s : x \in 1 .. d
          BY <3>2, <5>1
        <5> QED BY <5>2
      <4>2. h[s] = g[s] /\ h[s \ {Max(s)}] = g[s \ {Max(s)}]
        BY <2>5, <4>1
      <4> QED BY <2>2, <4>1, <4>2
    <3> QED BY <3>1, <3>2
  <2>7. h = [s \in SUBSET (1 .. e) |-> h[s]]
    BY <2>4
  <2>8. h = [s \in SUBSET (1 .. e) |->
              IF s = {} THEN q ELSE UnblockThread(h[s \ {Max(s)}], cond[Max(s)])]
    BY <2>6, <2>7
  <2>9. Iterates(h, 1 .. e, q, cond)
    BY <2>8 DEF Iterates
  <2> QED BY <2>3, <2>9
<1> HIDE DEF S
<1>3. n \in S
  BY <1>1, <1>2, InductionOnSet
<1> QED BY <1>3 DEF S

\* The managers after each of the wake-ups.
LEMMA WakeSteps ==
  ASSUME NEW q, NEW cond, NEW n \in Nat, DOMAIN cond = 1 .. n
  PROVE  \E after : /\ after[0] = q
                    /\ \A k \in 0 .. n - 1 : after[k + 1] = UnblockThread(after[k], cond[k + 1])
                    /\ after[n] = WakeAll(q, cond)
<1>1. PICK g : Iterates(g, 1 .. n, q, cond) /\ WakeAll(q, cond) = g[1 .. n]
  BY IteratesExists, FoldIterates
<1>2. \A s \in SUBSET (1 .. n) :
        g[s] = IF s = {} THEN q ELSE UnblockThread(g[s \ {Max(s)}], cond[Max(s)])
  BY <1>1 DEF Iterates
<1>3. PICK after : after = [k \in 0 .. n |-> g[1 .. k]]
  OBVIOUS
<1>4. after[0] = q
  <2>1. {} \in SUBSET (1 .. n) /\ 1 .. 0 = {} /\ 0 \in 0 .. n
    OBVIOUS
  <2> QED BY <1>2, <1>3, <2>1
<1>5. ASSUME NEW k \in 0 .. n - 1 PROVE after[k + 1] = UnblockThread(after[k], cond[k + 1])
  <2>1. 1 .. k + 1 \in SUBSET (1 .. n) /\ 1 .. k + 1 # {} /\ (1 .. k + 1) \ {k + 1} = 1 .. k
    OBVIOUS
  <2>2. Max(1 .. k + 1) = k + 1
    <3>1. k \in Nat /\ 1 .. k + 1 \in SUBSET (1 .. k + 1) /\ k + 1 \in 1 .. k + 1
      OBVIOUS
    <3> QED BY <3>1, MaxIs
  <2>3. g[1 .. k + 1] = UnblockThread(g[1 .. k], cond[k + 1])
    BY <1>2, <2>1, <2>2
  <2>4. k \in 0 .. n /\ k + 1 \in 0 .. n
    OBVIOUS
  <2> QED BY <1>3, <2>3, <2>4
<1>6. after[n] = WakeAll(q, cond)
  BY <1>1, <1>3
<1> QED BY <1>4, <1>5, <1>6

Has(s, u) == \E i \in 1 .. Len(s) : s[i] = u

\* The first k of cond have gone from the blocked to the active list.
Woken(L, K, cond, k) ==
  /\ K \in [Lists -> Seq(Threads)]
  /\ Len(K["active"]) = Len(L["active"]) + k
  /\ \A i \in 1 .. Len(L["active"]) : K["active"][i] = L["active"][i]
  /\ \A i \in 1 .. k : K["active"][Len(L["active"]) + i] = cond[i]
  /\ K["terminated"] = L["terminated"]
  /\ \A u : Has(K["blocked"], u) <=> Has(L["blocked"], u) /\ \A i \in 1 .. k : cond[i] # u

LEMMA UnblockedFacts ==
  ASSUME NEW L \in [Lists -> Seq(Threads)], Apart(L), NEW k \in 1 .. Len(L["blocked"]),
         NEW one, one = <<L["blocked"][k]>>
  PROVE  Woken(L, Unblocked(L, k), one, 1)
<1>1. PICK B \in Seq(Threads) : B = L["blocked"]
  BY DEF Lists
<1>2. PICK n \in Nat : n + 1 = Len(B) /\ k \in 1 .. n + 1
  <2>1. Len(B) - 1 \in Nat /\ (Len(B) - 1) + 1 = Len(B)
    BY <1>1
  <2> QED BY <1>1, <2>1
<1>3. PICK t \in Threads : t = B[k] /\ one = <<t>>
  BY <1>1, <1>2
<1>l. "blocked" \in Lists /\ "active" \in Lists /\ "terminated" \in Lists
  BY DEF Lists
<1>4. PICK M \in [Lists -> Seq(Threads)] : M = Unlinked(L, k) /\ Fewer(L, M, k, n)
  <2>1. Fewer(L, Unlinked(L, k), k, n)
    BY <1>1, <1>2, UnlinkedFacts
  <2> QED BY <2>1 DEF Fewer
<1>5. PICK a \in Nat : a = Len(L["active"]) /\ a = Len(M["active"])
  <2>1. M["active"] = L["active"] /\ L["active"] \in Seq(Threads)
    BY <1>4, <1>l DEF Fewer
  <2> QED BY <2>1
<1>6. PICK K \in [Lists -> Seq(Threads)] : K = Unblocked(L, k) /\ Longer(M, K, "active", t, a)
  <2>1. Longer(M, Appended(M, "active", t), "active", t, a)
    BY <1>5, <1>l, AppendedFacts
  <2> QED BY <1>1, <1>3, <1>4, <2>1 DEF Longer, Unblocked
<1>7. K["blocked"] = M["blocked"] /\ K["terminated"] = L["terminated"] /\ M["active"] = L["active"]
  <2>1. \A m \in Lists : m # "active" => K[m] = M[m]
    BY <1>6 DEF Longer
  <2>2. \A m \in Lists : m # "blocked" => M[m] = L[m]
    BY <1>4 DEF Fewer
  <2> QED BY <1>l, <2>1, <2>2
<1>8. PICK C : C = M["blocked"]
  OBVIOUS
<1>9. Len(C) = n /\ \A i \in 1 .. n : C[i] = IF i < k THEN B[i] ELSE B[i + 1]
  BY <1>1, <1>4, <1>8 DEF Fewer
<1>10. \A i \in 1 .. n + 1 : B[i] = t => i = k
  BY <1>1, <1>2, <1>3, <1>l DEF Apart
<1>11. ASSUME NEW u, Has(C, u) PROVE Has(B, u) /\ u # t
  <2>1. PICK i \in 1 .. n : C[i] = u
    BY <1>9, <1>11 DEF Has
  <2>2. CASE i < k
    <3>1. i \in 1 .. n + 1 /\ i # k
      BY <2>2
    <3> QED BY <1>2, <1>9, <1>10, <2>1, <2>2, <3>1 DEF Has
  <2>3. CASE ~(i < k)
    <3>1. i + 1 \in 1 .. n + 1 /\ i + 1 # k
      BY <1>2, <2>3
    <3> QED BY <1>2, <1>9, <1>10, <2>1, <2>3, <3>1 DEF Has
  <2> QED BY <2>2, <2>3
<1>12. ASSUME NEW u, Has(B, u), u # t PROVE Has(C, u)
  <2>1. PICK i \in 1 .. n + 1 : B[i] = u
    BY <1>2, <1>12 DEF Has
  <2>2. CASE i < k
    <3>1. i \in 1 .. n
      BY <1>2, <2>2
    <3> QED BY <1>9, <2>1, <2>2, <3>1 DEF Has
  <2>3. CASE i > k
    <3>1. i - 1 \in 1 .. n /\ ~(i - 1 < k) /\ (i - 1) + 1 = i
      BY <1>2, <2>3
    <3> QED BY <1>9, <2>1, <3>1 DEF Has
  <2>4. i < k \/ i = k \/ i > k
    BY <1>2
  <2> QED BY <1>3, <1>12, <2>1, <2>2, <2>3, <2>4
<1>13. /\ Len(K["active"]) = a + 1 /\ K["active"][a + 1] = t
       /\ \A i \in 1 .. a : K["active"][i] = L["active"][i]
  BY <1>6, <1>7 DEF Longer
<1>14. \A u : Has(K["blocked"], u) <=> Has(L["blocked"], u) /\ u # t
  BY <1>1, <1>7, <1>8, <1>11, <1>12
<1>15. \A i \in 1 .. 1 : i = 1 /\ one[i] = t
  BY <1>3
<1>16. \A u : (\A i \in 1 .. 1 : one[i] # u) <=> u # t
  BY <1>15
<1>17. \A i \in 1 .. 1 : K["active"][a + i] = one[i]
  BY <1>13, <1>15
<1> QED BY <1>5, <1>6, <1>7, <1>13, <1>14, <1>16, <1>17 DEF Woken

\* One more wake-up.
LEMMA WokenNext ==
  ASSUME NEW L \in [Lists -> Seq(Threads)], NEW K, NEW cond, NEW k \in Nat, Woken(L, K, cond, k),
         NEW J, NEW one, one = <<cond[k + 1]>>, Woken(K, J, one, 1)
  PROVE  Woken(L, J, cond, k + 1)
<1>1. PICK a \in Nat, b \in Nat : a = Len(L["active"]) /\ b = Len(K["active"]) /\ b = a + k
  <2>1. L["active"] \in Seq(Threads)
    BY DEF Lists
  <2>2. Len(L["active"]) \in Nat /\ Len(L["active"]) + k \in Nat
    BY <2>1
  <2> QED BY <2>2 DEF Woken
<1>0. a \in Nat /\ b \in Nat /\ k \in Nat /\ b = a + k
  BY <1>1
<1>2. PICK t : t = cond[k + 1] /\ one = <<t>>
  OBVIOUS
<1>3. /\ Len(J["active"]) = b + 1 /\ J["active"][b + 1] = t
      /\ \A i \in 1 .. b : J["active"][i] = K["active"][i]
  <2>1. 1 \in 1 .. 1 /\ one[1] = t
    BY <1>2
  <2> QED BY <1>1, <2>1 DEF Woken
<1>4. \A i \in 1 .. a : J["active"][i] = L["active"][i]
  <2>1. \A i \in 1 .. a : i \in 1 .. b
    BY <1>1
  <2>2. \A i \in 1 .. a : K["active"][i] = L["active"][i]
    BY <1>1 DEF Woken
  <2> QED BY <1>3, <2>1, <2>2
<1>5. ASSUME NEW i \in 1 .. k + 1 PROVE J["active"][a + i] = cond[i]
  <2>1. CASE i = k + 1
    <3>1. a + i = b + 1
      BY <1>0, <2>1
    <3> QED BY <1>2, <1>3, <2>1, <3>1
  <2>2. CASE i # k + 1
    <3>1. i \in 1 .. k /\ a + i \in 1 .. b
      BY <1>1, <2>2
    <3>2. K["active"][a + i] = cond[i]
      BY <1>1, <3>1 DEF Woken
    <3> QED BY <1>3, <3>1, <3>2
  <2> QED BY <2>1, <2>2
<1>6. ASSUME NEW u PROVE Has(J["blocked"], u) <=> Has(L["blocked"], u) /\ \A i \in 1 .. k + 1 : cond[i] # u
  <2>1. Has(J["blocked"], u) <=> Has(K["blocked"], u) /\ \A i \in 1 .. 1 : one[i] # u
    BY DEF Woken
  <2>2. (\A i \in 1 .. 1 : one[i] # u) <=> t # u
    <3>1. \A i \in 1 .. 1 : i = 1 /\ one[i] = t
      BY <1>2
    <3> QED BY <3>1
  <2>3. Has(K["blocked"], u) <=> Has(L["blocked"], u) /\ \A i \in 1 .. k : cond[i] # u
    BY DEF Woken
  <2>4. (\A i \in 1 .. k + 1 : cond[i] # u) <=> (\A i \in 1 .. k : cond[i] # u) /\ t # u
    <3>1. \A i \in 1 .. k + 1 : i \in 1 .. k \/ i = k + 1
      OBVIOUS
    <3>2. \A i \in 1 .. k : i \in 1 .. k + 1
      OBVIOUS
    <3>3. k + 1 \in 1 .. k + 1
      OBVIOUS
    <3> QED BY <1>2, <3>1, <3>2, <3>3
  <2> QED BY <2>1, <2>2, <2>3, <2>4
<1>7. J \in [Lists -> Seq(Threads)] /\ J["terminated"] = L["terminated"]
  BY DEF Woken
<1>8. b + 1 = a + (k + 1)
  BY <1>0
<1> QED BY <1>1, <1>3, <1>4, <1>5, <1>6, <1>7, <1>8 DEF Woken

LEMMA WakeReaches ==
  ASSUME NEW q, NEW L, Rest(q, L), NEW n \in Nat, NEW cond \in [1 .. n -> Threads],
         \A i, j \in 1 .. n : cond[i] = cond[j] => i = j,
         \A i \in 1 .. n : Has(L["blocked"], cond[i])
  PROVE  \E K : /\ Rest(WakeAll(q, cond), K) /\ WakeAll(q, cond).curr = q.curr
                /\ Woken(L, K, cond, n)
<1>0. DOMAIN cond = 1 .. n
  OBVIOUS
<1>1. PICK after : /\ after[0] = q
                   /\ \A k \in 0 .. n - 1 : after[k + 1] = UnblockThread(after[k], cond[k + 1])
                   /\ after[n] = WakeAll(q, cond)
  BY <1>0, WakeSteps
<1> DEFINE S == {k \in 0 .. n : \E K : Rest(after[k], K) /\ after[k].curr = q.curr /\ Woken(L, K, cond, k)}
<1>l. L \in [Lists -> Seq(Threads)] /\ L["active"] \in Seq(Threads)
  BY RestFacts
<1>2. 0 \in S
  <2>1. PICK a \in Nat : a = Len(L["active"]) /\ a + 0 = a
    BY <1>l
  <2>2. Woken(L, L, cond, 0)
    <3>1. \A i \in 1 .. 0 : FALSE
      OBVIOUS
    <3> QED BY <1>l, <2>1, <3>1 DEF Woken
  <2>3. 0 \in 0 .. n
    OBVIOUS
  <2> QED BY <1>1, <2>2, <2>3
<1>3. ASSUME NEW k \in 0 .. n - 1, k \in S PROVE k + 1 \in S
  <2>1. PICK K : Rest(after[k], K) /\ after[k].curr = q.curr /\ Woken(L, K, cond, k)
    BY <1>3
  <2>2. k \in Nat /\ k + 1 \in 1 .. n /\ k + 1 \in 0 .. n /\ \A i \in 1 .. k : i \in 1 .. n /\ i # k + 1
    OBVIOUS
  <2>3. PICK t : t = cond[k + 1]
    OBVIOUS
  <2>4. Has(K["blocked"], t)
    <3>1. Has(L["blocked"], t)
      BY <2>2, <2>3
    <3>2. \A i \in 1 .. k : cond[i] # t
      BY <2>2, <2>3
    <3> QED BY <2>1, <3>1, <3>2 DEF Woken
  <2>5. PICK j \in 1 .. Len(K["blocked"]) : K["blocked"][j] = t
    BY <2>4 DEF Has
  <2>6. PICK J : J = Unblocked(K, j)
    OBVIOUS
  <2>7. Rest(UnblockThread(after[k], t), J) /\ UnblockThread(after[k], t).curr = q.curr
    BY <2>1, <2>5, <2>6, UnblockIs
  <2>8. after[k + 1] = UnblockThread(after[k], t)
    BY <1>1, <2>3
  <2>9. PICK one : one = <<t>>
    OBVIOUS
  <2>10. Woken(K, J, one, 1)
    <3>1. K \in [Lists -> Seq(Threads)] /\ Apart(K)
      BY <2>1, RestFacts
    <3> QED BY <2>5, <2>6, <2>9, <3>1, UnblockedFacts
  <2>11. Woken(L, J, cond, k + 1)
    BY <1>l, <2>1, <2>2, <2>3, <2>9, <2>10, WokenNext
  <2> QED BY <2>2, <2>7, <2>8, <2>11
<1>4. n \in S
  <2> HIDE DEF S
  <2>1. \A k \in 0 .. n : k \in S
    BY <1>2, <1>3, InductionUpTo
  <2> QED BY <2>1
<1> QED BY <1>1, <1>4

LEMMA Parts ==
  ASSUME NEW K, NEW u
  PROVE  On(K, u) <=> Has(K["active"], u) \/ Has(K["blocked"], u) \/ Has(K["terminated"], u)
BY DEF On, Has, Lists

\* What a broadcast on the condition does.
Awake(L, K, cond) ==
  /\ K["active"] = L["active"] \o cond /\ K["terminated"] = L["terminated"]
  /\ \A u : Has(K["blocked"], u) <=> Has(L["blocked"], u) /\ ~Has(cond, u)
  /\ \A u : On(K, u) <=> On(L, u)

LEMMA WakeIs ==
  ASSUME NEW q, NEW L, Rest(q, L), NEW cond \in Seq(Threads),
         \A i, j \in 1 .. Len(cond) : cond[i] = cond[j] => i = j,
         \A i \in 1 .. Len(cond) : Has(L["blocked"], cond[i])
  PROVE  \E K : /\ Rest(WakeAll(q, cond), K) /\ WakeAll(q, cond).curr = q.curr
                /\ Awake(L, K, cond)
<1>1. PICK n \in Nat : n = Len(cond) /\ cond \in [1 .. n -> Threads]
  OBVIOUS
<1>2. PICK K : Rest(WakeAll(q, cond), K) /\ WakeAll(q, cond).curr = q.curr /\ Woken(L, K, cond, n)
  BY <1>1, WakeReaches
<1>3. PICK a \in Nat, s \in Seq(Threads), r \in Seq(Threads) :
        a = Len(s) /\ s = L["active"] /\ r = K["active"]
  <2>1. L["active"] \in Seq(Threads) /\ K["active"] \in Seq(Threads)
    BY <1>2, RestFacts
  <2> QED BY <2>1
<1>4. /\ Len(r) = a + n
      /\ \A i \in 1 .. a : r[i] = s[i]
      /\ \A i \in 1 .. n : r[a + i] = cond[i]
  BY <1>2, <1>3 DEF Woken
<1>5. PICK c \in Seq(Threads) : c = s \o cond
  <2>1. s \o cond \in Seq(Threads)
    OBVIOUS
  <2> QED BY <2>1
<1>6. Len(c) = a + n /\ \A i \in 1 .. a + n : c[i] = IF i <= a THEN s[i] ELSE cond[i - a]
  BY <1>1, <1>3, <1>5
<1>7. r = c
  <2>1. \A i \in 1 .. a + n : r[i] = c[i]
    <3> SUFFICES ASSUME NEW i \in 1 .. a + n PROVE r[i] = c[i]
      OBVIOUS
    <3>1. CASE i <= a
      <4>1. i \in 1 .. a
        BY <3>1
      <4> QED BY <1>4, <1>6, <3>1, <4>1
    <3>2. CASE ~(i <= a)
      <4>1. i - a \in 1 .. n /\ a + (i - a) = i
        BY <3>2
      <4>2. r[a + (i - a)] = cond[i - a]
        BY <1>4, <4>1
      <4> QED BY <1>6, <3>2, <4>1, <4>2
    <3> QED BY <3>1, <3>2
  <2>2. PICK m \in Nat : m = a + n
    OBVIOUS
  <2> QED BY <1>4, <1>6, <2>1, <2>2, SeqSame
<1>8. K["terminated"] = L["terminated"]
  BY <1>2 DEF Woken
<1>9. \A u : Has(K["blocked"], u) <=> Has(L["blocked"], u) /\ ~Has(cond, u)
  BY <1>1, <1>2 DEF Woken, Has
<1>10. ASSUME NEW u PROVE Has(r, u) <=> Has(s, u) \/ Has(cond, u)
  <2>1. ASSUME Has(r, u) PROVE Has(s, u) \/ Has(cond, u)
    <3>1. PICK i \in 1 .. a + n : r[i] = u
      BY <1>4, <2>1 DEF Has
    <3>2. CASE i <= a
      <4>1. i \in 1 .. a
        BY <3>2
      <4> QED BY <1>3, <1>4, <3>1, <4>1 DEF Has
    <3>3. CASE ~(i <= a)
      <4>1. i - a \in 1 .. n /\ cond[i - a] = u
        BY <1>6, <1>7, <3>1, <3>3
      <4> QED BY <1>1, <4>1 DEF Has
    <3> QED BY <3>2, <3>3
  <2>2. ASSUME Has(s, u) PROVE Has(r, u)
    <3>1. PICK i \in 1 .. a : s[i] = u
      BY <1>3, <2>2 DEF Has
    <3>2. i \in 1 .. a + n
      OBVIOUS
    <3> QED BY <1>4, <3>1, <3>2 DEF Has
  <2>3. ASSUME Has(cond, u) PROVE Has(r, u)
    <3>1. PICK i \in 1 .. n : cond[i] = u
      BY <1>1, <2>3 DEF Has
    <3>2. a + i \in 1 .. a + n
      OBVIOUS
    <3> QED BY <1>4, <3>1, <3>2 DEF Has
  <2> QED BY <2>1, <2>2, <2>3
<1>11. \A u : Has(cond, u) => Has(L["blocked"], u)
  BY DEF Has
<1>12. \A u : On(K, u) <=> On(L, u)
  BY <1>3, <1>8, <1>9, <1>10, <1>11, Parts
<1> QED BY <1>2, <1>3, <1>5, <1>7, <1>8, <1>9, <1>12 DEF Awake


-----------------------------------------------------------------------------
(* Sums.                                                                   *)

Sums(w, n, f) == f \in [0 .. n -> Int] /\ f[0] = 0 /\ \A k \in 0 .. n - 1 : f[k + 1] = f[k] + w[k + 1]

LEMMA SumsExist ==
  ASSUME NEW n \in Nat, NEW w \in [1 .. n -> Int]
  PROVE  \E f : Sums(w, n, f)
<1> DEFINE S == {k \in 0 .. n : \E f : Sums(w, k, f)}
<1>1. 0 \in S
  <2>1. PICK f : f = [k \in 0 .. 0 |-> 0]
    OBVIOUS
  <2>2. f \in [0 .. 0 -> Int] /\ f[0] = 0 /\ \A k \in 0 .. 0 - 1 : FALSE
    BY <2>1
  <2>3. Sums(w, 0, f)
    BY <2>2 DEF Sums
  <2> QED BY <2>3
<1>2. ASSUME NEW k \in 0 .. n - 1, k \in S PROVE k + 1 \in S
  <2>1. PICK f : Sums(w, k, f)
    BY <1>2
  <2>2. PICK m \in 1 .. n : m = k + 1
    <3>1. k + 1 \in 1 .. n
      OBVIOUS
    <3> QED BY <3>1
  <2>3. PICK x \in Int : x = w[m]
    OBVIOUS
  <2>4. f \in [0 .. k -> Int] /\ f[0] = 0 /\ \A j \in 0 .. k - 1 : f[j + 1] = f[j] + w[j + 1]
    BY <2>1 DEF Sums
  <2>5. PICK y \in Int : y = f[k] + x
    <3>1. f[k] \in Int
      BY <2>4
    <3>2. f[k] + x \in Int
      BY <3>1
    <3> QED BY <3>2
  <2>6. PICK g : g = [j \in 0 .. m |-> IF j = m THEN y ELSE f[j]]
    OBVIOUS
  <2>7. \A j \in 0 .. k : g[j] = f[j]
    BY <2>2, <2>6
  <2>8. g[m] = y
    BY <2>6
  <2>9. g \in [0 .. m -> Int]
    <3>1. \A j \in 0 .. m : j = m \/ j \in 0 .. k
      BY <2>2
    <3>2. \A j \in 0 .. m : g[j] \in Int
      BY <2>4, <2>7, <2>8, <3>1
    <3> QED BY <2>6, <3>2
  <2>10. ASSUME NEW j \in 0 .. m - 1 PROVE g[j + 1] = g[j] + w[j + 1]
    <3>1. CASE j = k
      BY <2>2, <2>3, <2>5, <2>7, <2>8, <3>1
    <3>2. CASE j # k
      <4>1. j \in 0 .. k - 1 /\ j \in 0 .. k /\ j + 1 \in 0 .. k
        BY <2>2, <3>2
      <4> QED BY <2>4, <2>7, <4>1
    <3> QED BY <3>1, <3>2
  <2>11. g[0] = 0
    BY <2>4, <2>7
  <2>12. Sums(w, m, g)
    BY <2>9, <2>10, <2>11 DEF Sums
  <2> QED BY <2>2, <2>12
<1>3. n \in S
  <2> HIDE DEF S
  <2>1. \A k \in 0 .. n : k \in S
    BY <1>1, <1>2, InductionUpTo
  <2>2. n \in 0 .. n
    OBVIOUS
  <2> QED BY <2>1, <2>2
<1> QED BY <1>3

SumIter(g, w, n) == g = [k \in 0 .. n |-> IF k = 0 THEN 0 ELSE g[k - 1] + w[k]]

LEMMA SumToIs ==
  ASSUME NEW n \in Nat, NEW w, NEW f, Sums(w, n, f), NEW k \in 0 .. n
  PROVE  SumTo(w, k) = f[k]
<1>1. SumTo(w, k) = (CHOOSE g : SumIter(g, w, k))[k]
  BY Zenon DEF SumTo, SumIter
<1>2. f[0] = 0 /\ \A j \in 0 .. n - 1 : f[j + 1] = f[j] + w[j + 1]
  BY DEF Sums
<1>3. \A j \in 1 .. k : f[j] = f[j - 1] + w[j]
  <2> SUFFICES ASSUME NEW j \in 1 .. k PROVE f[j] = f[j - 1] + w[j]
    OBVIOUS
  <2>1. j - 1 \in 0 .. n - 1 /\ (j - 1) + 1 = j
    OBVIOUS
  <2> QED BY <1>2, <2>1
<1>4. PICK h : h = [j \in 0 .. k |-> f[j]]
  OBVIOUS
<1>5. SumIter(h, w, k)
  <2>1. \A j \in 0 .. k : h[j] = IF j = 0 THEN 0 ELSE h[j - 1] + w[j]
    <3> SUFFICES ASSUME NEW j \in 0 .. k, j # 0 PROVE h[j] = h[j - 1] + w[j]
      BY <1>2, <1>4
    <3>1. j \in 1 .. k /\ j - 1 \in 0 .. k
      OBVIOUS
    <3> QED BY <1>3, <1>4, <3>1
  <2>2. h = [j \in 0 .. k |-> h[j]]
    BY <1>4
  <2> QED BY <2>1, <2>2 DEF SumIter
<1>6. PICK g : g = (CHOOSE x : SumIter(x, w, k)) /\ SumIter(g, w, k)
  BY <1>5
<1>7. \A j \in 0 .. k : g[j] = IF j = 0 THEN 0 ELSE g[j - 1] + w[j]
  BY <1>6 DEF SumIter
<1> DEFINE S == {j \in 0 .. k : g[j] = f[j]}
<1>8. 0 \in S
  BY <1>2, <1>7
<1>9. ASSUME NEW j \in 0 .. k - 1, j \in S PROVE j + 1 \in S
  <2>1. j + 1 \in 1 .. k /\ j + 1 \in 0 .. k /\ (j + 1) - 1 = j /\ j + 1 # 0
    OBVIOUS
  <2>2. g[j + 1] = g[j] + w[j + 1]
    <3>1. g[j + 1] = g[(j + 1) - 1] + w[j + 1]
      BY <1>7, <2>1
    <3> QED BY <2>1, <3>1
  <2>3. f[j + 1] = f[j] + w[j + 1]
    <3>1. j \in 0 .. n - 1
      OBVIOUS
    <3> QED BY <1>2, <3>1
  <2> QED BY <1>9, <2>1, <2>2, <2>3
<1>10. k \in S
  <2> HIDE DEF S
  <2>1. k \in Nat /\ k \in 0 .. k
    OBVIOUS
  <2>2. \A j \in 0 .. k : j \in S
    BY <1>8, <1>9, <2>1, InductionUpTo
  <2> QED BY <2>1, <2>2
<1> QED BY <1>1, <1>6, <1>10

\* A number for each worker, all together.
Along(e, w, n) == [i \in 1 .. n |-> w[e[i]]]

Totals(e, w, m) ==
  \E f : Sums(Along(e, w, Cardinality(Workers)), Cardinality(Workers), f) /\ m = f[Cardinality(Workers)]

LEMMA OrderFacts ==
  ASSUME NEW e, Order(e)
  PROVE  \E n \in Nat : /\ n = Cardinality(Workers) /\ e \in [1 .. n -> Workers]
                        /\ \A i, j \in 1 .. n : e[i] = e[j] => i = j
                        /\ \A t \in Workers : \E i \in 1 .. n : e[i] = t
<1>1. PICK n \in Nat : n = Cardinality(Workers)
  BY ThreadAssumption, FS_CardinalityType
<1>2. e \in [1 .. n -> Workers] /\ DOMAIN e = 1 .. n
  BY <1>1 DEF Order
<1> QED BY <1>1, <1>2 DEF Order

LEMMA OrderExists == \E e : Order(e)
<1>1. PICK n \in Nat : n = Cardinality(Workers) /\ ExistsBijection(1 .. n, Workers)
  BY ThreadAssumption, FS_CardinalityType
<1>2. PICK D : D = 1 .. n
  OBVIOUS
<1>3. PICK e : e \in Bijection(D, Workers)
  BY <1>1, <1>2 DEF ExistsBijection
<1>4. e \in [D -> Workers] /\ DOMAIN e = D /\ \A i, j \in D : e[i] = e[j] => i = j
  BY <1>3 DEF Bijection, Injection, IsInjective
<1>5. \A t \in Workers : \E i \in D : e[i] = t
  BY <1>3 DEF Bijection, Surjection
<1> QED BY <1>1, <1>2, <1>4, <1>5 DEF Order

\* One worker's number changes, the total by as much.
LEMMA TotalsChange ==
  ASSUME NEW e, Order(e), NEW w \in [Workers -> Int], NEW m, Totals(e, w, m), NEW t \in Workers,
         NEW d \in Int, NEW v \in [Workers -> Int], v[t] = w[t] + d,
         \A u \in Workers : u # t => v[u] = w[u]
  PROVE  Totals(e, v, m + d)
<1>1. PICK n \in Nat : /\ n = Cardinality(Workers) /\ e \in [1 .. n -> Workers]
                       /\ \A i, j \in 1 .. n : e[i] = e[j] => i = j
                       /\ \A u \in Workers : \E i \in 1 .. n : e[i] = u
  BY OrderFacts
<1>2. PICK f : Sums(Along(e, w, n), n, f) /\ m = f[n]
  BY <1>1 DEF Totals
<1>3. f \in [0 .. n -> Int] /\ f[0] = 0
  BY <1>2 DEF Sums
<1>4. \A k \in 0 .. n - 1 : f[k + 1] = f[k] + w[e[k + 1]]
  <2>1. \A k \in 0 .. n - 1 : k + 1 \in 1 .. n
    OBVIOUS
  <2> QED BY <1>2, <2>1 DEF Sums, Along
<1>5. PICK p \in 1 .. n : e[p] = t
  BY <1>1
<1>6. \A k \in 1 .. n : e[k] = t <=> k = p
  BY <1>1, <1>5
<1>7. PICK g : g = [k \in 0 .. n |-> IF k < p THEN f[k] ELSE f[k] + d]
  OBVIOUS
<1>8. g \in [0 .. n -> Int]
  <2>1. \A k \in 0 .. n : g[k] \in Int
    <3> SUFFICES ASSUME NEW k \in 0 .. n PROVE g[k] \in Int
      OBVIOUS
    <3>1. PICK x \in Int : x = f[k]
      BY <1>3
    <3>2. x + d \in Int
      OBVIOUS
    <3> QED BY <1>7, <3>1, <3>2
  <2> QED BY <1>7, <2>1
<1>9. ASSUME NEW k \in 0 .. n - 1 PROVE g[k + 1] = g[k] + v[e[k + 1]]
  <2>1. k \in 0 .. n /\ k + 1 \in 0 .. n /\ k + 1 \in 1 .. n
    OBVIOUS
  <2>2. PICK x \in Int, y \in Int : x = f[k] /\ y = w[e[k + 1]]
    <3>1. f[k] \in Int
      BY <1>3, <2>1
    <3>2. e[k + 1] \in Workers
      BY <1>1, <2>1
    <3>3. w[e[k + 1]] \in Int
      BY <3>2
    <3> QED BY <3>1, <3>3
  <2>3. f[k + 1] = x + y
    BY <1>4, <2>2
  <2>4. CASE k + 1 < p
    <3>1. k < p /\ k + 1 # p
      BY <2>4
    <3>2. v[e[k + 1]] = y
      BY <1>1, <1>6, <2>1, <2>2, <3>1
    <3> QED BY <1>7, <2>1, <2>2, <2>3, <2>4, <3>1, <3>2
  <2>5. CASE k + 1 = p
    <3>1. k < p /\ ~(k + 1 < p)
      BY <2>5
    <3>2. v[e[k + 1]] = y + d
      BY <1>5, <2>2, <2>5
    <3>3. g[k + 1] = (x + y) + d /\ g[k] = x
      BY <1>7, <2>1, <2>2, <2>3, <3>1
    <3>4. (x + y) + d = x + (y + d)
      OBVIOUS
    <3> QED BY <3>2, <3>3, <3>4
  <2>6. CASE k + 1 > p
    <3>1. ~(k < p) /\ ~(k + 1 < p) /\ k + 1 # p
      BY <2>6
    <3>2. v[e[k + 1]] = y
      BY <1>1, <1>6, <2>1, <2>2, <3>1
    <3>3. g[k + 1] = (x + y) + d /\ g[k] = x + d
      BY <1>7, <2>1, <2>2, <2>3, <3>1
    <3>4. (x + y) + d = (x + d) + y
      OBVIOUS
    <3> QED BY <3>2, <3>3, <3>4
  <2>7. k + 1 < p \/ k + 1 = p \/ k + 1 > p
    OBVIOUS
  <2> QED BY <2>4, <2>5, <2>6, <2>7
<1>10. \A k \in 0 .. n - 1 : g[k + 1] = g[k] + Along(e, v, n)[k + 1]
  <2>1. \A k \in 0 .. n - 1 : k + 1 \in 1 .. n
    OBVIOUS
  <2> QED BY <1>9, <2>1 DEF Along
<1>11. g[0] = 0 /\ g[n] = m + d
  <2>1. 0 < p /\ ~(n < p) /\ 0 \in 0 .. n /\ n \in 0 .. n
    OBVIOUS
  <2> QED BY <1>2, <1>3, <1>7, <2>1
<1> QED BY <1>1, <1>8, <1>10, <1>11 DEF Totals, Sums

\* If no number is negative, none is more than the total; if all are zero so is the total.
LEMMA TotalsBound ==
  ASSUME NEW e, Order(e), NEW w \in [Workers -> Int], NEW m, Totals(e, w, m),
         \A u \in Workers : w[u] >= 0
  PROVE  /\ m \in Int /\ m >= 0 /\ \A u \in Workers : w[u] <= m
         /\ (\A u \in Workers : w[u] = 0) => m = 0
<1>1. PICK n \in Nat : /\ n = Cardinality(Workers) /\ e \in [1 .. n -> Workers]
                       /\ \A i, j \in 1 .. n : e[i] = e[j] => i = j
                       /\ \A u \in Workers : \E i \in 1 .. n : e[i] = u
  BY OrderFacts
<1>2. PICK f : Sums(Along(e, w, n), n, f) /\ m = f[n]
  BY <1>1 DEF Totals
<1>3. f \in [0 .. n -> Int] /\ f[0] = 0
  BY <1>2 DEF Sums
<1>4. \A k \in 0 .. n - 1 : f[k + 1] = f[k] + w[e[k + 1]]
  <2>1. \A k \in 0 .. n - 1 : k + 1 \in 1 .. n
    OBVIOUS
  <2> QED BY <1>2, <2>1 DEF Sums, Along
<1> DEFINE Zero == \A u \in Workers : w[u] = 0
           Good(k) == /\ f[k] >= 0
                      /\ \A i \in 1 .. n : i <= k => w[e[i]] <= f[k]
                      /\ Zero => f[k] = 0
           S == {k \in 0 .. n : Good(k)}
<1>5. 0 \in S
  BY <1>3
<1>6. ASSUME NEW k \in 0 .. n - 1, k \in S PROVE k + 1 \in S
  <2>1. k \in 0 .. n /\ k + 1 \in 0 .. n /\ k + 1 \in 1 .. n
    OBVIOUS
  <2>2. PICK x \in Int, y \in Int : x = f[k] /\ y = w[e[k + 1]] /\ y >= 0
    BY <1>1, <1>3, <2>1
  <2>3. f[k + 1] = x + y
    BY <1>4, <2>2
  <2>4. x >= 0 /\ (Zero => x = 0) /\ \A i \in 1 .. n : i <= k => w[e[i]] <= x
    BY <1>6, <2>2
  <2>5. x + y >= 0 /\ y <= x + y /\ x <= x + y
    BY <2>2, <2>4
  <2>6. Zero => x + y = 0
    <3>1. e[k + 1] \in Workers
      BY <1>1, <2>1
    <3>2. Zero => y = 0
      BY <2>2, <3>1
    <3> QED BY <2>4, <3>2
  <2>7. ASSUME NEW i \in 1 .. n, i <= k + 1 PROVE w[e[i]] <= x + y
    <3>1. CASE i = k + 1
      BY <2>2, <2>5, <3>1
    <3>2. CASE i # k + 1
      <4>1. PICK z \in Int : z = w[e[i]]
        BY <1>1
      <4>2. i <= k
        BY <2>7, <3>2
      <4>3. z <= x
        BY <2>4, <4>1, <4>2
      <4>4. z <= x + y
        BY <2>5, <4>3
      <4> QED BY <4>1, <4>4
    <3> QED BY <3>1, <3>2
  <2> HIDE DEF Zero
  <2> QED BY <2>1, <2>3, <2>5, <2>6, <2>7
<1>7. n \in S
  <2> HIDE DEF S
  <2>1. \A k \in 0 .. n : k \in S
    BY <1>5, <1>6, InductionUpTo
  <2>2. n \in 0 .. n
    OBVIOUS
  <2> QED BY <2>1, <2>2
<1>8. m >= 0 /\ m \in Int /\ (Zero => m = 0)
  BY <1>2, <1>3, <1>7
<1>9. \A u \in Workers : w[u] <= m
  <2> SUFFICES ASSUME NEW u \in Workers PROVE w[u] <= m
    OBVIOUS
  <2>1. PICK i \in 1 .. n : e[i] = u
    BY <1>1
  <2> QED BY <1>2, <1>7, <2>1
<1> QED BY <1>8, <1>9

-----------------------------------------------------------------------------
(* What is left of a program.                                              *)

\* f[i] is what the calls from i on come to, m what all of them do.
Rests(d, n, f) == f \in [1 .. n + 1 -> Int] /\ f[n + 1] = 0 /\ \A i \in 1 .. n : f[i] = f[i + 1] + d[i]

OneOn(c, d, n) == \A i \in 1 .. n : c[i] = d[i + 1]

LEMMA RestsOn ==
  ASSUME NEW n \in Nat, NEW d, NEW f, Rests(d, n + 1, f), NEW c, OneOn(c, d, n)
  PROVE  \E g : Rests(c, n, g) /\ OneOn(g, f, n + 1)
<1>1. PICK o \in Nat : o = n + 1 /\ o + 1 \in 1 .. o + 1
  OBVIOUS
<1>2. f \in [1 .. o + 1 -> Int] /\ f[o + 1] = 0 /\ \A i \in 1 .. o : f[i] = f[i + 1] + d[i]
  BY <1>1 DEF Rests
<1>3. PICK g : g = [i \in 1 .. o |-> f[i + 1]]
  OBVIOUS
<1>4. \A i \in 1 .. o : i + 1 \in 1 .. o + 1 /\ g[i] = f[i + 1] /\ g[i] \in Int
  BY <1>2, <1>3
<1>5. g \in [1 .. o -> Int]
  BY <1>3, <1>4
<1>6. g[o] = 0
  BY <1>1, <1>2, <1>4
<1>7. ASSUME NEW i \in 1 .. n PROVE g[i] = g[i + 1] + c[i]
  <2>1. i \in 1 .. o /\ i + 1 \in 1 .. o
    BY <1>1
  <2>2. f[i + 1] = f[(i + 1) + 1] + d[i + 1]
    BY <1>2, <2>1
  <2>3. c[i] = d[i + 1]
    BY DEF OneOn
  <2> QED BY <1>4, <2>1, <2>2, <2>3
<1> QED BY <1>1, <1>4, <1>5, <1>6, <1>7 DEF Rests, OneOn

\* From the sums from the front.
LEMMA RestsExist ==
  ASSUME NEW n \in Nat, NEW d \in [1 .. n -> Int]
  PROVE  \E f : /\ Rests(d, n, f) /\ f[1] = SumTo(d, n) /\ SumTo(d, n) \in Int
                /\ \A i \in 0 .. n : SumTo(d, i) \in Int /\ f[i + 1] = SumTo(d, n) - SumTo(d, i)
<1>1. PICK s : Sums(d, n, s)
  BY SumsExist
<1>2. s \in [0 .. n -> Int] /\ s[0] = 0 /\ \A i \in 0 .. n - 1 : s[i + 1] = s[i] + d[i + 1]
  BY <1>1 DEF Sums
<1>3. \A i \in 0 .. n : SumTo(d, i) = s[i]
  BY <1>1, SumToIs
<1>4. PICK t \in Int : t = s[n]
  BY <1>2
<1>5. PICK f : f = [i \in 1 .. n + 1 |-> t - s[i - 1]]
  OBVIOUS
<1>6. ASSUME NEW i \in 1 .. n + 1 PROVE f[i] = t - s[i - 1] /\ s[i - 1] \in Int /\ f[i] \in Int
  <2>1. i - 1 \in 0 .. n
    OBVIOUS
  <2>2. PICK x \in Int : x = s[i - 1]
    BY <1>2, <2>1
  <2>3. t - x \in Int
    OBVIOUS
  <2> QED BY <1>5, <2>2, <2>3
<1>7. f \in [1 .. n + 1 -> Int]
  BY <1>5, <1>6
<1>8. \A i \in 0 .. n : f[i + 1] = t - s[i]
  <2> SUFFICES ASSUME NEW i \in 0 .. n PROVE f[i + 1] = t - s[i]
    OBVIOUS
  <2>1. i + 1 \in 1 .. n + 1 /\ (i + 1) - 1 = i
    OBVIOUS
  <2> QED BY <1>6, <2>1
<1>9. f[n + 1] = 0
  <2>1. n \in 0 .. n /\ t - t = 0
    OBVIOUS
  <2> QED BY <1>4, <1>8, <2>1
<1>10. ASSUME NEW i \in 1 .. n PROVE f[i] = f[i + 1] + d[i]
  <2>1. i \in 0 .. n /\ i - 1 \in 0 .. n - 1 /\ (i - 1) + 1 = i /\ i \in 1 .. n + 1
    OBVIOUS
  <2>2. PICK x \in Int, y \in Int : x = s[i - 1] /\ y = d[i]
    BY <1>6, <2>1
  <2>3. s[i] = x + y
    BY <1>2, <2>1, <2>2
  <2>4. f[i] = t - x /\ f[i + 1] = t - (x + y)
    BY <1>6, <1>8, <2>1, <2>2, <2>3
  <2>5. t - x = (t - (x + y)) + y
    OBVIOUS
  <2> QED BY <2>2, <2>4, <2>5
<1>11. f[1] = t
  <2>1. 0 \in 0 .. n /\ 0 + 1 = 1 /\ t - 0 = t
    OBVIOUS
  <2>2. f[0 + 1] = t - s[0]
    BY <1>8, <2>1
  <2> QED BY <1>2, <2>1, <2>2
<1>12. n \in 0 .. n
  OBVIOUS
<1>13. SumTo(d, n) = t
  BY <1>3, <1>4, <1>12
<1>14. Rests(d, n, f)
  BY <1>7, <1>9, <1>10 DEF Rests
<1>15. \A i \in 0 .. n : SumTo(d, i) \in Int /\ f[i + 1] = t - SumTo(d, i)
  BY <1>2, <1>3, <1>8
<1> QED BY <1>4, <1>11, <1>13, <1>14, <1>15

\* If no call adds anything negative, the first adds no more than all.
LEMMA RestsBound ==
  ASSUME NEW n \in Nat, NEW d \in [1 .. n -> Int], NEW f, Rests(d, n, f), \A i \in 1 .. n : d[i] >= 0
  PROVE  f[1] \in Int /\ f[1] >= 0 /\ (n > 0 => f[1] >= d[1])
<1>1. f \in [1 .. n + 1 -> Int] /\ f[n + 1] = 0 /\ \A i \in 1 .. n : f[i] = f[i + 1] + d[i]
  BY DEF Rests
<1> DEFINE S == {k \in 0 .. n : f[(n + 1) - k] >= 0}
<1>2. 0 \in S
  <2>1. (n + 1) - 0 = n + 1 /\ 0 \in 0 .. n
    OBVIOUS
  <2> QED BY <1>1, <2>1
<1>3. ASSUME NEW k \in 0 .. n - 1, k \in S PROVE k + 1 \in S
  <2>1. PICK i \in 1 .. n : i = (n + 1) - (k + 1) /\ i + 1 = (n + 1) - k
    <3>1. (n + 1) - (k + 1) \in 1 .. n /\ ((n + 1) - (k + 1)) + 1 = (n + 1) - k
      OBVIOUS
    <3> QED BY <3>1
  <2>2. PICK x \in Int, y \in Int : x = f[i + 1] /\ y = d[i]
    <3>1. i + 1 \in 1 .. n + 1
      OBVIOUS
    <3>2. f[i + 1] \in Int /\ d[i] \in Int
      BY <1>1, <3>1
    <3> QED BY <3>2
  <2>3. x >= 0 /\ y >= 0
    BY <1>3, <2>1, <2>2
  <2>4. x + y >= 0 /\ f[i] = x + y /\ k + 1 \in 0 .. n
    BY <1>1, <2>2, <2>3
  <2> QED BY <2>1, <2>4
<1>4. \A k \in 0 .. n : f[(n + 1) - k] >= 0
  <2>1. \A k \in 0 .. n : k \in S
    <3> HIDE DEF S
    <3> QED BY <1>2, <1>3, InductionUpTo
  <2> QED BY <2>1
<1>5. \A i \in 1 .. n + 1 : f[i] >= 0 /\ f[i] \in Int
  <2> SUFFICES ASSUME NEW i \in 1 .. n + 1 PROVE f[i] >= 0
    BY <1>1
  <2>1. (n + 1) - i \in 0 .. n /\ (n + 1) - ((n + 1) - i) = i
    OBVIOUS
  <2>2. f[(n + 1) - ((n + 1) - i)] >= 0
    BY <1>4, <2>1
  <2> QED BY <2>1, <2>2
<1>6. 1 \in 1 .. n + 1
  OBVIOUS
<1>7. ASSUME n > 0 PROVE f[1] >= d[1]
  <2>1. 1 \in 1 .. n /\ 1 + 1 \in 1 .. n + 1
    BY <1>7
  <2>2. PICK x \in Int, y \in Int : x = f[1 + 1] /\ y = d[1] /\ x >= 0
    BY <1>5, <2>1
  <2>3. f[1] = x + y
    BY <1>1, <2>1, <2>2
  <2> QED BY <2>2, <2>3
<1> QED BY <1>5, <1>6, <1>7


-----------------------------------------------------------------------------
(* What the programs still owe the semaphore.                              *)

LEMMA CallFacts ==
  ASSUME NEW c \in Call
  PROVE  /\ TakeOf(c) \in Int /\ DropOf(c) \in {0 - 1, 0, 1}
         /\ c.op \in {"put", "get"} => c.n \in Nat
         /\ c.op \in {"put", "get", "yield", "raise", "drop"}
BY TaskAssumption DEF Call, TakeOf, DropOf

LEMMA TakesFacts ==
  ASSUME NEW s \in Seq(Call), NEW n \in Nat, n = Len(s)
  PROVE  /\ Takes(s) \in [1 .. n -> Int] /\ \A i \in 1 .. n : Takes(s)[i] = TakeOf(s[i])
         /\ Drops(s) \in [1 .. n -> Int] /\ \A i \in 1 .. n : Drops(s)[i] = DropOf(s[i])
<1>1. \A i \in 1 .. n : s[i] \in Call
  OBVIOUS
<1>2. \A i \in 1 .. n : TakeOf(s[i]) \in Int /\ DropOf(s[i]) \in Int
  BY <1>1, CallFacts
<1> QED BY <1>2 DEF Takes, Drops

\* The gets that are left less the puts.
Owes(s, x) == \E f : Rests(Takes(s), Len(s), f) /\ f[1] = x

LEMMA OwesOn ==
  ASSUME NEW s \in Seq(Call), s # <<>>, NEW x, Owes(s, x), NEW d, d = TakeOf(Head(s))
  PROVE  x \in Int /\ d \in Int /\ Owes(Tail(s), x - d)
<1>1. PICK n \in Nat : n + 1 = Len(s)
  <2>1. Len(s) - 1 \in Nat /\ (Len(s) - 1) + 1 = Len(s)
    OBVIOUS
  <2> QED BY <2>1
<1>2. PICK r \in Seq(Call) : r = Tail(s) /\ Len(r) = n /\ \A i \in 1 .. n : r[i] = s[i + 1]
  <2>1. Tail(s) \in Seq(Call) /\ Len(Tail(s)) = n /\ \A i \in 1 .. n : Tail(s)[i] = s[i + 1]
    BY <1>1, SeqTail
  <2> QED BY <2>1
<1>3. PICK f : Rests(Takes(s), n + 1, f) /\ f[1] = x
  BY <1>1 DEF Owes
<1>4. \A i \in 1 .. n + 1 : Takes(s)[i] = TakeOf(s[i])
  BY <1>1, TakesFacts
<1>5. OneOn(Takes(r), Takes(s), n)
  <2>1. \A i \in 1 .. n : i + 1 \in 1 .. n + 1
    OBVIOUS
  <2>2. \A i \in 1 .. n : Takes(r)[i] = TakeOf(r[i])
    BY <1>2, TakesFacts
  <2> QED BY <1>2, <1>4, <2>1, <2>2 DEF OneOn
<1>6. PICK g : Rests(Takes(r), n, g) /\ OneOn(g, f, n + 1)
  BY <1>1, <1>3, <1>5, RestsOn
<1>7. PICK o \in Nat : o = n + 1 /\ 1 \in 1 .. o /\ 1 \in 1 .. o + 1 /\ 1 + 1 \in 1 .. o + 1
  OBVIOUS
<1>8. f \in [1 .. o + 1 -> Int] /\ \A i \in 1 .. o : f[i] = f[i + 1] + Takes(s)[i]
  BY <1>3, <1>7 DEF Rests
<1>9. d = Takes(s)[1] /\ d \in Int
  <2>1. Head(s) = s[1] /\ s[1] \in Call
    BY <1>1, <1>7
  <2> QED BY <1>4, <1>7, <2>1, CallFacts
<1>10. PICK y \in Int : y = f[1 + 1]
  BY <1>7, <1>8
<1>11. x = y + d
  BY <1>3, <1>7, <1>8, <1>9, <1>10
<1>12. x \in Int /\ x - d = y
  BY <1>9, <1>11
<1>13. g[1] = y
  BY <1>6, <1>7, <1>10 DEF OneOn
<1> QED BY <1>2, <1>6, <1>9, <1>12, <1>13 DEF Owes

LEMMA PutsFirstOn ==
  ASSUME NEW s \in Seq(Call), s # <<>>, PutsFirst(s)
  PROVE  PutsFirst(Tail(s))
<1>1. PICK n \in Nat : n + 1 = Len(s)
  <2>1. Len(s) - 1 \in Nat /\ (Len(s) - 1) + 1 = Len(s)
    OBVIOUS
  <2> QED BY <2>1
<1>2. PICK r \in Seq(Call) : r = Tail(s) /\ Len(r) = n /\ \A i \in 1 .. n : r[i] = s[i + 1]
  <2>1. Tail(s) \in Seq(Call) /\ Len(Tail(s)) = n /\ \A i \in 1 .. n : Tail(s)[i] = s[i + 1]
    BY <1>1, SeqTail
  <2> QED BY <2>1
<1>3. ASSUME NEW i \in 1 .. n, NEW j \in 1 .. n, i < j, r[i].op = "get" PROVE r[j].op # "put"
  <2>1. i + 1 \in 1 .. n + 1 /\ j + 1 \in 1 .. n + 1 /\ i + 1 < j + 1
    BY <1>3
  <2> QED BY <1>1, <1>2, <1>3, <2>1 DEF PutsFirst
<1> QED BY <1>2, <1>3 DEF PutsFirst

\* What all owe, the count can give.
Supplied(programs, c) ==
  /\ \A t \in Workers : PutsFirst(programs[t])
  /\ \E e, w : /\ Order(e) /\ w \in [Workers -> Int]
               /\ \A t \in Workers : Owes(programs[t], w[t])
               /\ \E m \in Int : Totals(e, w, m) /\ m <= c

LEMMA SuppliedOn ==
  ASSUME NEW p \in [Workers -> Seq(Call)], NEW c \in Int, Supplied(p, c), NEW t \in Workers,
         p[t] # <<>>, NEW d, d = TakeOf(Head(p[t])), NEW r, r = [p EXCEPT ![t] = Tail(p[t])]
  PROVE  d \in Int /\ Supplied(r, c - d)
<1>1. PICK e, w : /\ Order(e) /\ w \in [Workers -> Int]
                  /\ \A u \in Workers : Owes(p[u], w[u])
                  /\ \E m \in Int : Totals(e, w, m) /\ m <= c
  BY DEF Supplied
<1>2. PICK m \in Int : Totals(e, w, m) /\ m <= c
  BY <1>1
<1>3. PICK x : x = w[t]
  OBVIOUS
<1>4. p[t] \in Seq(Call) /\ r[t] = Tail(p[t]) /\ \A u \in Workers : u # t => r[u] = p[u]
  OBVIOUS
<1>5. x \in Int /\ d \in Int /\ Owes(r[t], x - d)
  BY <1>1, <1>3, <1>4, OwesOn
<1>6. PICK v : v = [w EXCEPT ![t] = x - d]
  OBVIOUS
<1>7. x - d \in Int
  BY <1>5
<1>8. v \in [Workers -> Int] /\ v[t] = x - d /\ \A u \in Workers : u # t => v[u] = w[u]
  BY <1>1, <1>6, <1>7
<1>9. PICK z \in Int : z = 0 - d /\ x - d = x + z /\ m - d = m + z /\ m + z \in Int /\ m + z <= c - d
  <2>1. 0 - d \in Int /\ x - d = x + (0 - d) /\ m - d = m + (0 - d) /\ m + (0 - d) \in Int
    BY <1>5
  <2>2. m + (0 - d) <= c - d
    BY <1>2, <1>5
  <2> QED BY <2>1, <2>2
<1>10. Totals(e, v, m + z)
  BY <1>1, <1>2, <1>3, <1>8, <1>9, TotalsChange
<1>11. \A u \in Workers : Owes(r[u], v[u])
  BY <1>1, <1>4, <1>5, <1>8
<1>12. \A u \in Workers : PutsFirst(r[u])
  <2>1. \A u \in Workers : PutsFirst(p[u])
    BY DEF Supplied
  <2> QED BY <1>4, <2>1, PutsFirstOn
<1> QED BY <1>1, <1>5, <1>8, <1>9, <1>10, <1>11, <1>12 DEF Supplied

AtGet(s) == s # <<>> /\ Head(s).op = "get"

\* A task at a get, or done, owes no less than the get.
LEMMA OwesEnough ==
  ASSUME NEW s \in Seq(Call), PutsFirst(s), NEW x, Owes(s, x), s = <<>> \/ AtGet(s)
  PROVE  x \in Int /\ x >= 0 /\ (AtGet(s) => Head(s).n <= x)
<1>1. PICK n \in Nat : n = Len(s)
  OBVIOUS
<1>2. PICK f : Rests(Takes(s), n, f) /\ f[1] = x
  BY <1>1 DEF Owes
<1>3. Takes(s) \in [1 .. n -> Int] /\ \A i \in 1 .. n : Takes(s)[i] = TakeOf(s[i])
  BY <1>1, TakesFacts
<1>4. ASSUME NEW i \in 1 .. n PROVE Takes(s)[i] >= 0
  <2>1. s # <<>> /\ 1 \in 1 .. n /\ Head(s) = s[1] /\ s[i] \in Call
    BY <1>1
  <2>2. s[1].op = "get"
    BY <2>1 DEF AtGet
  <2>3. s[i].op # "put"
    <3>1. CASE i = 1
      BY <2>2, <3>1
    <3>2. CASE i # 1
      <4>1. 1 < i
        BY <3>2
      <4> QED BY <1>1, <2>1, <2>2, <4>1 DEF PutsFirst
    <3> QED BY <3>1, <3>2
  <2>4. TakeOf(s[i]) >= 0
    BY <2>1, <2>3, CallFacts DEF TakeOf
  <2> QED BY <1>3, <2>4
<1>5. x \in Int /\ x >= 0 /\ (n > 0 => x >= Takes(s)[1])
  BY <1>2, <1>3, <1>4, RestsBound
<1>6. ASSUME AtGet(s) PROVE Head(s).n <= x
  <2>1. n > 0 /\ 1 \in 1 .. n /\ Head(s) = s[1] /\ s[1] \in Call
    BY <1>1, <1>6, NotEmpty DEF AtGet
  <2>2. PICK k \in Nat : k = s[1].n
    BY <1>6, <2>1, CallFacts DEF AtGet
  <2>3. Takes(s)[1] = k
    BY <1>3, <1>6, <2>1, <2>2 DEF AtGet, TakeOf
  <2> QED BY <1>5, <2>1, <2>2, <2>3
<1> QED BY <1>5, <1>6

\* So they do not all wait for more than the count.
LEMMA SomeoneServed ==
  ASSUME NEW p \in [Workers -> Seq(Call)], NEW c \in Int, Supplied(p, c),
         \A t \in Workers : p[t] = <<>> \/ AtGet(p[t]),
         NEW u \in Workers, AtGet(p[u])
  PROVE  Head(p[u]).n <= c
<1>1. PICK e, w : /\ Order(e) /\ w \in [Workers -> Int]
                  /\ \A t \in Workers : Owes(p[t], w[t])
                  /\ \E m \in Int : Totals(e, w, m) /\ m <= c
  BY DEF Supplied
<1>2. PICK m \in Int : Totals(e, w, m) /\ m <= c
  BY <1>1
<1>3. ASSUME NEW t \in Workers PROVE w[t] >= 0 /\ (AtGet(p[t]) => Head(p[t]).n <= w[t])
  <2>1. p[t] \in Seq(Call) /\ PutsFirst(p[t])
    BY DEF Supplied
  <2> QED BY <1>1, <2>1, OwesEnough
<1>4. w[u] <= m
  BY <1>1, <1>2, <1>3, TotalsBound
<1>5. PICK k \in Nat : k = Head(p[u]).n
  <2>1. p[u] \in Seq(Call) /\ p[u] # <<>>
    BY DEF AtGet
  <2>2. Head(p[u]) \in Call
    BY <2>1
  <2> QED BY <2>2, CallFacts DEF AtGet
<1>6. PICK x \in Int : x = w[u] /\ k <= x
  BY <1>1, <1>3, <1>5
<1> QED BY <1>2, <1>4, <1>5, <1>6

-----------------------------------------------------------------------------
(* The objections that the tasks hold.                                     *)

\* A task with s left holds x, and k at least between two of its calls.
Own(s, x, k) ==
  \E f : /\ Rests(Drops(s), Len(s), f) /\ f[1] = x
         /\ \A i \in 1 .. Len(s) + 1 : f[i] >= 0
         /\ \A i \in 2 .. Len(s) : f[i] >= k

LEMMA OwnOn ==
  ASSUME NEW s \in Seq(Call), s # <<>>, NEW x, NEW k \in Nat, Own(s, x, k),
         NEW d, d = DropOf(Head(s))
  PROVE  /\ x \in Nat /\ d \in {0 - 1, 0, 1} /\ x - d \in Nat /\ Own(Tail(s), x - d, k)
         /\ Tail(s) # <<>> => x - d >= k
<1>1. PICK n \in Nat : n + 1 = Len(s)
  <2>1. Len(s) - 1 \in Nat /\ (Len(s) - 1) + 1 = Len(s)
    OBVIOUS
  <2> QED BY <2>1
<1>2. PICK r \in Seq(Call) : r = Tail(s) /\ Len(r) = n /\ \A i \in 1 .. n : r[i] = s[i + 1]
  <2>1. Tail(s) \in Seq(Call) /\ Len(Tail(s)) = n /\ \A i \in 1 .. n : Tail(s)[i] = s[i + 1]
    BY <1>1, SeqTail
  <2> QED BY <2>1
<1>o. PICK o \in Nat : o = n + 1 /\ 1 \in 1 .. o /\ 1 \in 1 .. o + 1 /\ 1 + 1 \in 1 .. o + 1
  OBVIOUS
<1>3. PICK f : /\ Rests(Drops(s), n + 1, f) /\ f[1] = x
               /\ \A i \in 1 .. o + 1 : f[i] >= 0
               /\ \A i \in 2 .. o : f[i] >= k
  BY <1>1, <1>o DEF Own
<1>4. \A i \in 1 .. n + 1 : Drops(s)[i] = DropOf(s[i])
  BY <1>1, TakesFacts
<1>5. OneOn(Drops(r), Drops(s), n)
  <2>1. \A i \in 1 .. n : i + 1 \in 1 .. n + 1
    OBVIOUS
  <2>2. \A i \in 1 .. n : Drops(r)[i] = DropOf(r[i])
    BY <1>2, TakesFacts
  <2> QED BY <1>2, <1>4, <2>1, <2>2 DEF OneOn
<1>6. PICK g : Rests(Drops(r), n, g) /\ OneOn(g, f, n + 1)
  BY <1>1, <1>3, <1>5, RestsOn
<1>8. f \in [1 .. o + 1 -> Int] /\ \A i \in 1 .. o : f[i] = f[i + 1] + Drops(s)[i]
  BY <1>3, <1>o DEF Rests
<1>9. d = Drops(s)[1] /\ d \in {0 - 1, 0, 1}
  <2>1. Head(s) = s[1] /\ s[1] \in Call
    BY <1>1, <1>o
  <2> QED BY <1>4, <1>o, <2>1, CallFacts
<1>10. PICK y \in Nat : y = f[1 + 1]
  <2>1. f[1 + 1] \in Int /\ f[1 + 1] >= 0
    BY <1>3, <1>8, <1>o
  <2> QED BY <2>1
<1>11. x = y + d /\ x \in Int /\ x >= 0
  BY <1>3, <1>8, <1>9, <1>10, <1>o
<1>12. x \in Nat /\ x - d = y
  BY <1>9, <1>11
<1>13. g[1] = y
  BY <1>6, <1>10, <1>o DEF OneOn
<1>14. \A i \in 1 .. n + 1 : g[i] >= 0
  <2>1. \A i \in 1 .. n + 1 : i + 1 \in 1 .. o + 1 /\ g[i] = f[i + 1]
    BY <1>6, <1>o DEF OneOn
  <2> QED BY <1>3, <2>1
<1>15. \A i \in 2 .. n : g[i] >= k
  <2>1. \A i \in 2 .. n : i + 1 \in 2 .. o /\ i \in 1 .. n + 1
    BY <1>o
  <2>2. \A i \in 2 .. n : g[i] = f[i + 1]
    BY <1>6, <2>1 DEF OneOn
  <2> QED BY <1>3, <2>1, <2>2
<1>16. ASSUME r # <<>> PROVE y >= k
  <2>1. n # 0
    BY <1>2, <1>16, NotEmpty
  <2>2. 1 + 1 \in 2 .. o
    BY <1>o, <2>1
  <2> QED BY <1>3, <1>10, <2>2
<1>17. Own(r, y, k)
  BY <1>2, <1>6, <1>13, <1>14, <1>15 DEF Own
<1> QED BY <1>2, <1>9, <1>12, <1>16, <1>17

LEMMA OwnNone ==
  ASSUME NEW x, NEW k, Own(<<>>, x, k)
  PROVE  x = 0
<1>1. Len(<<>>) = 0
  OBVIOUS
<1>2. PICK f : Rests(Drops(<<>>), 0, f) /\ f[1] = x
  BY <1>1 DEF Own
<1>3. 0 + 1 = 1
  OBVIOUS
<1> QED BY <1>2, <1>3 DEF Rests

\* Together they hold o objections.
Objected(p, o, h, k) ==
  /\ h \in [Workers -> Nat] /\ \A t \in Workers : Own(p[t], h[t], k)
  /\ \E e : Order(e) /\ Totals(e, h, o)

LEMMA ObjectedTotal ==
  ASSUME NEW p, NEW o, NEW h, NEW k, Objected(p, o, h, k)
  PROVE  /\ o \in Nat /\ \A t \in Workers : h[t] \in Nat /\ h[t] <= o
         /\ (\A t \in Workers : p[t] = <<>>) => o = 0
<1>1. PICK e : Order(e) /\ Totals(e, h, o)
  BY DEF Objected
<1>2. h \in [Workers -> Int] /\ \A t \in Workers : h[t] \in Nat /\ h[t] >= 0
  BY DEF Objected
<1>3. /\ o \in Int /\ o >= 0 /\ \A t \in Workers : h[t] <= o
      /\ (\A t \in Workers : h[t] = 0) => o = 0
  BY <1>1, <1>2, TotalsBound
<1>4. ASSUME \A t \in Workers : p[t] = <<>> PROVE o = 0
  <2>1. \A t \in Workers : Own(<<>>, h[t], k)
    BY <1>4 DEF Objected
  <2>2. \A t \in Workers : h[t] = 0
    BY <2>1, OwnNone
  <2> QED BY <1>3, <2>2
<1> QED BY <1>2, <1>3, <1>4

\* They hold n, k at least if t is not done, and the others hold what they held.
HeldOn(p, n, k, h, t) ==
  \E v : /\ Objected(p, n, v, k)
         /\ \A u \in Workers : u # t => v[u] = h[u]
         /\ p[t] # <<>> => v[t] >= k

LEMMA ObjectedOn ==
  ASSUME NEW p \in [Workers -> Seq(Call)], NEW o, NEW h, NEW k \in Nat, Objected(p, o, h, k),
         NEW t \in Workers, p[t] # <<>>, NEW d, d = DropOf(Head(p[t])),
         NEW r, r = [p EXCEPT ![t] = Tail(p[t])]
  PROVE  d \in {0 - 1, 0, 1} /\ o \in Nat /\ o - d \in Nat /\ HeldOn(r, o - d, k, h, t)
<1>1. PICK e : Order(e) /\ Totals(e, h, o)
  BY DEF Objected
<1>2. o \in Nat /\ h \in [Workers -> Nat] /\ h \in [Workers -> Int]
  <2>1. o \in Nat
    BY ObjectedTotal
  <2>2. h \in [Workers -> Nat]
    BY DEF Objected
  <2>3. h = [u \in Workers |-> h[u]]
    BY <2>2
  <2>4. \A u \in Workers : h[u] \in Nat
    BY <2>2
  <2>5. \A u \in Workers : h[u] \in Int
    BY <2>4
  <2>6. [u \in Workers |-> h[u]] \in [Workers -> Int]
    BY <2>5
  <2> QED BY <2>1, <2>2, <2>3, <2>6
<1>3. PICK x : x = h[t]
  OBVIOUS
<1>4. p[t] \in Seq(Call) /\ r[t] = Tail(p[t]) /\ \A u \in Workers : u # t => r[u] = p[u]
  OBVIOUS
<1>5. /\ x \in Nat /\ d \in {0 - 1, 0, 1} /\ x - d \in Nat /\ Own(r[t], x - d, k)
      /\ r[t] # <<>> => x - d >= k
  <2>1. Own(p[t], x, k)
    BY <1>3 DEF Objected
  <2> QED BY <1>4, <2>1, OwnOn
<1>6. PICK v : v = [h EXCEPT ![t] = x - d]
  OBVIOUS
<1>7. /\ v \in [Workers -> Nat] /\ v \in [Workers -> Int] /\ v[t] = x - d
      /\ \A u \in Workers : u # t => v[u] = h[u]
  BY <1>2, <1>5, <1>6
<1>8. PICK z \in Int : z = 0 - d /\ x - d = x + z /\ o - d = o + z
  <2>1. 0 - d \in Int /\ x - d = x + (0 - d) /\ o - d = o + (0 - d)
    BY <1>2, <1>5
  <2> QED BY <2>1
<1>9. Totals(e, v, o + z)
  BY <1>1, <1>2, <1>3, <1>7, <1>8, TotalsChange
<1>10. \A u \in Workers : Own(r[u], v[u], k)
  BY <1>4, <1>5, <1>7 DEF Objected
<1>11. Objected(r, o - d, v, k)
  BY <1>1, <1>7, <1>8, <1>9, <1>10 DEF Objected
<1>12. o - d \in Nat
  BY <1>11, ObjectedTotal
<1>13. HeldOn(r, o - d, k, h, t)
  BY <1>5, <1>7, <1>11 DEF HeldOn
<1> QED BY <1>2, <1>5, <1>12, <1>13

-----------------------------------------------------------------------------
(* At the start.                                                           *)

LEMMA ProgramType ==
  ASSUME NEW b \in Bodies
  PROVE  [t \in Workers |-> Program(b[t])] \in [Workers -> Seq(Call)]
<1>1. b \in [Workers -> Seq(Call)]
  BY TaskAssumption
<1>2. [op |-> "raise"] \in Call /\ [op |-> "drop"] \in Call
  BY DEF Call
<1>3. ASSUME NEW t \in Workers PROVE Program(b[t]) \in Seq(Call)
  <2>1. PICK s \in Seq(Call) : s = b[t]
    BY <1>1
  <2>2. PICK x \in Seq(Call), y \in Seq(Call) : x = <<[op |-> "raise"]>> /\ y = <<[op |-> "drop"]>>
    <3>1. \A c \in Call : <<c>> \in Seq(Call)
      OBVIOUS
    <3> QED BY <1>2, <3>1
  <2>3. x \o s \in Seq(Call)
    OBVIOUS
  <2>4. (x \o s) \o y \in Seq(Call)
    BY <2>3
  <2> QED BY <2>1, <2>2, <2>4 DEF Program
<1> QED BY <1>3

LEMMA TotalsExist ==
  ASSUME NEW e, Order(e), NEW w \in [Workers -> Int],
         NEW n, n = Cardinality(Workers), NEW a, a = Along(e, w, n)
  PROVE  SumTo(a, n) \in Int /\ Totals(e, w, SumTo(a, n))
<1>1. n \in Nat /\ e \in [1 .. n -> Workers]
  BY OrderFacts
<1>2. a \in [1 .. n -> Int]
  BY <1>1 DEF Along
<1>3. PICK f : Sums(a, n, f)
  BY <1>1, <1>2, SumsExist
<1>4. n \in 0 .. n /\ f[n] \in Int
  BY <1>1, <1>3 DEF Sums
<1>5. SumTo(a, n) = f[n]
  BY <1>1, <1>3, <1>4, SumToIs
<1> QED BY <1>3, <1>4, <1>5 DEF Totals

LEMMA SuppliedFirst ==
  ASSUME NEW p \in [Workers -> Seq(Call)], Sensible(p)
  PROVE  Supplied(p, 0)
<1>1. PICK n : n = Cardinality(Workers)
  OBVIOUS
<1>2. PICK e : Order(e) /\ SumTo([i \in 1 .. n |-> SumTo(Takes(p[e[i]]), Len(p[e[i]]))], n) <= 0
  BY <1>1 DEF Sensible
<1>3. n \in Nat /\ e \in [1 .. n -> Workers]
  BY <1>1, <1>2, OrderFacts
<1>4. PICK w : w = [t \in Workers |-> SumTo(Takes(p[t]), Len(p[t]))]
  OBVIOUS
<1>5. ASSUME NEW t \in Workers PROVE w[t] \in Int /\ Owes(p[t], w[t])
  <2>1. PICK k \in Nat : p[t] \in Seq(Call) /\ k = Len(p[t])
    OBVIOUS
  <2>2. Takes(p[t]) \in [1 .. k -> Int]
    BY <2>1, TakesFacts
  <2>3. PICK f : /\ Rests(Takes(p[t]), k, f) /\ f[1] = SumTo(Takes(p[t]), k)
                 /\ SumTo(Takes(p[t]), k) \in Int
    BY <2>1, <2>2, RestsExist
  <2> QED BY <1>4, <2>1, <2>3 DEF Owes
<1>6. w \in [Workers -> Int]
  BY <1>4, <1>5
<1>7. PICK a : a = Along(e, w, n)
  OBVIOUS
<1>8. a = [i \in 1 .. n |-> SumTo(Takes(p[e[i]]), Len(p[e[i]]))]
  <2>1. \A i \in 1 .. n : w[e[i]] = SumTo(Takes(p[e[i]]), Len(p[e[i]]))
    BY <1>3, <1>4
  <2> QED BY <1>7, <2>1 DEF Along
<1>9. SumTo(a, n) \in Int /\ Totals(e, w, SumTo(a, n)) /\ SumTo(a, n) <= 0
  BY <1>1, <1>2, <1>6, <1>7, <1>8, TotalsExist
<1>10. \A t \in Workers : PutsFirst(p[t])
  BY DEF Sensible
<1> QED BY <1>2, <1>5, <1>6, <1>9, <1>10 DEF Supplied

LEMMA ObjectedFirst ==
  ASSUME NEW p \in [Workers -> Seq(Call)], \A t \in Workers : Balanced(p[t]),
         NEW k \in {0, 1}, k = 0 \/ \A t \in Workers : Objects(p[t])
  PROVE  Objected(p, 0, [t \in Workers |-> 0], k)
<1>1. PICK h : h = [t \in Workers |-> 0] /\ h \in [Workers -> Nat] /\ h \in [Workers -> Int]
  <2>1. [t \in Workers |-> 0] \in [Workers -> Nat] /\ [t \in Workers |-> 0] \in [Workers -> Int]
    OBVIOUS
  <2> QED BY <2>1
<1>2. ASSUME NEW t \in Workers PROVE Own(p[t], 0, k)
  <2>1. PICK n \in Nat, s \in Seq(Call) : s = p[t] /\ n = Len(s)
    OBVIOUS
  <2>2. PICK d \in [1 .. n -> Int] : d = Drops(s)
    BY <2>1, TakesFacts
  <2>3. SumTo(d, n) = 0 /\ \A i \in 1 .. n : SumTo(d, i) <= 0
    BY <2>1, <2>2 DEF Balanced
  <2>4. PICK f : /\ Rests(d, n, f) /\ f[1] = SumTo(d, n) /\ SumTo(d, n) \in Int
                 /\ \A i \in 0 .. n : SumTo(d, i) \in Int /\ f[i + 1] = SumTo(d, n) - SumTo(d, i)
    BY <2>1, <2>2, RestsExist
  <2>5. ASSUME NEW i \in 1 .. n PROVE f[i + 1] = 0 - SumTo(d, i) /\ SumTo(d, i) \in Int /\ f[i + 1] >= 0
    <3>1. i \in 0 .. n
      OBVIOUS
    <3>2. PICK x \in Int : x = SumTo(d, i) /\ x <= 0 /\ f[i + 1] = 0 - x
      BY <2>3, <2>4, <3>1
    <3> QED BY <3>2
  <2>6. \A i \in 1 .. n + 1 : f[i] >= 0
    <3> SUFFICES ASSUME NEW i \in 1 .. n + 1 PROVE f[i] >= 0
      OBVIOUS
    <3>1. CASE i = 1
      BY <2>3, <2>4, <3>1
    <3>2. CASE i # 1
      <4>1. i - 1 \in 1 .. n /\ (i - 1) + 1 = i
        BY <3>2
      <4> QED BY <2>5, <4>1
    <3> QED BY <3>1, <3>2
  <2>7. \A i \in 2 .. n : f[i] >= k
    <3> SUFFICES ASSUME NEW i \in 2 .. n PROVE f[i] >= k
      OBVIOUS
    <3>1. i - 1 \in 1 .. n - 1 /\ i - 1 \in 1 .. n /\ (i - 1) + 1 = i
      OBVIOUS
    <3>2. PICK x \in Int : x = SumTo(d, i - 1) /\ f[i] = 0 - x /\ f[i] >= 0
      <4>1. f[(i - 1) + 1] = 0 - SumTo(d, i - 1) /\ SumTo(d, i - 1) \in Int /\ f[(i - 1) + 1] >= 0
        BY <2>5, <3>1
      <4> QED BY <3>1, <4>1
    <3>3. CASE k = 0
      BY <3>2, <3>3
    <3>4. CASE k = 1
      <4>1. x < 0
        BY <2>1, <2>2, <3>1, <3>2, <3>4 DEF Objects
      <4>2. 0 - x >= 1
        BY <4>1
      <4> QED BY <3>2, <3>4, <4>2
    <3> QED BY <3>3, <3>4
  <2> QED BY <2>1, <2>2, <2>3, <2>4, <2>6, <2>7 DEF Own
<1>3. PICK e : Order(e)
  BY OrderExists
<1>4. PICK m : Totals(e, h, m)
  BY <1>1, <1>3, TotalsExist
<1>5. \A t \in Workers : h[t] = 0 /\ h[t] >= 0
  BY <1>1
<1>6. m = 0
  <2>1. h \in [Workers -> Int] /\ \A t \in Workers : h[t] >= 0
    BY <1>1, <1>5
  <2>2. (\A t \in Workers : h[t] = 0) => m = 0
    BY <1>3, <1>4, <2>1, TotalsBound
  <2> QED BY <1>5, <2>2
<1> QED BY <1>1, <1>2, <1>3, <1>4, <1>5, <1>6 DEF Objected


-----------------------------------------------------------------------------
(* The variables other than the thread manager.                            *)

Typed ==
  /\ mainAt \in {"start", "yield", "look", "wait", "shutdown"} /\ looks \in 0 .. Looks
  /\ mainAt \in {"start", "yield"} => looks < Looks
  /\ todo \in [Workers -> Seq(Call)]
  /\ inWait \subseteq Workers /\ count \in Nat /\ objections \in Nat
  /\ semCond \in Seq(Workers) /\ objCond \in Seq({main})

\* The tasks bring what they promise; k is what they hold between their calls.
Backed(k) ==
  /\ Typed
  /\ Supplied(todo, count)
  /\ \E h : Objected(todo, objections, h, k)

\* The running task has returned from its call.
Returned ==
  /\ me \in Workers /\ todo[me] # <<>>
  /\ todo' = [todo EXCEPT ![me] = Tail(todo[me])]
  /\ count' = count - TakeOf(Head(todo[me]))
  /\ objections' = objections - DropOf(Head(todo[me]))

LEMMA HeadIsCall ==
  ASSUME Typed, NEW t \in Workers, todo[t] # <<>>
  PROVE  /\ todo[t] \in Seq(Call) /\ Head(todo[t]) \in Call /\ Tail(todo[t]) \in Seq(Call)
         /\ [todo EXCEPT ![t] = Tail(todo[t])] \in [Workers -> Seq(Call)]
<1>1. PICK s \in Seq(Call) : s = todo[t]
  BY DEF Typed
<1>2. Head(s) \in Call /\ Tail(s) \in Seq(Call)
  BY <1>1
<1>3. todo \in [Workers -> Seq(Call)]
  BY DEF Typed
<1>4. [todo EXCEPT ![t] = Tail(s)] \in [Workers -> Seq(Call)]
  BY <1>2, <1>3
<1> QED BY <1>1, <1>2, <1>4

LEMMA CallReturns ==
  ASSUME Typed, NEW k \in Nat, NEW h, Objected(todo, objections, h, k), Next
  PROVE  UNCHANGED <<todo, count, objections>> \/ Returned
<1>1. ASSUME NEW op, Calls(op), Return
      PROVE  /\ me \in Workers /\ todo[me] # <<>> /\ Head(todo[me]).op = op /\ Head(todo[me]) \in Call
             /\ todo' = [todo EXCEPT ![me] = Tail(todo[me])]
  <2>1. me \in Workers /\ todo[me] # <<>> /\ Head(todo[me]).op = op
    BY <1>1 DEF Calls
  <2>2. Head(todo[me]) \in Call
    BY <2>1, HeadIsCall
  <2>3. todo' = [todo EXCEPT ![me] = Tail(todo[me])]
    BY <1>1 DEF Return
  <2> QED BY <2>1, <2>2, <2>3
<1>2. count \in Nat /\ objections \in Nat /\ count - 0 = count /\ objections - 0 = objections
  BY DEF Typed
<1>3. CASE TaskYield
  <2>1. Calls("yield") /\ Return /\ count' = count /\ objections' = objections
    BY <1>3 DEF TaskYield, semVars, objVars
  <2>2. TakeOf(Head(todo[me])) = 0 /\ DropOf(Head(todo[me])) = 0
    BY <1>1, <2>1 DEF TakeOf, DropOf
  <2> QED BY <1>1, <1>2, <2>1, <2>2 DEF Returned
<1>4. CASE Put
  <2>1. Calls("put") /\ Return /\ count' = count + Head(todo[me]).n /\ objections' = objections
    BY <1>4 DEF Put, objVars
  <2>2. PICK n \in Nat : n = Head(todo[me]).n
    BY <1>1, <2>1, CallFacts
  <2>3. TakeOf(Head(todo[me])) = 0 - n /\ DropOf(Head(todo[me])) = 0
    BY <1>1, <2>1, <2>2 DEF TakeOf, DropOf
  <2>4. count + n = count - (0 - n)
    BY <1>2
  <2> QED BY <1>1, <1>2, <2>1, <2>2, <2>3, <2>4 DEF Returned
<1>5. CASE Get
  <2>1. Calls("get") /\ Return /\ count' = count - Head(todo[me]).n /\ objections' = objections
    BY <1>5 DEF Get, objVars
  <2>2. TakeOf(Head(todo[me])) = Head(todo[me]).n /\ DropOf(Head(todo[me])) = 0
    BY <1>1, <2>1 DEF TakeOf, DropOf
  <2> QED BY <1>1, <1>2, <2>1, <2>2 DEF Returned
<1>6. CASE Raise
  <2>1. Calls("raise") /\ Return /\ count' = count /\ objections' = objections + 1
    BY <1>6 DEF Raise, semVars
  <2>2. TakeOf(Head(todo[me])) = 0 /\ DropOf(Head(todo[me])) = 0 - 1
    BY <1>1, <2>1 DEF TakeOf, DropOf
  <2>3. objections + 1 = objections - (0 - 1)
    BY <1>2
  <2> QED BY <1>1, <1>2, <2>1, <2>2, <2>3 DEF Returned
<1>7. CASE Drop
  <2>1. /\ Calls("drop") /\ Return /\ count' = count
        /\ objections' = IF objections > 0 THEN objections - 1 ELSE 0
    BY <1>7 DEF Drop, semVars
  <2>2. TakeOf(Head(todo[me])) = 0 /\ DropOf(Head(todo[me])) = 1
    BY <1>1, <2>1 DEF TakeOf, DropOf
  <2>3. objections - 1 \in Nat
    <3>1. todo \in [Workers -> Seq(Call)]
      BY DEF Typed
    <3> QED BY <1>1, <2>1, <2>2, <3>1, ObjectedOn
  <2>4. objections > 0
    BY <1>2, <2>3
  <2> QED BY <1>1, <1>2, <2>1, <2>2, <2>4 DEF Returned
<1>8. CASE Start \/ WaitAllDropped \/ MainYields \/ MainLooks \/ MainShutdown
  BY <1>8 DEF Start, WaitAllDropped, MainYields, MainLooks, MainShutdown, mainVars, semVars, objVars
<1>9. CASE MainWaits \/ GetWaits \/ TaskEnd
  BY <1>9 DEF MainWaits, GetWaits, TaskEnd, mainVars, semVars, objVars
<1> QED BY <1>3, <1>4, <1>5, <1>6, <1>7, <1>8, <1>9 DEF Next

LEMMA TypedNext ==
  ASSUME Typed, UNCHANGED <<todo, count, objections>> \/ (Returned /\ objections' \in Nat), Next
  PROVE  Typed'
<1>1. todo' \in [Workers -> Seq(Call)] /\ objections' \in Nat
  <2>1. CASE UNCHANGED <<todo, count, objections>>
    BY <2>1 DEF Typed
  <2>2. CASE Returned /\ objections' \in Nat
    BY <2>2, HeadIsCall DEF Returned
  <2> QED BY <2>1, <2>2
<1>2. ASSUME NEW op \in {"put", "get"}, Calls(op)
      PROVE  me \in Workers /\ Head(todo[me]).n \in Nat
  <2>1. me \in Workers /\ todo[me] # <<>> /\ Head(todo[me]).op = op
    BY <1>2 DEF Calls
  <2> QED BY <2>1, HeadIsCall, CallFacts
<1>3. count' \in Nat
  <2>1. CASE Put
    <3>1. Calls("put") /\ count' = count + Head(todo[me]).n
      BY <2>1 DEF Put
    <3>2. PICK n \in Nat, c \in Nat : n = Head(todo[me]).n /\ c = count
      BY <1>2, <3>1 DEF Typed
    <3> QED BY <3>1, <3>2
  <2>2. CASE Get
    <3>1. Calls("get") /\ count' = count - Head(todo[me]).n /\ count >= Head(todo[me]).n
      BY <2>2 DEF Get
    <3>2. PICK n \in Nat, c \in Nat : n = Head(todo[me]).n /\ c = count
      BY <1>2, <3>1 DEF Typed
    <3> QED BY <3>1, <3>2
  <2>3. CASE Start \/ WaitAllDropped \/ MainYields \/ MainLooks \/ MainShutdown \/ MainWaits
    BY <2>3 DEF Start, WaitAllDropped, MainYields, MainLooks, MainShutdown, MainWaits, mainVars, semVars, objVars, Typed
  <2>4. CASE GetWaits \/ TaskEnd \/ TaskYield \/ Raise \/ Drop
    BY <2>4 DEF GetWaits, TaskEnd, TaskYield, Raise, Drop, mainVars, semVars, objVars, Typed
  <2> QED BY <2>1, <2>2, <2>3, <2>4 DEF Next
<1>4. /\ mainAt' \in {"start", "yield", "look", "wait", "shutdown"} /\ looks' \in 0 .. Looks
      /\ mainAt' \in {"start", "yield"} => looks' < Looks
  <2>0. looks \in 0 .. Looks /\ Looks \in Nat
    BY TaskAssumption DEF Typed
  <2>1. CASE WaitAllDropped
    BY <2>1 DEF WaitAllDropped, Typed
  <2>2. CASE MainYields
    <3>1. looks < Looks /\ looks' = looks + 1 /\ mainAt' = "look"
      BY <2>2 DEF MainYields, Typed
    <3> QED BY <2>0, <3>1
  <2>3. CASE MainLooks
    <3>1. looks' = looks /\ mainAt' \in {"wait", "yield"} /\ (mainAt' = "yield" => looks # Looks)
      BY <2>3 DEF MainLooks
    <3> QED BY <2>0, <3>1
  <2>4. CASE MainShutdown
    BY <2>4 DEF MainShutdown, Typed
  <2>5. CASE UNCHANGED mainVars
    BY <2>5 DEF mainVars, Typed
  <2>6. Next => WaitAllDropped \/ MainYields \/ MainLooks \/ MainShutdown \/ UNCHANGED mainVars
    BY DEF Next, Start, MainWaits, TaskYield, Put, Get, GetWaits, Raise, Drop, TaskEnd
  <2> QED BY <2>1, <2>2, <2>3, <2>4, <2>5, <2>6
<1>5. inWait' \subseteq Workers
  <2>1. CASE Get
    BY <2>1 DEF Get, Typed
  <2>2. CASE GetWaits
    BY <2>2 DEF GetWaits, Calls, Typed
  <2>3. CASE UNCHANGED inWait
    BY <2>3 DEF Typed
  <2>4. Next => Get \/ GetWaits \/ UNCHANGED inWait
    BY DEF Next, Start, WaitAllDropped, MainYields, MainLooks, MainShutdown, MainWaits, TaskYield, Put,
           Raise, Drop, TaskEnd, semVars
  <2> QED BY <2>1, <2>2, <2>3, <2>4
<1>6. semCond' \in Seq(Workers)
  <2>1. CASE Put
    BY <2>1 DEF Put
  <2>2. CASE GetWaits
    <3>1. me \in Workers /\ semCond' = <<sched.curr>> \o semCond
      BY <2>2 DEF GetWaits, Calls, CondWait
    <3>2. PICK t \in Workers, s \in Seq(Workers) : t = sched.curr /\ s = semCond
      BY <3>1 DEF me, Typed
    <3>3. <<t>> \in Seq(Workers)
      OBVIOUS
    <3>4. <<t>> \o s \in Seq(Workers)
      BY <3>3
    <3> QED BY <3>1, <3>2, <3>4
  <2>3. CASE UNCHANGED semCond
    BY <2>3 DEF Typed
  <2>4. Next => Put \/ GetWaits \/ UNCHANGED semCond
    BY DEF Next, Start, WaitAllDropped, MainYields, MainLooks, MainShutdown, MainWaits, TaskYield, Get,
           Raise, Drop, TaskEnd, semVars
  <2> QED BY <2>1, <2>2, <2>3, <2>4
<1>7. objCond' \in Seq({main})
  <2>1. CASE Drop
    <3>1. objCond' = <<>> \/ objCond' = objCond
      BY <2>1 DEF Drop
    <3>2. objCond \in Seq({main}) /\ <<>> \in Seq({main})
      BY DEF Typed
    <3> QED BY <3>1, <3>2
  <2>2. CASE MainWaits
    <3>1. objCond' = <<main>> \o objCond
      BY <2>2 DEF MainWaits, me, CondWait
    <3>2. PICK s \in Seq({main}), t \in Seq({main}) : s = objCond /\ t = <<main>>
      <4>1. <<main>> \in Seq({main})
        OBVIOUS
      <4> QED BY <4>1 DEF Typed
    <3>4. t \o s \in Seq({main})
      OBVIOUS
    <3> QED BY <3>1, <3>2, <3>4
  <2>3. CASE UNCHANGED objCond
    BY <2>3 DEF Typed
  <2>4. Next => Drop \/ MainWaits \/ UNCHANGED objCond
    BY DEF Next, Start, WaitAllDropped, MainYields, MainLooks, MainShutdown, TaskYield, Get, Put, GetWaits,
           Raise, TaskEnd, objVars
  <2> QED BY <2>1, <2>2, <2>3, <2>4
<1> QED BY <1>1, <1>3, <1>4, <1>5, <1>6, <1>7 DEF Typed

LEMMA BackedNext ==
  ASSUME NEW k \in Nat, Backed(k), Next
  PROVE  Backed(k)' /\ (UNCHANGED <<todo, count, objections>> \/ Returned)
<1>1. PICK h : Typed /\ Supplied(todo, count) /\ Objected(todo, objections, h, k)
  BY DEF Backed
<1>2. UNCHANGED <<todo, count, objections>> \/ Returned
  BY <1>1, CallReturns
<1>3. CASE UNCHANGED <<todo, count, objections>>
  <2>1. Typed'
    BY <1>1, <1>3, TypedNext
  <2> QED BY <1>1, <1>3, <2>1 DEF Backed
<1>4. CASE Returned
  <2>1. PICK p, c, o, r, t : /\ p = todo /\ c = count /\ o = objections /\ r = todo' /\ t = me
    OBVIOUS
  <2>2. /\ p \in [Workers -> Seq(Call)] /\ c \in Int /\ t \in Workers /\ p[t] # <<>>
        /\ r = [p EXCEPT ![t] = Tail(p[t])]
    BY <1>1, <1>4, <2>1 DEF Typed, Returned
  <2>3. count' = c - TakeOf(Head(p[t])) /\ objections' = o - DropOf(Head(p[t]))
    BY <1>4, <2>1 DEF Returned
  <2>4. Supplied(p, c) /\ Objected(p, o, h, k)
    BY <1>1, <2>1
  <2>5. Supplied(r, c - TakeOf(Head(p[t])))
    BY <2>2, <2>4, SuppliedOn
  <2>6. \E v : Objected(r, o - DropOf(Head(p[t])), v, k)
    BY <2>2, <2>4, ObjectedOn DEF HeldOn
  <2>7. objections' \in Nat
    BY <2>3, <2>6, ObjectedTotal
  <2>8. Typed'
    BY <1>1, <1>4, <2>7, TypedNext
  <2> QED BY <1>4, <2>1, <2>3, <2>5, <2>6, <2>8 DEF Backed
<1> QED BY <1>2, <1>3, <1>4


-----------------------------------------------------------------------------
(* What the calls make of the lists.                                       *)

LEMMA HasAppend ==
  ASSUME NEW S, NEW s \in Seq(S), NEW e \in S, NEW u
  PROVE  Has(Append(s, e), u) <=> Has(s, u) \/ u = e
<1>0. PICK n \in Nat : n = Len(s)
  OBVIOUS
<1>1a. PICK r : r = Append(s, e)
  OBVIOUS
<1>1. n = Len(s) /\ r = Append(s, e)
  BY <1>0, <1>1a
<1>2. Len(r) = n + 1 /\ r[n + 1] = e /\ \A i \in 1 .. n : r[i] = s[i]
  BY <1>1, SeqAppend
<1>3. ASSUME Has(r, u) PROVE Has(s, u) \/ u = e
  <2>1. PICK i \in 1 .. n + 1 : r[i] = u
    BY <1>2, <1>3 DEF Has
  <2>2. CASE i = n + 1
    BY <1>2, <2>1, <2>2
  <2>3. CASE i # n + 1
    <3>1. i \in 1 .. n
      BY <1>1, <2>3
    <3> QED BY <1>1, <1>2, <2>1, <3>1 DEF Has
  <2> QED BY <2>2, <2>3
<1>4. ASSUME Has(s, u) PROVE Has(r, u)
  <2>1. PICK i \in 1 .. n : s[i] = u
    BY <1>1, <1>4 DEF Has
  <2>2. i \in 1 .. n + 1
    BY <1>1
  <2> QED BY <1>2, <2>1, <2>2 DEF Has
<1>5. Has(r, e)
  <2>1. n + 1 \in 1 .. n + 1
    BY <1>1
  <2> QED BY <1>2, <2>1 DEF Has
<1> QED BY <1>1, <1>3, <1>4, <1>5

\* r is s with e before it.
Fronted(r, s, e) ==
  /\ \A u : Has(r, u) <=> Has(s, u) \/ u = e
  /\ (\A i, j \in 1 .. Len(s) : s[i] = s[j] => i = j) /\ ~Has(s, e)
       => \A i, j \in 1 .. Len(r) : r[i] = r[j] => i = j

LEMMA HasFirst ==
  ASSUME NEW S, NEW s \in Seq(S), NEW e \in S, NEW r, r = <<e>> \o s
  PROVE  Fronted(r, s, e)
<1>1. PICK n \in Nat : n = Len(s)
  OBVIOUS
<1>2. Len(r) = n + 1 /\ r[1] = e /\ \A i \in 1 .. n : r[i + 1] = s[i]
  BY <1>1
<1>3. \A i \in 1 .. n + 1 : i = 1 \/ (i - 1 \in 1 .. n /\ (i - 1) + 1 = i)
  BY <1>1
<1>4. ASSUME NEW u, Has(r, u) PROVE Has(s, u) \/ u = e
  <2>1. PICK i \in 1 .. n + 1 : r[i] = u
    BY <1>2, <1>4 DEF Has
  <2>2. CASE i = 1
    BY <1>2, <2>1, <2>2
  <2>3. CASE i # 1
    <3>1. i - 1 \in 1 .. n /\ (i - 1) + 1 = i
      BY <1>3, <2>3
    <3> QED BY <1>1, <1>2, <2>1, <3>1 DEF Has
  <2> QED BY <2>2, <2>3
<1>5. ASSUME NEW u, Has(s, u) PROVE Has(r, u)
  <2>1. PICK i \in 1 .. n : s[i] = u
    BY <1>1, <1>5 DEF Has
  <2>2. i + 1 \in 1 .. n + 1
    BY <1>1
  <2> QED BY <1>2, <2>1, <2>2 DEF Has
<1>6. Has(r, e)
  <2>1. 1 \in 1 .. n + 1
    BY <1>1
  <2> QED BY <1>2, <2>1 DEF Has
<1>7. ASSUME \A i, j \in 1 .. n : s[i] = s[j] => i = j, ~Has(s, e),
             NEW i \in 1 .. n + 1, NEW j \in 1 .. n + 1, r[i] = r[j]
      PROVE  i = j
  <2>1. \A x \in 1 .. n : s[x] # e
    BY <1>1, <1>7 DEF Has
  <2>2. CASE i = 1
    <3>1. j # 1 => r[(j - 1) + 1] = e /\ j - 1 \in 1 .. n
      BY <1>2, <1>3, <1>7, <2>2
    <3> QED BY <1>2, <2>1, <2>2, <3>1
  <2>3. CASE j = 1
    <3>1. i # 1 => r[(i - 1) + 1] = e /\ i - 1 \in 1 .. n
      BY <1>2, <1>3, <1>7, <2>3
    <3> QED BY <1>2, <2>1, <2>3, <3>1
  <2>4. CASE i # 1 /\ j # 1
    <3>1. PICK x \in 1 .. n, y \in 1 .. n : x + 1 = i /\ y + 1 = j
      BY <1>3, <2>4
    <3>2. s[x] = s[y]
      BY <1>2, <1>7, <3>1
    <3> QED BY <1>7, <3>1, <3>2
  <2> QED BY <2>2, <2>3, <2>4
<1> QED BY <1>1, <1>2, <1>4, <1>5, <1>6, <1>7 DEF Fronted

LEMMA HasNone == \A u : ~Has(<<>>, u)
BY DEF Has

LEMMA HasIn == ASSUME NEW S, NEW s \in Seq(S), NEW u, Has(s, u) PROVE u \in S
BY DEF Has

LEMMA HasSome == ASSUME NEW S, NEW s \in Seq(S), s # <<>> PROVE Has(s, s[1])
BY DEF Has

\* The threads on list l are more by t, those on the others are the same.
LEMMA AppendedForm ==
  ASSUME NEW L \in [Lists -> Seq(Threads)], NEW l \in Lists, NEW t \in Threads,
         NEW K, K = Appended(L, l, t)
  PROVE  /\ K[l] = Append(L[l], t) /\ \A m \in Lists : m # l => K[m] = L[m]
         /\ K \in [Lists -> Seq(Threads)]
         /\ \A u : On(K, u) <=> On(L, u) \/ u = t
<1>1. K[l] = Append(L[l], t) /\ \A m \in Lists : m # l => K[m] = L[m]
  BY DEF Appended
<1>2. \A u : On(K, u) <=> On(L, u) \/ u = t
  BY AppendedOn
<1>3. L[l] \in Seq(Threads)
  OBVIOUS
<1>4. Append(L[l], t) \in Seq(Threads)
  BY <1>3
<1> QED BY <1>1, <1>2, <1>4 DEF Appended

LEMMA SwitchedForm ==
  ASSUME NEW L \in [Lists -> Seq(Threads)], L["active"] # <<>>, NEW K, K = Switched(L)
  PROVE  /\ K["active"] = Tail(L["active"])
         /\ K["blocked"] = L["blocked"] /\ K["terminated"] = L["terminated"]
         /\ K \in [Lists -> Seq(Threads)]
         /\ \A u : On(L, u) <=> On(K, u) \/ u = L["active"][1]
<1>1. \A u : On(L, u) <=> On(K, u) \/ u = L["active"][1]
  BY SwitchedOn
<1>2. K \in [Lists -> Seq(Threads)]
  BY SwitchedOn
<1> QED BY <1>1, <1>2 DEF Switched, Lists

LEMMA YieldedForm ==
  ASSUME NEW q, NEW L, Rest(q, L), L["active"] # <<>>, NEW K, K = Yielded(q, L)
  PROVE  /\ K["active"] = Append(Tail(L["active"]), q.curr)
         /\ K["blocked"] = L["blocked"] /\ K["terminated"] = L["terminated"]
         /\ \A u : On(L, u) \/ u = q.curr => On(K, u) \/ u = L["active"][1]
<1>1. L \in [Lists -> Seq(Threads)] /\ q.curr \in Threads
  BY RestFacts
<1>2. PICK M : M = Switched(L)
  OBVIOUS
<1>3. /\ M["active"] = Tail(L["active"])
      /\ M["blocked"] = L["blocked"] /\ M["terminated"] = L["terminated"]
      /\ M \in [Lists -> Seq(Threads)]
      /\ \A u : On(L, u) <=> On(M, u) \/ u = L["active"][1]
  BY <1>1, <1>2, SwitchedForm
<1>4. "active" \in Lists /\ K = Appended(M, "active", q.curr)
  BY <1>2 DEF Lists, Yielded
<1>7. PICK t \in Threads : t = q.curr
  BY <1>1
<1>5a. K["active"] = Append(M["active"], t) /\ \A m \in Lists : m # "active" => K[m] = M[m]
  BY <1>3, <1>4, <1>7 DEF Appended
<1>5b. \A u : On(K, u) <=> On(M, u) \/ u = t
  BY <1>3, <1>4, <1>7, AppendedOn
<1>5. /\ K["active"] = Append(M["active"], q.curr) /\ \A m \in Lists : m # "active" => K[m] = M[m]
      /\ \A u : On(K, u) <=> On(M, u) \/ u = q.curr
  BY <1>5a, <1>5b, <1>7
<1>6. K["blocked"] = M["blocked"] /\ K["terminated"] = M["terminated"]
  BY <1>5 DEF Lists
<1> QED BY <1>3, <1>5, <1>6

LEMMA GivenUpForm ==
  ASSUME NEW q, NEW L, Rest(q, L), L["active"] # <<>>, NEW l \in {"blocked", "terminated"},
         NEW K, K = GivenUp(q, L, l)
  PROVE  /\ K["active"] = Tail(L["active"]) /\ K[l] = Append(L[l], q.curr)
         /\ \A m \in {"blocked", "terminated"} : m # l => K[m] = L[m]
         /\ \A u : On(L, u) \/ u = q.curr => On(K, u) \/ u = L["active"][1]
<1>1. L \in [Lists -> Seq(Threads)] /\ q.curr \in Threads /\ l \in Lists /\ "active" \in Lists
  BY RestFacts DEF Lists
<1>2. PICK M : M = Appended(L, l, q.curr)
  OBVIOUS
<1>7. PICK t \in Threads : t = q.curr
  BY <1>1
<1>3a. /\ M[l] = Append(L[l], t) /\ \A m \in Lists : m # l => M[m] = L[m]
       /\ M \in [Lists -> Seq(Threads)]
  <2>1. M = Appended(L, l, t)
    BY <1>2, <1>7
  <2>2. Append(L[l], t) \in Seq(Threads)
    BY <1>1, <1>7
  <2> QED BY <1>1, <2>1, <2>2 DEF Appended
<1>3b. \A u : On(M, u) <=> On(L, u) \/ u = t
  BY <1>1, <1>2, <1>7, AppendedOn
<1>3. /\ M[l] = Append(L[l], q.curr) /\ \A m \in Lists : m # l => M[m] = L[m]
      /\ M \in [Lists -> Seq(Threads)]
      /\ \A u : On(M, u) <=> On(L, u) \/ u = q.curr
  BY <1>3a, <1>3b, <1>7
<1>4. M["active"] = L["active"] /\ \A m \in {"blocked", "terminated"} : m # l => M[m] = L[m]
  BY <1>1, <1>3 DEF Lists
<1>5. /\ K["active"] = Tail(M["active"])
      /\ K["blocked"] = M["blocked"] /\ K["terminated"] = M["terminated"]
      /\ \A u : On(M, u) <=> On(K, u) \/ u = M["active"][1]
  <2>1. K = Switched(M)
    BY <1>2 DEF GivenUp
  <2> QED BY <1>3, <1>4, <2>1, SwitchedForm
<1> QED BY <1>3, <1>4, <1>5


-----------------------------------------------------------------------------
(* Where the threads are between two steps.                                *)

\* The lists are L; blocked are those that wait on a condition, and they wait for
\* something that is not there yet; terminated are those that are done.
Listed(L) ==
  /\ Rest(sched, L)
  /\ \A t : Has(L["blocked"], t) <=> Has(semCond, t) \/ Has(objCond, t)
  /\ \A i, j \in 1 .. Len(semCond) : semCond[i] = semCond[j] => i = j
  /\ \A t : Has(semCond, t) => AtGet(todo[t]) /\ Head(todo[t]).n > count
  /\ objCond # <<>> => objCond = <<main>> /\ mainAt = "wait" /\ objections > 0
  /\ \A t : Has(L["terminated"], t) => t \in Workers /\ todo[t] = <<>>
  /\ mainAt \in {"start", "yield", "shutdown"} => sched.curr = main
  /\ mainAt = "start" => semCond = <<>> /\ objCond = <<>> /\ L["terminated"] = <<>>
  /\ mainAt # "start" => \A t \in Threads : On(L, t) \/ t = sched.curr

\* What a step does to the lists: nothing, a thread is created, the running one goes
\* to the end of a list and the first takes its turn, or blocked threads are woken.
Moves(q, r, L, K) ==
  \/ r.curr = q.curr /\ K = L
  \/ r.curr = q.curr /\ \E t \in Workers : ~On(L, t) /\ t # q.curr /\ K = Appended(L, "active", t)
  \/ L["active"] # <<>> /\ r.curr = L["active"][1] /\ K = Yielded(q, L)
  \/ L["active"] # <<>> /\ r.curr = L["active"][1] /\ K = GivenUp(q, L, "blocked")
  \/ L["active"] # <<>> /\ r.curr = L["active"][1] /\ K = GivenUp(q, L, "terminated")
  \/ /\ r.curr = q.curr
     /\ \E cond \in Seq(Threads) :
          /\ \A i, j \in 1 .. Len(cond) : cond[i] = cond[j] => i = j
          /\ \A t : Has(cond, t) => Has(L["blocked"], t)
          /\ Awake(L, K, cond)

LEMMA ListedFacts ==
  ASSUME Typed, NEW L, Listed(L)
  PROVE  /\ Rest(sched, L) /\ me \in Threads
         /\ ~Has(L["active"], me) /\ ~Has(L["blocked"], me) /\ ~Has(L["terminated"], me)
         /\ ~Has(semCond, me) /\ ~Has(objCond, me)
         /\ \A t : Has(semCond, t) => t \in Workers
         /\ \A t : Has(objCond, t) => t = main
         /\ main \notin Workers
<1>1. Rest(sched, L) /\ ~On(L, me)
  BY DEF Listed, Rest, me
<1>2. me \in Threads
  BY <1>1, RestFacts DEF me
<1>3. ~Has(L["active"], me) /\ ~Has(L["blocked"], me) /\ ~Has(L["terminated"], me)
  BY <1>1, Parts
<1>4. ~Has(semCond, me) /\ ~Has(objCond, me)
  BY <1>3 DEF Listed
<1>5. \A t : Has(semCond, t) => t \in Workers
  <2>1. semCond \in Seq(Workers)
    BY DEF Typed
  <2> QED BY <2>1, HasIn
<1>6. \A t : Has(objCond, t) => t = main
  <2>1. objCond \in Seq({main})
    BY DEF Typed
  <2>2. \A t : Has(objCond, t) => t \in {main}
    BY <2>1, HasIn
  <2> QED BY <2>2
<1> QED BY <1>1, <1>2, <1>3, <1>4, <1>5, <1>6, ThreadAssumption

\* When everybody else sleeps or has ended, the running thread has something to do.
LEMMA NotAlone ==
  ASSUME Backed(0), NEW L, Listed(L), mainAt # "start",
         me \in Workers => todo[me] = <<>> \/ (AtGet(todo[me]) /\ Head(todo[me]).n > count),
         me = main => objections > 0
  PROVE  L["active"] # <<>>
<1> SUFFICES ASSUME L["active"] = <<>> PROVE FALSE
  OBVIOUS
<1>1. PICK h : Typed /\ Supplied(todo, count) /\ Objected(todo, objections, h, 0)
  BY DEF Backed
<1>2. ASSUME NEW t \in Threads, t # me
      PROVE  Has(semCond, t) \/ Has(objCond, t) \/ Has(L["terminated"], t)
  <2>1. On(L, t)
    BY <1>2 DEF Listed, me
  <2>2. ~Has(L["active"], t)
    BY HasNone
  <2> QED BY <2>1, <2>2, Parts DEF Listed
<1>3. objections > 0
  <2>1. CASE me = main
    BY <2>1
  <2>2. CASE me # main
    <3>1. Has(objCond, main)
      BY <1>1, <1>2, <2>2, Facts, ListedFacts DEF Listed
    <3>2. objCond # <<>>
      BY <3>1, HasNone
    <3> QED BY <3>2 DEF Listed
  <2> QED BY <2>1, <2>2
<1>4. ASSUME NEW t \in Workers
      PROVE  todo[t] = <<>> \/ (AtGet(todo[t]) /\ Head(todo[t]).n > count)
  <2>1. CASE t = me
    BY <2>1
  <2>2. CASE t # me
    <3>1. t \in Threads /\ t # main
      BY Facts, <1>1, ListedFacts
    <3>2. Has(semCond, t) \/ Has(L["terminated"], t)
      BY <1>1, <1>2, <2>2, <3>1, ListedFacts
    <3> QED BY <3>2 DEF Listed
  <2> QED BY <2>1, <2>2
<1>5. PICK p, c : p = todo /\ c = count
  OBVIOUS
<1>6. p \in [Workers -> Seq(Call)] /\ c \in Nat /\ c \in Int /\ Supplied(p, c)
  BY <1>1, <1>5 DEF Typed
<1>7. \A t \in Workers : p[t] = <<>> \/ (AtGet(p[t]) /\ Head(p[t]).n > c)
  BY <1>4, <1>5
<1>8. ASSUME NEW u \in Workers, AtGet(p[u]) PROVE FALSE
  <2>1. Head(p[u]).n <= c
    BY <1>6, <1>7, <1>8, SomeoneServed
  <2>2. Head(p[u]).n > c
    BY <1>7, <1>8 DEF AtGet
  <2>3. Head(p[u]) \in Call /\ Head(p[u]).op = "get"
    <3>1. PICK s \in Seq(Call) : s = p[u]
      BY <1>6
    <3> QED BY <1>8, <3>1 DEF AtGet
  <2>4. PICK n \in Nat : n = Head(p[u]).n
    BY <2>3, CallFacts
  <2> QED BY <1>6, <2>1, <2>2, <2>4
<1>9. \A t \in Workers : todo[t] = <<>>
  BY <1>5, <1>7, <1>8
<1>10. objections = 0
  BY <1>1, <1>9, ObjectedTotal
<1> QED BY <1>3, <1>10


\* The steps that leave the thread manager alone.
LEMMA QuietMoves ==
  ASSUME Backed(0), Backed(0)', NEW L, Listed(L), sched' = sched, semCond' = semCond, objCond' = objCond,
         \/ UNCHANGED todo /\ UNCHANGED <<count, objections>>
         \/ me \in Workers /\ todo[me] # <<>> /\ todo' = [todo EXCEPT ![me] = Tail(todo[me])],
         count' <= count,
         \A t \in Workers : AtGet(todo[t]) => Head(todo[t]).n \in Nat,
         objCond # <<>> => objections' > 0 /\ mainAt' = mainAt,
         mainAt' = mainAt \/ me = main,
         mainAt' = "start" => mainAt = "start",
         mainAt = "start" /\ mainAt' # "start" => \A t \in Threads : On(L, t) \/ t = sched.curr
  PROVE  Listed(L)' /\ Moves(sched, sched', L, L)
<1>1. Typed /\ Typed'
  BY DEF Backed
<1>2. Rest(sched', L)
  BY DEF Listed
<1>3. \A t : Has(L["blocked"], t) <=> Has(semCond', t) \/ Has(objCond', t)
  BY DEF Listed
<1>4. \A i, j \in 1 .. Len(semCond') : semCond'[i] = semCond'[j] => i = j
  BY DEF Listed
<1>5. ASSUME NEW t, Has(semCond', t) PROVE AtGet(todo'[t]) /\ Head(todo'[t]).n > count'
  <2>1. Has(semCond, t)
    BY <1>5
  <2>2. t # me /\ t \in Workers
    BY <1>1, <2>1, ListedFacts
  <2>3. todo'[t] = todo[t]
    <3>1. todo \in [Workers -> Seq(Call)]
      BY <1>1 DEF Typed
    <3> QED BY <2>2, <3>1
  <2>4. AtGet(todo[t]) /\ Head(todo[t]).n > count
    BY <2>1 DEF Listed
  <2>5. PICK c \in Nat, d \in Nat, n \in Nat : c = count /\ d = count' /\ n = Head(todo[t]).n
    BY <1>1, <2>2, <2>4 DEF Typed
  <2>6. n > d
    BY <2>4, <2>5
  <2> QED BY <2>3, <2>4, <2>5, <2>6
<1>6. objCond' # <<>> => objCond' = <<main>> /\ mainAt' = "wait" /\ objections' > 0
  BY DEF Listed
<1>7. ASSUME NEW t, Has(L["terminated"], t) PROVE t \in Workers /\ todo'[t] = <<>>
  <2>1. t \in Workers /\ todo[t] = <<>>
    BY <1>7 DEF Listed
  <2>2. t # me
    BY <1>1, <1>7, ListedFacts
  <2>3. todo \in [Workers -> Seq(Call)]
    BY <1>1 DEF Typed
  <2> QED BY <2>1, <2>2, <2>3
<1>8. mainAt' \in {"start", "yield", "shutdown"} => sched'.curr = main
  BY DEF Listed, me
<1>9. mainAt' = "start" => semCond' = <<>> /\ objCond' = <<>> /\ L["terminated"] = <<>>
  BY DEF Listed
<1>10. mainAt' # "start" => \A t \in Threads : On(L, t) \/ t = sched'.curr
  BY DEF Listed
<1>11. Listed(L)'
  BY <1>2, <1>3, <1>4, <1>5, <1>6, <1>7, <1>8, <1>9, <1>10 DEF Listed
<1>12. Moves(sched, sched', L, L)
  BY DEF Moves
<1> QED BY <1>11, <1>12

\* What holds of the gets and of the worker that runs.
LEMMA Running ==
  ASSUME Typed, NEW L, Listed(L)
  PROVE  /\ \A t \in Workers : AtGet(todo[t]) => Head(todo[t]).n \in Nat
         /\ me \in Workers => mainAt \in {"look", "wait"}
<1>1. ASSUME NEW t \in Workers, AtGet(todo[t]) PROVE Head(todo[t]).n \in Nat
  BY <1>1, HeadIsCall, CallFacts DEF AtGet
<1>2. ASSUME me \in Workers PROVE mainAt \in {"look", "wait"}
  <2>1. me # main
    BY <1>2, ThreadAssumption
  <2> QED BY <2>1 DEF Typed, Listed, me
<1> QED BY <1>1, <1>2

LEMMA QuietSteps ==
  ASSUME Backed(0), Backed(0)', NEW L, Listed(L),
         \/ WaitAllDropped \/ MainLooks \/ MainShutdown \/ Get \/ Raise
         \/ TaskYield /\ L["active"] = <<>>
         \/ MainYields /\ L["active"] = <<>>
         \/ Drop /\ objections' # 0
  PROVE  Listed(L)' /\ Moves(sched, sched', L, L)
<1>1. Typed /\ Typed' /\ Rest(sched, L)
  BY DEF Backed, Listed
<1>2. /\ \A t \in Workers : AtGet(todo[t]) => Head(todo[t]).n \in Nat
      /\ me \in Workers => mainAt \in {"look", "wait"}
  BY <1>1, Running
<1>3. /\ count \in Nat /\ count <= count /\ count' \in Nat /\ objections' \in Nat /\ objections \in Nat
  BY <1>1 DEF Typed
<1>4. objCond # <<>> => mainAt = "wait" /\ objections > 0 /\ Has(objCond, main)
  <2>1. objCond = <<main>> => Has(objCond, main)
    <3>1. \A s : s = <<main>> => Len(s) = 1 /\ s[1] = main
      OBVIOUS
    <3>2. 1 \in 1 .. 1
      OBVIOUS
    <3> QED BY <3>1, <3>2 DEF Has
  <2> QED BY <2>1 DEF Listed
<1>5. objCond # <<>> => me # main
  BY <1>1, <1>4, ListedFacts
<1>6. ASSUME NEW op, Calls(op), Return
      PROVE  /\ me \in Workers /\ todo[me] # <<>> /\ Head(todo[me]).op = op /\ mainAt # "start"
             /\ todo' = [todo EXCEPT ![me] = Tail(todo[me])]
  BY <1>2, <1>6 DEF Calls, Return
<1>7. L["active"] = <<>> => YieldThread(sched) = sched
  BY <1>1, YieldAlone
<1>8. CASE WaitAllDropped
  <2>1. ASSUME NEW t \in Threads PROVE On(L, t) \/ t = sched.curr
    <3>1. CASE t = main
      BY <1>8, <3>1 DEF WaitAllDropped, me
    <3>2. CASE t # main
      <4>1. t \in Workers
        BY <3>2 DEF Threads
      <4>2. OnList(sched, "active") = L["active"]
        BY <1>1, OnListIs, RestFacts DEF Rest
      <4>3. t \in Range(L["active"])
        BY <1>8, <4>1, <4>2 DEF WaitAllDropped
      <4>4. PICK s \in Seq(Threads) : s = L["active"]
        BY <1>1, RestFacts
      <4>5. Has(s, t)
        BY <4>3, <4>4 DEF Range, Has
      <4> QED BY <4>4, <4>5, Parts
    <3> QED BY <3>1, <3>2
  <2>2. me = main /\ mainAt' = "yield" /\ UNCHANGED <<sched, todo, count, semCond, objections, objCond>>
    BY <1>8 DEF WaitAllDropped, semVars, objVars
  <2> QED BY <1>2, <1>3, <1>5, <2>1, <2>2, QuietMoves
<1>9. CASE MainLooks \/ MainShutdown
  <2>1. /\ me = main /\ mainAt \in {"look", "wait"} /\ mainAt' # "start"
        /\ UNCHANGED <<sched, todo, count, semCond, objections, objCond>>
    BY <1>9 DEF MainLooks, MainShutdown, semVars, objVars
  <2> QED BY <1>2, <1>3, <1>5, <2>1, QuietMoves
<1>10. CASE MainYields /\ L["active"] = <<>>
  <2>1. /\ me = main /\ mainAt = "yield" /\ mainAt' = "look"
        /\ UNCHANGED <<sched, todo, count, semCond, objections, objCond>>
    BY <1>7, <1>10 DEF MainYields, semVars, objVars
  <2> QED BY <1>2, <1>3, <1>5, <2>1, QuietMoves
<1>11. CASE TaskYield /\ L["active"] = <<>>
  <2>1. /\ Calls("yield") /\ Return /\ mainAt' = mainAt
        /\ UNCHANGED <<sched, count, semCond, objections, objCond>>
    BY <1>7, <1>11 DEF TaskYield, mainVars, semVars, objVars
  <2>2. me \in Workers /\ todo[me] # <<>> /\ mainAt # "start" /\ todo' = [todo EXCEPT ![me] = Tail(todo[me])]
    BY <1>6, <2>1
  <2> QED BY <1>2, <1>3, <1>4, <2>1, <2>2, QuietMoves
<1>12. CASE Get
  <2>1. /\ Calls("get") /\ Return /\ mainAt' = mainAt /\ count' = count - Head(todo[me]).n
        /\ UNCHANGED <<sched, semCond, objections, objCond>>
    BY <1>12 DEF Get, mainVars, objVars
  <2>2. me \in Workers /\ todo[me] # <<>> /\ mainAt # "start" /\ Head(todo[me]).op = "get"
        /\ todo' = [todo EXCEPT ![me] = Tail(todo[me])]
    BY <1>6, <2>1
  <2>3. PICK n \in Nat : n = Head(todo[me]).n
    BY <1>2, <2>2 DEF AtGet
  <2>4. count' <= count
    BY <1>3, <2>1, <2>3
  <2> QED BY <1>2, <1>3, <1>4, <2>1, <2>2, <2>4, QuietMoves
<1>13. CASE Raise
  <2>1. /\ Calls("raise") /\ Return /\ mainAt' = mainAt /\ objections' = objections + 1
        /\ UNCHANGED <<sched, count, semCond, objCond>>
    BY <1>13 DEF Raise, mainVars, semVars
  <2>2. me \in Workers /\ todo[me] # <<>> /\ mainAt # "start" /\ todo' = [todo EXCEPT ![me] = Tail(todo[me])]
    BY <1>6, <2>1
  <2>3. objections' > 0
    BY <1>3, <2>1
  <2> QED BY <1>2, <1>3, <1>4, <2>1, <2>2, <2>3, QuietMoves
<1>14. CASE Drop /\ objections' # 0
  <2>1. /\ Calls("drop") /\ Return /\ mainAt' = mainAt
        /\ UNCHANGED <<sched, count, semCond, objCond>>
    BY <1>14 DEF Drop, mainVars, semVars
  <2>2. me \in Workers /\ todo[me] # <<>> /\ mainAt # "start" /\ todo' = [todo EXCEPT ![me] = Tail(todo[me])]
    BY <1>6, <2>1
  <2>3. objections' > 0
    BY <1>3, <1>14
  <2> QED BY <1>2, <1>3, <1>4, <2>1, <2>2, <2>3, QuietMoves
<1> QED BY <1>8, <1>9, <1>10, <1>11, <1>12, <1>13, <1>14


\* The running thread goes to the end of the active list.
LEMMA YieldSteps ==
  ASSUME Backed(0), Backed(0)', NEW L, Listed(L), L["active"] # <<>>, TaskYield \/ MainYields,
         NEW K, K = Yielded(sched, L)
  PROVE  Listed(K)' /\ Moves(sched, sched', L, K)
<1>1. Typed /\ Rest(sched, L) /\ sched' = YieldThread(sched)
  BY DEF Backed, Listed, TaskYield, MainYields
<1>2. Rest(sched', K) /\ sched'.curr = L["active"][1]
  BY <1>1, YieldIs
<1>3. /\ K["blocked"] = L["blocked"] /\ K["terminated"] = L["terminated"]
      /\ \A u : On(L, u) \/ u = sched.curr => On(K, u) \/ u = L["active"][1]
  BY <1>1, YieldedForm
<1>4. /\ mainAt # "start" /\ mainAt' \notin {"start", "yield", "shutdown"}
      /\ mainAt' = mainAt \/ me = main
      /\ UNCHANGED <<count, semCond, objections, objCond>>
  <2>1. CASE TaskYield
    <3>1. me \in Workers /\ UNCHANGED <<mainAt, count, semCond, objections, objCond>>
      BY <2>1 DEF TaskYield, Calls, mainVars, semVars, objVars
    <3> QED BY <1>1, <3>1, Running
  <2>2. CASE MainYields
    BY <2>2 DEF MainYields, semVars, objVars
  <2> QED BY <2>1, <2>2
<1>5. objCond # <<>> => mainAt' = mainAt
  <2>1. ASSUME objCond # <<>> PROVE me # main
    <3>1. mainAt = "wait"
      BY <2>1 DEF Listed
    <3>2. CASE TaskYield
      BY <3>2, ThreadAssumption DEF TaskYield, Calls
    <3>3. CASE MainYields
      BY <3>1, <3>3 DEF MainYields
    <3> QED BY <3>2, <3>3
  <2> QED BY <1>4, <2>1
<1>6. \A t : t # me /\ t \in Workers => todo'[t] = todo[t]
  <2>1. todo \in [Workers -> Seq(Call)]
    BY <1>1 DEF Typed
  <2> QED BY <2>1 DEF TaskYield, MainYields, Return
<1>7. ASSUME NEW t, Has(semCond', t) PROVE AtGet(todo'[t]) /\ Head(todo'[t]).n > count'
  <2>1. Has(semCond, t)
    BY <1>4, <1>7
  <2>2. t # me /\ t \in Workers
    BY <1>1, <2>1, ListedFacts
  <2> QED BY <1>4, <1>6, <2>1, <2>2 DEF Listed
<1>8. ASSUME NEW t, Has(K["terminated"], t) PROVE t \in Workers /\ todo'[t] = <<>>
  <2>1. t # me /\ Has(L["terminated"], t)
    BY <1>1, <1>3, <1>8, ListedFacts
  <2> QED BY <1>6, <2>1 DEF Listed
<1>9. \A t \in Threads : On(K, t) \/ t = sched'.curr
  BY <1>2, <1>3, <1>4 DEF Listed
<1>10. objCond' # <<>> => objCond' = <<main>> /\ mainAt' = "wait" /\ objections' > 0
  BY <1>4, <1>5 DEF Listed
<1>11. \A t : Has(K["blocked"], t) <=> Has(semCond', t) \/ Has(objCond', t)
  BY <1>3, <1>4 DEF Listed
<1>12. \A i, j \in 1 .. Len(semCond') : semCond'[i] = semCond'[j] => i = j
  BY <1>4 DEF Listed
<1>13. Listed(K)'
  BY <1>2, <1>4, <1>7, <1>8, <1>9, <1>10, <1>11, <1>12 DEF Listed
<1>14. Moves(sched, sched', L, K)
  BY <1>2 DEF Moves
<1> QED BY <1>13, <1>14

\* The running thread has nothing to do until somebody wakes it, or has ended.
LEMMA GetWaitsStep ==
  ASSUME Backed(0), NEW L, Listed(L), GetWaits, NEW K, K = GivenUp(sched, L, "blocked")
  PROVE  Listed(K)' /\ L["active"] # <<>> /\ Moves(sched, sched', L, K)
<1>1. Typed /\ Rest(sched, L)
  BY DEF Backed, Listed
<1>2. /\ me \in Workers /\ AtGet(todo[me]) /\ count < Head(todo[me]).n
      /\ semCond' = <<me>> \o semCond /\ sched' = Switch(AppendThread(sched, "blocked", sched.curr))
      /\ UNCHANGED <<mainAt, todo, count, objections, objCond>>
  BY DEF GetWaits, Calls, AtGet, CondWait, BlockThread, mainVars, objVars, me
<1>3. mainAt \in {"look", "wait"} /\ Head(todo[me]).n \in Nat /\ count \in Nat
  BY <1>1, <1>2, Running DEF Typed
<1>4. Head(todo[me]).n > count
  <2>1. PICK c \in Nat, n \in Nat : c = count /\ n = Head(todo[me]).n
    BY <1>3
  <2>2. n > c
    BY <1>2, <2>1
  <2> QED BY <2>1, <2>2
<1>5. L["active"] # <<>>
  BY <1>2, <1>3, <1>4, NotAlone, ThreadAssumption
<1>6. Rest(sched', K) /\ sched'.curr = L["active"][1]
  BY <1>1, <1>2, <1>5, GiveUpIs
<1>7. /\ K["blocked"] = Append(L["blocked"], sched.curr) /\ K["terminated"] = L["terminated"]
      /\ \A u : On(L, u) \/ u = sched.curr => On(K, u) \/ u = L["active"][1]
  BY <1>1, <1>5, GivenUpForm
<1>17. PICK t \in Workers, s \in Seq(Workers) : t = me /\ s = semCond
  BY <1>1, <1>2 DEF Typed
<1>18. PICK r : r = <<t>> \o s
  OBVIOUS
<1>8. t = me /\ s = semCond /\ r = <<t>> \o s
  BY <1>17, <1>18
<1>19. Fronted(r, s, t)
  BY <1>8, HasFirst
<1>9. r = semCond' /\ ~Has(s, t) /\ \A i, j \in 1 .. Len(s) : s[i] = s[j] => i = j
  BY <1>1, <1>2, <1>8, ListedFacts DEF Listed
<1>10. \A u : Has(r, u) <=> Has(s, u) \/ u = t
  BY <1>19 DEF Fronted
<1>11. \A i, j \in 1 .. Len(r) : r[i] = r[j] => i = j
  BY <1>9, <1>19 DEF Fronted
<1>12. \A u : Has(K["blocked"], u) <=> Has(L["blocked"], u) \/ u = t
  <2>1. PICK B \in Seq(Threads) : B = L["blocked"]
    BY <1>1, RestFacts
  <2>2. t \in Threads
    BY Facts
  <2>3. \A u : Has(Append(B, t), u) <=> Has(B, u) \/ u = t
    BY <2>1, <2>2, HasAppend
  <2> QED BY <1>7, <1>8, <2>1, <2>3 DEF me
<1>13. \A u : Has(K["blocked"], u) <=> Has(semCond', u) \/ Has(objCond', u)
  <2>1. \A u : Has(K["blocked"], u) <=> Has(semCond, u) \/ Has(objCond, u) \/ u = t
    BY <1>12 DEF Listed
  <2> QED BY <1>2, <1>8, <1>9, <1>10, <2>1
<1>14. ASSUME NEW u, Has(semCond', u) PROVE AtGet(todo'[u]) /\ Head(todo'[u]).n > count'
  BY <1>2, <1>4, <1>8, <1>9, <1>10, <1>14 DEF Listed
<1>15. Listed(K)'
  <2>1. \A i, j \in 1 .. Len(semCond') : semCond'[i] = semCond'[j] => i = j
    BY <1>9, <1>11
  <2>2. objCond' # <<>> => objCond' = <<main>> /\ mainAt' = "wait" /\ objections' > 0
    BY <1>2 DEF Listed
  <2>3. \A u : Has(K["terminated"], u) => u \in Workers /\ todo'[u] = <<>>
    BY <1>2, <1>7 DEF Listed
  <2>4. mainAt' \notin {"start", "yield", "shutdown"}
    BY <1>2, <1>3
  <2>5. \A u \in Threads : On(K, u) \/ u = sched'.curr
    BY <1>3, <1>6, <1>7 DEF Listed
  <2> QED BY <1>6, <1>13, <1>14, <2>1, <2>2, <2>3, <2>4, <2>5 DEF Listed
<1>16. Moves(sched, sched', L, K)
  BY <1>5, <1>6 DEF Moves
<1> QED BY <1>5, <1>15, <1>16

LEMMA MainWaitsStep ==
  ASSUME Backed(0), NEW L, Listed(L), MainWaits, NEW K, K = GivenUp(sched, L, "blocked")
  PROVE  Listed(K)' /\ L["active"] # <<>> /\ Moves(sched, sched', L, K)
<1>1. Typed /\ Rest(sched, L)
  BY DEF Backed, Listed
<1>2. /\ me = main /\ mainAt = "wait" /\ objections > 0
      /\ objCond' = <<main>> \o objCond /\ sched' = Switch(AppendThread(sched, "blocked", sched.curr))
      /\ UNCHANGED <<mainAt, todo, count, semCond, objections>>
  BY DEF MainWaits, CondWait, BlockThread, mainVars, semVars, me
<1>3. objCond = <<>>
  <2>1. ASSUME objCond = <<main>> PROVE Has(objCond, main)
    <3>1. \A s : s = <<main>> => Len(s) = 1 /\ s[1] = main
      OBVIOUS
    <3>2. 1 \in 1 .. 1
      OBVIOUS
    <3> QED BY <2>1, <3>1, <3>2 DEF Has
  <2>2. objCond # <<main>>
    BY <1>1, <1>2, <2>1, ListedFacts
  <2> QED BY <2>2 DEF Listed
<1>4. objCond' = <<main>> /\ objCond' # <<>>
  <2>1. <<main>> \o <<>> = <<main>> /\ <<main>> # <<>>
    <3>1. <<main>> \in Seq({main})
      OBVIOUS
    <3> QED BY <3>1
  <2> QED BY <1>2, <1>3, <2>1
<1>5. L["active"] # <<>>
  BY <1>2, NotAlone, ThreadAssumption
<1>6. Rest(sched', K) /\ sched'.curr = L["active"][1]
  BY <1>1, <1>2, <1>5, GiveUpIs
<1>7. /\ K["blocked"] = Append(L["blocked"], sched.curr) /\ K["terminated"] = L["terminated"]
      /\ \A u : On(L, u) \/ u = sched.curr => On(K, u) \/ u = L["active"][1]
  BY <1>1, <1>5, GivenUpForm
<1>8. \A u : Has(K["blocked"], u) <=> Has(L["blocked"], u) \/ u = main
  <2>1. PICK B \in Seq(Threads) : B = L["blocked"]
    BY <1>1, RestFacts
  <2>2. \A u : Has(Append(B, main), u) <=> Has(B, u) \/ u = main
    BY <2>1, Facts, HasAppend
  <2> QED BY <1>2, <1>7, <2>1, <2>2 DEF me
<1>9. \A u : Has(objCond', u) <=> u = main
  <2>1. \A s, u : s = <<main>> => (Has(s, u) <=> u = main)
    <3>1. \A s : s = <<main>> => Len(s) = 1 /\ s[1] = main
      OBVIOUS
    <3>2. \A i \in 1 .. 1 : i = 1
      OBVIOUS
    <3>3. 1 \in 1 .. 1
      OBVIOUS
    <3> QED BY <3>1, <3>2, <3>3 DEF Has
  <2> QED BY <1>4, <2>1
<1>10. \A u : Has(K["blocked"], u) <=> Has(semCond', u) \/ Has(objCond', u)
  <2>1. \A u : Has(L["blocked"], u) <=> Has(semCond, u)
    BY <1>3, HasNone DEF Listed
  <2> QED BY <1>2, <1>8, <1>9, <2>1
<1>11. Listed(K)'
  <2>1. \A i, j \in 1 .. Len(semCond') : semCond'[i] = semCond'[j] => i = j
    BY <1>2 DEF Listed
  <2>2. \A u : Has(semCond', u) => AtGet(todo'[u]) /\ Head(todo'[u]).n > count'
    BY <1>2 DEF Listed
  <2>3. \A u : Has(K["terminated"], u) => u \in Workers /\ todo'[u] = <<>>
    BY <1>2, <1>7 DEF Listed
  <2>5. \A u \in Threads : On(K, u) \/ u = sched'.curr
    BY <1>2, <1>6, <1>7 DEF Listed
  <2> QED BY <1>2, <1>4, <1>6, <1>10, <2>1, <2>2, <2>3, <2>5 DEF Listed
<1>12. Moves(sched, sched', L, K)
  BY <1>5, <1>6 DEF Moves
<1> QED BY <1>5, <1>11, <1>12

LEMMA TaskEndStep ==
  ASSUME Backed(0), NEW L, Listed(L), TaskEnd, NEW K, K = GivenUp(sched, L, "terminated")
  PROVE  Listed(K)' /\ L["active"] # <<>> /\ Moves(sched, sched', L, K)
<1>1. Typed /\ Rest(sched, L)
  BY DEF Backed, Listed
<1>2. /\ me \in Workers /\ todo[me] = <<>> /\ sched' = Switch(AppendThread(sched, "terminated", sched.curr))
      /\ UNCHANGED <<mainAt, todo, count, semCond, objections, objCond>>
  BY DEF TaskEnd, EndThread, mainVars, semVars, objVars, me
<1>3. mainAt \in {"look", "wait"}
  BY <1>1, <1>2, Running
<1>5. L["active"] # <<>>
  BY <1>2, <1>3, NotAlone, ThreadAssumption
<1>6. Rest(sched', K) /\ sched'.curr = L["active"][1]
  BY <1>1, <1>2, <1>5, GiveUpIs
<1>7. /\ K["terminated"] = Append(L["terminated"], sched.curr) /\ K["blocked"] = L["blocked"]
      /\ \A u : On(L, u) \/ u = sched.curr => On(K, u) \/ u = L["active"][1]
  BY <1>1, <1>5, GivenUpForm
<1>8. \A u : Has(K["terminated"], u) <=> Has(L["terminated"], u) \/ u = me
  <2>1. PICK B \in Seq(Threads), t \in Threads : B = L["terminated"] /\ t = me
    BY <1>1, RestFacts DEF me
  <2>2. \A u : Has(Append(B, t), u) <=> Has(B, u) \/ u = t
    BY <2>1, HasAppend
  <2> QED BY <1>7, <2>1, <2>2 DEF me
<1>11. Listed(K)'
  <2>1. \A i, j \in 1 .. Len(semCond') : semCond'[i] = semCond'[j] => i = j
    BY <1>2 DEF Listed
  <2>2. \A u : Has(semCond', u) => AtGet(todo'[u]) /\ Head(todo'[u]).n > count'
    BY <1>2 DEF Listed
  <2>3. \A u : Has(K["terminated"], u) => u \in Workers /\ todo'[u] = <<>>
    BY <1>2, <1>8 DEF Listed
  <2>4. \A u : Has(K["blocked"], u) <=> Has(semCond', u) \/ Has(objCond', u)
    BY <1>2, <1>7 DEF Listed
  <2>5. \A u \in Threads : On(K, u) \/ u = sched'.curr
    BY <1>3, <1>6, <1>7 DEF Listed
  <2>6. objCond' # <<>> => objCond' = <<main>> /\ mainAt' = "wait" /\ objections' > 0
    BY <1>2 DEF Listed
  <2> QED BY <1>2, <1>3, <1>6, <2>1, <2>2, <2>3, <2>4, <2>5, <2>6 DEF Listed
<1>12. Moves(sched, sched', L, K)
  BY <1>5, <1>6 DEF Moves
<1> QED BY <1>5, <1>11, <1>12


\* A task returns from a call that wakes all of cond; kept is the other condition's list.
LEMMA WakeStep ==
  ASSUME Backed(0), NEW L, Listed(L), Backed(0)',
         NEW cond \in Seq(Threads), NEW kept, sched' = WakeAll(sched, cond),
         me \in Workers, todo[me] # <<>>, todo' = [todo EXCEPT ![me] = Tail(todo[me])],
         mainAt' = mainAt,
         \/ /\ cond = semCond /\ kept = objCond /\ semCond' = <<>> /\ objCond' = objCond
            /\ objections' = objections
         \/ /\ cond = objCond /\ kept = semCond /\ objCond' = <<>> /\ semCond' = semCond
            /\ count' = count
  PROVE  \E K : Listed(K)' /\ Moves(sched, sched', L, K)
<1>1. Typed /\ Rest(sched, L)
  BY DEF Backed, Listed
<1>2. /\ \A t : Has(L["blocked"], t) <=> Has(cond, t) \/ Has(kept, t)
      /\ \A t : ~(Has(cond, t) /\ Has(kept, t))
  <2>1. \A t : ~(Has(semCond, t) /\ Has(objCond, t))
    BY <1>1, ListedFacts
  <2> QED BY <2>1 DEF Listed
<1>3. \A i, j \in 1 .. Len(cond) : cond[i] = cond[j] => i = j
  <2>1. CASE cond = semCond
    BY <2>1 DEF Listed
  <2>2. CASE cond = objCond
    <3>1. cond = <<>> \/ cond = <<main>>
      BY <2>2 DEF Listed
    <3>2. PICK n \in {0, 1} : n = Len(cond)
      BY <3>1
    <3>3. \A i \in 1 .. n : i = 1
      OBVIOUS
    <3> QED BY <3>2, <3>3
  <2> QED BY <2>1, <2>2
<1>4. \A i \in 1 .. Len(cond) : Has(L["blocked"], cond[i])
  BY <1>2 DEF Has
<1>5. PICK K : Rest(sched', K) /\ sched'.curr = sched.curr /\ Awake(L, K, cond)
  BY <1>1, <1>3, <1>4, WakeIs
<1>6. /\ K["terminated"] = L["terminated"] /\ \A u : On(K, u) <=> On(L, u)
      /\ \A u : Has(K["blocked"], u) <=> Has(L["blocked"], u) /\ ~Has(cond, u)
  BY <1>5 DEF Awake
<1>7. \A u : Has(K["blocked"], u) <=> Has(kept, u)
  BY <1>2, <1>6
<1>8. \A u : Has(K["blocked"], u) <=> Has(semCond', u) \/ Has(objCond', u)
  <2>1. CASE semCond' = <<>> /\ objCond' = kept
    BY <1>7, <2>1, HasNone
  <2>2. CASE semCond' = kept /\ objCond' = <<>>
    BY <1>7, <2>2, HasNone
  <2> QED BY <2>1, <2>2
<1>9. mainAt' \in {"look", "wait"} /\ mainAt \in {"look", "wait"}
  BY <1>1, Running
<1>10. \A t \in Workers : t # me => todo'[t] = todo[t]
  <2>1. todo \in [Workers -> Seq(Call)]
    BY <1>1 DEF Typed
  <2> QED BY <2>1
<1>11. ASSUME NEW t, Has(semCond', t) PROVE AtGet(todo'[t]) /\ Head(todo'[t]).n > count'
  <2>1. semCond' = semCond /\ count' = count
    BY <1>11, HasNone
  <2>2. t # me /\ t \in Workers
    BY <1>1, <1>11, <2>1, ListedFacts
  <2> QED BY <1>10, <1>11, <2>1, <2>2 DEF Listed
<1>12. ASSUME NEW t, Has(K["terminated"], t) PROVE t \in Workers /\ todo'[t] = <<>>
  <2>1. t # me /\ Has(L["terminated"], t)
    BY <1>1, <1>6, <1>12, ListedFacts
  <2> QED BY <1>10, <2>1 DEF Listed
<1>13. \A i, j \in 1 .. Len(semCond') : semCond'[i] = semCond'[j] => i = j
  <2>1. CASE semCond' = <<>>
    <3>1. \A i : i \notin 1 .. Len(semCond')
      BY <2>1
    <3> QED BY <3>1
  <2>2. CASE semCond' = semCond
    BY <2>2 DEF Listed
  <2> QED BY <2>1, <2>2
<1>14. objCond' # <<>> => objCond' = <<main>> /\ mainAt' = "wait" /\ objections' > 0
  BY DEF Listed
<1>15. Listed(K)'
  <2>1. \A u \in Threads : On(K, u) \/ u = sched'.curr
    BY <1>5, <1>6, <1>9 DEF Listed
  <2> QED BY <1>5, <1>8, <1>9, <1>11, <1>12, <1>13, <1>14, <2>1 DEF Listed
<1>16. Moves(sched, sched', L, K)
  <2>1. \A t : Has(cond, t) => Has(L["blocked"], t)
    BY <1>2
  <2>2. \E co \in Seq(Threads) :
          /\ \A i, j \in 1 .. Len(co) : co[i] = co[j] => i = j
          /\ \A t : Has(co, t) => Has(L["blocked"], t)
          /\ Awake(L, K, co)
    BY <1>3, <1>5, <2>1
  <2> QED BY <1>5, <2>2 DEF Moves
<1> QED BY <1>15, <1>16

LEMMA WakingSteps ==
  ASSUME Backed(0), NEW L, Listed(L), Backed(0)', Put \/ (Drop /\ objections' = 0)
  PROVE  \E K : Listed(K)' /\ Moves(sched, sched', L, K)
<1>1. Typed
  BY DEF Backed
<1>2. semCond \in Seq(Threads) /\ objCond \in Seq(Threads)
  <2>1. \A s \in Seq(Workers) : s \in Seq(Threads)
    BY Facts
  <2>2. \A s \in Seq({main}) : s \in Seq(Threads)
    BY Facts
  <2> QED BY <1>1, <2>1, <2>2 DEF Typed
<1>3. ASSUME NEW op, Calls(op), Return
      PROVE  me \in Workers /\ todo[me] # <<>> /\ todo' = [todo EXCEPT ![me] = Tail(todo[me])]
  BY <1>3 DEF Calls, Return
<1>4. CASE Put
  <2>1. /\ Calls("put") /\ Return /\ mainAt' = mainAt /\ sched' = WakeAll(sched, semCond)
        /\ semCond' = <<>> /\ UNCHANGED <<objCond, objections>>
    BY <1>4 DEF Put, mainVars, objVars
  <2>2. me \in Workers /\ todo[me] # <<>> /\ todo' = [todo EXCEPT ![me] = Tail(todo[me])]
    BY <1>3, <2>1
  <2> QED BY <1>2, <2>1, <2>2, WakeStep
<1>5. CASE Drop /\ objections' = 0
  <2>1. /\ Calls("drop") /\ Return /\ mainAt' = mainAt /\ sched' = WakeAll(sched, objCond)
        /\ objCond' = <<>> /\ UNCHANGED <<semCond, count>>
    BY <1>5 DEF Drop, mainVars, semVars
  <2>2. me \in Workers /\ todo[me] # <<>> /\ todo' = [todo EXCEPT ![me] = Tail(todo[me])]
    BY <1>3, <2>1
  <2> QED BY <1>2, <2>1, <2>2, WakeStep
<1> QED BY <1>4, <1>5

LEMMA StartStep ==
  ASSUME Backed(0), NEW L, Listed(L), Start
  PROVE  \E K : Listed(K)' /\ Moves(sched, sched', L, K)
<1>1. Typed /\ Rest(sched, L)
  BY DEF Backed, Listed
<1>2. /\ me = main /\ mainAt = "start"
      /\ UNCHANGED <<mainAt, todo, count, semCond, objections, objCond>>
  BY DEF Start, mainVars, semVars, objVars
<1>3. PICK t \in Workers : t \notin Range(OnList(sched, "active")) /\ sched' = CreateThread(sched, t)
  BY DEF Start
<1>4. semCond = <<>> /\ objCond = <<>> /\ L["terminated"] = <<>>
  BY <1>2 DEF Listed
<1>5. ~On(L, t) /\ t # sched.curr /\ t \in Threads
  <2>1. ~Has(L["blocked"], t) /\ ~Has(L["terminated"], t)
    BY <1>4, HasNone DEF Listed
  <2>2. OnList(sched, "active") = L["active"]
    BY <1>1, OnListIs, RestFacts DEF Rest
  <2>3. ~Has(L["active"], t)
    <3>1. PICK s \in Seq(Threads) : s = L["active"]
      BY <1>1, RestFacts
    <3> QED BY <1>3, <2>2, <3>1 DEF Range, Has
  <2> QED BY <1>2, <2>1, <2>3, Facts, Parts, ThreadAssumption DEF me
<1>6. PICK K : K = Appended(L, "active", t)
  OBVIOUS
<1>7. Rest(sched', K) /\ sched'.curr = sched.curr
  BY <1>1, <1>3, <1>5, <1>6, CreateIs
<1>8. K["blocked"] = L["blocked"] /\ K["terminated"] = L["terminated"]
  <2>1. L \in [Lists -> Seq(Threads)] /\ "active" \in Lists
    BY <1>1, RestFacts
  <2> QED BY <1>6, <2>1 DEF Appended, Lists
<1>9. Listed(K)'
  <2>1. \A i, j \in 1 .. Len(semCond') : semCond'[i] = semCond'[j] => i = j
    BY <1>2 DEF Listed
  <2>2. \A u : Has(semCond', u) => AtGet(todo'[u]) /\ Head(todo'[u]).n > count'
    BY <1>2 DEF Listed
  <2>3. \A u : Has(K["terminated"], u) => u \in Workers /\ todo'[u] = <<>>
    BY <1>2, <1>8 DEF Listed
  <2>4. \A u : Has(K["blocked"], u) <=> Has(semCond', u) \/ Has(objCond', u)
    BY <1>2, <1>8 DEF Listed
  <2>5. sched'.curr = main
    BY <1>2, <1>7 DEF me
  <2> QED BY <1>2, <1>4, <1>7, <1>8, <2>1, <2>2, <2>3, <2>4, <2>5 DEF Listed
<1>10. Moves(sched, sched', L, K)
  BY <1>5, <1>6, <1>7 DEF Moves
<1> QED BY <1>9, <1>10

LEMMA ListedNext ==
  ASSUME Backed(0), Backed(0)', NEW L, Listed(L), [Next]_vars
  PROVE  \E K : Listed(K)' /\ Moves(sched, sched', L, K)
<1>1. CASE WaitAllDropped \/ MainLooks \/ MainShutdown \/ Get \/ Raise
  BY <1>1, QuietSteps
<1>2. CASE TaskYield \/ MainYields
  <2>1. CASE L["active"] = <<>>
    BY <1>2, <2>1, QuietSteps
  <2>2. CASE L["active"] # <<>>
    BY <1>2, <2>2, YieldSteps
  <2> QED BY <2>1, <2>2
<1>3. CASE Put
  BY <1>3, WakingSteps
<1>4. CASE Drop
  <2>1. CASE objections' = 0
    BY <1>4, <2>1, WakingSteps
  <2>2. CASE objections' # 0
    BY <1>4, <2>2, QuietSteps
  <2> QED BY <2>1, <2>2
<1>5. CASE GetWaits \/ MainWaits \/ TaskEnd
  BY <1>5, GetWaitsStep, MainWaitsStep, TaskEndStep
<1>6. CASE Start
  BY <1>6, StartStep
<1>7. CASE UNCHANGED vars
  <2>1. UNCHANGED <<sched, mainAt, todo, count, semCond, objections, objCond>>
    BY <1>7 DEF vars, mainVars, semVars, objVars
  <2> QED BY <2>1 DEF Listed, Moves
<1> QED BY <1>1, <1>2, <1>3, <1>4, <1>5, <1>6, <1>7 DEF Next


-----------------------------------------------------------------------------
(* What the lists show.                                                    *)

Once(s) == \A i, j \in 1 .. Len(s) : s[i] = s[j] => i = j

\* j is a before b.
Together(j, a, b) ==
  /\ \A u : Has(j, u) <=> Has(a, u) \/ Has(b, u)
  /\ Once(a) /\ Once(b) /\ (\A u : ~(Has(a, u) /\ Has(b, u))) => Once(j)

LEMMA HasBoth ==
  ASSUME NEW S, NEW a \in Seq(S), NEW b \in Seq(S), NEW j, j = a \o b
  PROVE  j \in Seq(S) /\ Together(j, a, b)
<1>1. PICK m \in Nat, n \in Nat : m = Len(a) /\ n = Len(b)
  OBVIOUS
<1>2. j \in Seq(S) /\ Len(j) = m + n
  BY <1>1
<1>3. \A i \in 1 .. m + n : j[i] = IF i <= m THEN a[i] ELSE b[i - m]
  BY <1>1
<1>4. \A i \in 1 .. m : i \in 1 .. m + n /\ j[i] = a[i]
  BY <1>1, <1>3
<1>5. \A i \in 1 .. m + n : i <= m => i \in 1 .. m /\ j[i] = a[i]
  BY <1>1, <1>3
<1>6. \A i \in 1 .. m + n : ~(i <= m) => i - m \in 1 .. n /\ j[i] = b[i - m]
  BY <1>1, <1>3
<1>7. ASSUME NEW i \in 1 .. n PROVE m + i \in 1 .. m + n /\ j[m + i] = b[i]
  <2>1. PICK x \in 1 .. m + n : x = m + i /\ ~(x <= m) /\ x - m = i
    BY <1>1
  <2> QED BY <1>3, <2>1
<1>8. ASSUME NEW u, Has(j, u) PROVE Has(a, u) \/ Has(b, u)
  <2>1. PICK i \in 1 .. m + n : j[i] = u
    BY <1>2, <1>8 DEF Has
  <2>2. CASE i <= m
    BY <1>1, <1>5, <2>1, <2>2 DEF Has
  <2>3. CASE ~(i <= m)
    <3>1. i - m \in 1 .. n /\ b[i - m] = u
      BY <1>6, <2>1, <2>3
    <3> QED BY <1>1, <3>1 DEF Has
  <2> QED BY <2>2, <2>3
<1>9. ASSUME NEW u, Has(a, u) PROVE Has(j, u)
  <2>1. PICK i \in 1 .. m : a[i] = u
    BY <1>1, <1>9 DEF Has
  <2>2. i \in 1 .. m + n /\ j[i] = u
    BY <1>4, <2>1
  <2> QED BY <1>2, <2>2 DEF Has
<1>10. ASSUME NEW u, Has(b, u) PROVE Has(j, u)
  <2>1. PICK i \in 1 .. n : b[i] = u
    BY <1>1, <1>10 DEF Has
  <2>2. m + i \in 1 .. m + n /\ j[m + i] = u
    BY <1>7, <2>1
  <2> QED BY <1>2, <2>2 DEF Has
<1>11. ASSUME Once(a), Once(b), \A u : ~(Has(a, u) /\ Has(b, u)),
              NEW x \in 1 .. m + n, NEW y \in 1 .. m + n, j[x] = j[y]
       PROVE  x = y
  <2>1. /\ \A i, k \in 1 .. m : a[i] = a[k] => i = k
        /\ \A i, k \in 1 .. n : b[i] = b[k] => i = k
    BY <1>1, <1>11 DEF Once
  <2>2. \A i \in 1 .. m, k \in 1 .. n : a[i] # b[k]
    BY <1>1, <1>11 DEF Has
  <2>3. CASE x <= m /\ y <= m
    BY <1>5, <1>11, <2>1, <2>3
  <2>4. CASE ~(x <= m) /\ ~(y <= m)
    <3>1. PICK i \in 1 .. n, k \in 1 .. n : i = x - m /\ k = y - m
      BY <1>6, <2>4
    <3>2. j[x] = b[i] /\ j[y] = b[k]
      BY <1>6, <2>4, <3>1
    <3>3. i = k
      BY <1>11, <2>1, <3>2
    <3> QED BY <1>1, <3>1, <3>3
  <2>5. CASE x <= m /\ ~(y <= m)
    <3>1. j[x] = a[x] /\ x \in 1 .. m /\ y - m \in 1 .. n /\ j[y] = b[y - m]
      BY <1>5, <1>6, <2>5
    <3> QED BY <1>11, <2>2, <3>1
  <2>6. CASE ~(x <= m) /\ y <= m
    <3>1. j[y] = a[y] /\ y \in 1 .. m /\ x - m \in 1 .. n /\ j[x] = b[x - m]
      BY <1>5, <1>6, <2>6
    <3> QED BY <1>11, <2>2, <3>1
  <2> QED BY <2>3, <2>4, <2>5, <2>6
<1>12. Once(a) /\ Once(b) /\ (\A u : ~(Has(a, u) /\ Has(b, u))) => Once(j)
  BY <1>2, <1>11 DEF Once
<1>13. \A u : Has(j, u) <=> Has(a, u) \/ Has(b, u)
  BY <1>8, <1>9, <1>10
<1> QED BY <1>2, <1>12, <1>13 DEF Together

LEMMA InRange == ASSUME NEW S, NEW s \in Seq(S), NEW u PROVE u \in Range(s) <=> Has(s, u)
BY DEF Range, Has

LEMMA ApartOnce ==
  ASSUME NEW L, Apart(L), NEW l \in Lists, NEW m \in Lists
  PROVE  Once(L[l]) /\ (l # m => \A u : ~(Has(L[l], u) /\ Has(L[m], u)))
<1>1. Once(L[l])
  BY DEF Apart, Once
<1>2. ASSUME l # m, NEW u, Has(L[l], u), Has(L[m], u) PROVE FALSE
  <2>1. PICK i \in 1 .. Len(L[l]) : L[l][i] = u
    BY <1>2 DEF Has
  <2>2. PICK j \in 1 .. Len(L[m]) : L[m][j] = u
    BY <1>2 DEF Has
  <2> QED BY <1>2, <2>1, <2>2 DEF Apart
<1> QED BY <1>1, <1>2

LEMMA ListsShown ==
  ASSUME Typed, NEW L, Listed(L)
  PROVE  TaskTypeOK /\ ListsSound
<1>1. Rest(sched, L)
  BY DEF Listed
<1>2. sched \in Scheduler /\ Apart(L) /\ Back(sched.prev, L["blocked"])
  BY <1>1 DEF Rest, Sound
<1>3. TaskTypeOK
  BY <1>2 DEF Typed, TaskTypeOK
<1>4. PICK a \in Seq(Threads), b \in Seq(Threads), c \in Seq(Threads) :
        a = L["active"] /\ b = L["blocked"] /\ c = L["terminated"]
  BY <1>1, RestFacts
<1>5. OnList(sched, "active") = a /\ OnList(sched, "blocked") = b /\ OnList(sched, "terminated") = c
  BY <1>1, <1>4, OnListIs, RestFacts DEF Rest
<1>6. /\ Once(a) /\ Once(b) /\ Once(c)
      /\ \A u : ~(Has(a, u) /\ Has(b, u)) /\ ~(Has(a, u) /\ Has(c, u)) /\ ~(Has(b, u) /\ Has(c, u))
  BY <1>1, <1>2, <1>4, ApartOnce, RestFacts
<1>7. PICK ab : ab = a \o b
  OBVIOUS
<1>8. PICK all : all = ab \o c
  OBVIOUS
<1>9. ab \in Seq(Threads) /\ Together(ab, a, b)
  BY <1>7, HasBoth
<1>10. all \in Seq(Threads) /\ Together(all, ab, c)
  BY <1>8, <1>9, HasBoth
<1>11. Once(all)
  BY <1>6, <1>9, <1>10 DEF Together
<1>12. Cardinality(Range(all)) = Len(all)
  <2>1. PICK n \in Nat : n = Len(all)
    BY <1>10
  <2>2. \A i, j \in 1 .. n : all[i] = all[j] => i = j
    BY <1>11, <2>1 DEF Once
  <2> QED BY <1>10, <2>1, <2>2, OnceEach
<1>13. sched.curr \notin Range(all)
  <2>1. ~Has(a, me) /\ ~Has(b, me) /\ ~Has(c, me)
    BY <1>4, ListedFacts
  <2>2. ~Has(all, me)
    BY <1>9, <1>10, <2>1 DEF Together
  <2> QED BY <1>10, <2>2, InRange DEF me
<1>14. \A i \in DOMAIN b : sched.prev[b[i]] = IF i = 1 THEN null ELSE b[i - 1]
  BY <1>2, <1>4 DEF Back
<1>15. Range(b) = Range(semCond \o objCond)
  <2>1. semCond \in Seq(Threads) /\ objCond \in Seq(Threads)
    <3>1. \A s \in Seq(Workers) : s \in Seq(Threads)
      BY Facts
    <3>2. \A s \in Seq({main}) : s \in Seq(Threads)
      BY Facts
    <3> QED BY <3>1, <3>2 DEF Typed
  <2>2. PICK both : both = semCond \o objCond
    OBVIOUS
  <2>3. both \in Seq(Threads) /\ Together(both, semCond, objCond)
    BY <2>1, <2>2, HasBoth
  <2>4. \A u : Has(b, u) <=> Has(both, u)
    BY <1>4, <2>3 DEF Together, Listed
  <2>5. \A u : u \in Range(b) <=> u \in Range(both)
    BY <2>3, <2>4, InRange
  <2> QED BY <2>2, <2>5
<1>16. all = a \o b \o c
  BY <1>7, <1>8
<1>17. ListsSound
  BY <1>5, <1>12, <1>13, <1>14, <1>15, <1>16 DEF ListsSound
<1> QED BY <1>3, <1>17

-----------------------------------------------------------------------------
(* The theorems.                                                           *)

TaskInv == Backed(0) /\ \E L : Listed(L)

LEMMA BackedInit ==
  ASSUME Provided, TaskInit, NEW k \in {0, 1},
         k = 0 \/ \A b \in Bodies : \A t \in Workers : Objects(Program(b[t]))
  PROVE  Backed(k)
<1>1. PICK b \in Bodies : todo = [t \in Workers |-> Program(b[t])]
  BY DEF TaskInit
<1>2. PICK p : p = [t \in Workers |-> Program(b[t])]
  OBVIOUS
<1>3. p \in [Workers -> Seq(Call)] /\ Sensible(p)
  BY <1>2, ProgramType DEF Provided
<1>4. Supplied(p, 0)
  BY <1>3, SuppliedFirst
<1>5. k = 0 \/ \A t \in Workers : Objects(p[t])
  BY <1>2
<1>6. Objected(p, 0, [t \in Workers |-> 0], k)
  BY <1>3, <1>5, ObjectedFirst DEF Sensible
<1>7. Typed
  <2>1. <<>> \in Seq(Workers) /\ <<>> \in Seq({main})
    OBVIOUS
  <2>2. Looks \in Nat \ {0} /\ 0 \in 0 .. Looks /\ 0 < Looks
    BY TaskAssumption
  <2> QED BY <1>1, <1>2, <1>3, <2>1, <2>2 DEF TaskInit, Typed
<1> QED BY <1>1, <1>2, <1>4, <1>6, <1>7 DEF Backed, TaskInit

LEMMA ListedInit ==
  ASSUME TaskInit
  PROVE  \E L : Listed(L) /\ \A l \in Lists : L[l] = <<>>
<1>1. PICK L : L = [l \in Lists |-> <<>>]
  OBVIOUS
<1>2. sched = SchedulerInit
  BY DEF TaskInit
<1>3. /\ L["active"] = <<>> /\ L["blocked"] = <<>> /\ L["terminated"] = <<>>
      /\ L \in [Lists -> Seq(Threads)] /\ \A l \in Lists : L[l] = <<>>
  BY <1>1 DEF Lists
<1>4. \A i : i \notin 1 .. Len(<<>>)
  OBVIOUS
<1>5. \A u : ~On(L, u)
  BY <1>3, <1>4 DEF On
<1>6. Apart(L) /\ \A prev : Back(prev, L["blocked"])
  BY <1>3, <1>4 DEF Apart, Back
<1>7. /\ sched \in Scheduler /\ sched.curr = main /\ \A l \in Lists : sched[l] = null
      /\ \A u \in Threads : sched.next[u] = null
  BY <1>2, Facts DEF SchedulerInit, Scheduler, Link, Lists
<1>8. \A l \in Lists : Linked(sched.next, sched[l], L[l])
  BY <1>3, <1>4, <1>7 DEF Linked
<1>9. Rest(sched, L)
  BY <1>3, <1>5, <1>6, <1>7, <1>8 DEF Rest, Sound, Clear
<1>10. mainAt = "start" /\ semCond = <<>> /\ objCond = <<>>
  BY DEF TaskInit
<1>11. Listed(L)
  <2>1. \A i : i \notin 1 .. Len(semCond)
    BY <1>4, <1>10
  <2> QED BY <1>3, <1>7, <1>9, <1>10, <2>1, HasNone DEF Listed
<1> QED BY <1>3, <1>11

LEMMA TaskInvInit == Provided /\ TaskInit => TaskInv
BY BackedInit, ListedInit DEF TaskInv

LEMMA BackedStep == ASSUME NEW k \in Nat, Backed(k), [Next]_vars PROVE Backed(k)'
<1>1. CASE Next
  BY <1>1, BackedNext
<1>2. CASE UNCHANGED vars
  <2>1. UNCHANGED <<mainAt, looks, todo, inWait, count, semCond, objections, objCond>>
    BY <1>2 DEF vars, mainVars, semVars, objVars
  <2> QED BY <2>1 DEF Backed, Typed
<1> QED BY <1>1, <1>2

LEMMA TaskInvNext == TaskInv /\ [Next]_vars => TaskInv'
<1> SUFFICES ASSUME TaskInv, [Next]_vars PROVE TaskInv'
  OBVIOUS
<1>1. PICK L : Backed(0) /\ Listed(L)
  BY DEF TaskInv
<1>2. Backed(0)'
  BY <1>1, BackedStep
<1>3. \E K : Listed(K)'
  BY <1>1, <1>2, ListedNext
<1> QED BY <1>2, <1>3 DEF TaskInv

LEMMA TaskInvShows == TaskInv => TaskTypeOK /\ ListsSound
BY ListsShown DEF TaskInv, Backed

\* When the programs together put what they get, no task waits for itself and each drops
\* what it has raised, all state is well typed: the links stay within the threads, and the
\* semaphore and the objections do not wrap (uth_coop_thread_mgr.cpp:212-242,
\* svf_semaphore.cpp:16-37, svf_objection.cpp:30-44).
THEOREM TaskTypeCorrect == ASSUME Provided PROVE TaskSpec => []TaskTypeOK
<1>1. TaskInit => TaskInv
  BY TaskInvInit
<1> QED BY <1>1, TaskInvNext, TaskInvShows, PTL DEF TaskSpec

\* Under the same condition, for any number of tasks and any programs: every thread is
\* running or on one list, once; the back links are right where an unlink relies on them;
\* and blocked are exactly those that some condition will wake
\* (uth_coop_thread_mgr.cpp:72-154, 212-242).
THEOREM ListsAreSound == ASSUME Provided PROVE TaskSpec => []ListsSound
<1>1. TaskInit => TaskInv
  BY TaskInvInit
<1> QED BY <1>1, TaskInvNext, TaskInvShows, PTL DEF TaskSpec


-----------------------------------------------------------------------------
(* The refinement of RoundRobin.                                           *)

LEMMA RangeAppend ==
  ASSUME NEW S, NEW s \in Seq(S), NEW e \in S
  PROVE  Range(Append(s, e)) = Range(s) \cup {e}
<1>1. PICK r \in Seq(S) : r = Append(s, e)
  <2>1. Append(s, e) \in Seq(S)
    OBVIOUS
  <2> QED BY <2>1
<1>2. \A u : Has(r, u) <=> Has(s, u) \/ u = e
  BY <1>1, HasAppend
<1>3. \A u : u \in Range(r) <=> u \in Range(s) \/ u = e
  BY <1>1, <1>2, InRange
<1>4. Range(r) = Range(s) \cup {e}
  BY <1>3
<1> QED BY <1>1, <1>4

LEMMA OrderOf ==
  ASSUME NEW cond \in Seq(Threads), Once(cond)
  PROVE  cond \in SetToSeqs(Range(cond))
<1>1. PICK n \in Nat : n = Len(cond)
  OBVIOUS
<1>2. Cardinality(Range(cond)) = n
  BY <1>1, OnceEach DEF Once
<1>3. cond \in [1 .. n -> Range(cond)]
  BY <1>1 DEF Range
<1>4. \A i, j \in 1 .. n : i # j => cond[i] # cond[j]
  BY <1>1 DEF Once
<1> QED BY <1>2, <1>3, <1>4 DEF SetToSeqs

\* What a scheduler shows that has the lists L.
Shows(q, L, r, y, s, e) ==
  /\ r = q.curr /\ y = L["active"] /\ s = Range(L["blocked"]) /\ e = Range(L["terminated"])

LEMMA Shown ==
  ASSUME NEW q, NEW L, Rest(q, L)
  PROVE  Shows(q, L, q.curr, OnList(q, "active"), Range(OnList(q, "blocked")), Range(OnList(q, "terminated")))
<1>1. /\ OnList(q, "active") = L["active"] /\ OnList(q, "blocked") = L["blocked"]
      /\ OnList(q, "terminated") = L["terminated"]
  BY OnListIs, RestFacts DEF Rest
<1> QED BY <1>1 DEF Shows

LEMMA TurnStep ==
  ASSUME NEW L, NEW K, Rest(sched, L), Rest(sched', K), Moves(sched, sched', L, K)
  PROVE  [Rotation!Next]_(Rotation!vars)
<1> DEFINE r == sched.curr
           y == OnList(sched, "active")
           s == Range(OnList(sched, "blocked"))
           e == Range(OnList(sched, "terminated"))
<1>1. /\ r = sched.curr /\ y = L["active"] /\ s = Range(L["blocked"]) /\ e = Range(L["terminated"])
  BY Shown DEF Shows
<1>2. /\ r' = sched'.curr /\ y' = K["active"] /\ s' = Range(K["blocked"]) /\ e' = Range(K["terminated"])
  <2>1. PICK q : q = sched'
    OBVIOUS
  <2>2. /\ q.curr = q.curr /\ OnList(q, "active") = K["active"]
        /\ Range(OnList(q, "blocked")) = Range(K["blocked"])
        /\ Range(OnList(q, "terminated")) = Range(K["terminated"])
    BY <2>1, Shown DEF Shows
  <2> QED BY <2>1, <2>2
<1>3. PICK A \in Seq(Threads), B \in Seq(Threads), T \in Seq(Threads), c \in Threads :
        A = L["active"] /\ B = L["blocked"] /\ T = L["terminated"] /\ c = sched.curr
  BY RestFacts
<1>4. A # <<>> => Head(A) = A[1]
  OBVIOUS
<1>5. Range(Append(B, c)) = Range(B) \cup {c} /\ Range(Append(T, c)) = Range(T) \cup {c}
  BY RangeAppend
<1>6. CASE sched'.curr = sched.curr /\ K = L
  <2>1. r' = r /\ y' = y /\ s' = s /\ e' = e
    BY <1>1, <1>2, <1>6
  <2> QED BY <2>1 DEF Rotation!vars
<1>7. CASE /\ sched'.curr = sched.curr
           /\ \E t \in Workers : ~On(L, t) /\ t # sched.curr /\ K = Appended(L, "active", t)
  <2>1. PICK t \in Workers : ~On(L, t) /\ t # sched.curr /\ K = Appended(L, "active", t)
    BY <1>7
  <2>2. L \in [Lists -> Seq(Threads)]
    BY RestFacts
  <2>3. K["active"] = Append(A, t) /\ K["blocked"] = B /\ K["terminated"] = T
    BY <1>3, <2>1, <2>2 DEF Appended, Lists
  <2>4. t \notin {r} \cup Range(y) \cup s \cup e
    <3>1. ~Has(A, t) /\ ~Has(B, t) /\ ~Has(T, t) /\ t # c
      BY <1>3, <2>1, Parts
    <3>2. t \notin Range(A) /\ t \notin Range(B) /\ t \notin Range(T)
      BY <3>1, InRange
    <3> QED BY <1>1, <1>3, <3>1, <3>2
  <2>5. r' = r /\ y' = Append(y, t) /\ s' = s /\ e' = e
    BY <1>1, <1>2, <1>3, <1>7, <2>3
  <2>6. Rotation!Create
    BY <2>4, <2>5 DEF Rotation!Create, Rotation!Known, Rotation!Range, Range
  <2> QED BY <2>6 DEF Rotation!Next
<1>8. CASE L["active"] # <<>> /\ sched'.curr = L["active"][1] /\ K = Yielded(sched, L)
  <2>1. K["active"] = Append(Tail(A), c) /\ K["blocked"] = B /\ K["terminated"] = T
    BY <1>3, <1>8, YieldedForm
  <2>2. y # <<>> /\ r' = Head(y) /\ y' = Append(Tail(y), r) /\ s' = s /\ e' = e
    BY <1>1, <1>2, <1>3, <1>4, <1>8, <2>1
  <2>3. Rotation!Yield
    BY <2>2 DEF Rotation!Yield, Rotation!TakeTurn
  <2> QED BY <2>3 DEF Rotation!Next
<1>9. CASE L["active"] # <<>> /\ sched'.curr = L["active"][1] /\ K = GivenUp(sched, L, "blocked")
  <2>1. K["active"] = Tail(A) /\ K["blocked"] = Append(B, c) /\ K["terminated"] = T
    BY <1>3, <1>9, GivenUpForm
  <2>2. y # <<>> /\ r' = Head(y) /\ y' = Tail(y) /\ s' = s \cup {r} /\ e' = e
    BY <1>1, <1>2, <1>3, <1>4, <1>5, <1>9, <2>1
  <2>3. Rotation!Sleep
    BY <2>2 DEF Rotation!Sleep, Rotation!TakeTurn
  <2> QED BY <2>3 DEF Rotation!Next
<1>10. CASE L["active"] # <<>> /\ sched'.curr = L["active"][1] /\ K = GivenUp(sched, L, "terminated")
  <2>1. K["active"] = Tail(A) /\ K["terminated"] = Append(T, c) /\ K["blocked"] = B
    BY <1>3, <1>10, GivenUpForm
  <2>2. y # <<>> /\ r' = Head(y) /\ y' = Tail(y) /\ s' = s /\ e' = e \cup {r}
    BY <1>1, <1>2, <1>3, <1>4, <1>5, <1>10, <2>1
  <2>3. Rotation!End
    BY <2>2 DEF Rotation!End, Rotation!TakeTurn
  <2> QED BY <2>3 DEF Rotation!Next
<1>11. CASE /\ sched'.curr = sched.curr
            /\ \E cond \in Seq(Threads) :
                 /\ \A i, j \in 1 .. Len(cond) : cond[i] = cond[j] => i = j
                 /\ \A t : Has(cond, t) => Has(L["blocked"], t)
                 /\ Awake(L, K, cond)
  <2>1. PICK cond \in Seq(Threads) :
          /\ \A i, j \in 1 .. Len(cond) : cond[i] = cond[j] => i = j
          /\ \A t : Has(cond, t) => Has(L["blocked"], t)
          /\ Awake(L, K, cond)
    BY <1>11
  <2>2. K["active"] = A \o cond /\ K["terminated"] = T
    BY <1>3, <2>1 DEF Awake
  <2>3. PICK M \in Seq(Threads) : M = K["blocked"]
    BY RestFacts
  <2>4. \A u : Has(M, u) <=> Has(B, u) /\ ~Has(cond, u)
    BY <1>3, <2>1, <2>3 DEF Awake
  <2>5. PICK some : some = Range(cond)
    OBVIOUS
  <2>6. some \subseteq Range(B) /\ Range(M) = Range(B) \ some
    <3>1. \A u : u \in Range(M) <=> u \in Range(B) /\ u \notin some
      BY <2>4, <2>5, InRange
    <3>2. \A u : u \in some => u \in Range(B)
      BY <1>3, <2>1, <2>5, InRange
    <3> QED BY <3>1, <3>2
  <2>7. cond \in SetToSeqs(some)
    BY <2>1, <2>5, OrderOf DEF Once
  <2>8. r' = r /\ y' = y \o cond /\ s' = s \ some /\ e' = e /\ some \in SUBSET s
    BY <1>1, <1>2, <1>3, <1>11, <2>2, <2>3, <2>6
  <2>11. \A x : Rotation!SetToSeqs(x) = SetToSeqs(x)
    <3>1. \A x : Rotation!Cardinality(x) = Cardinality(x)
      BY Zenon DEF Rotation!Cardinality, Cardinality
    <3> QED BY <3>1 DEF Rotation!SetToSeqs, SetToSeqs
  <2>9. \E x \in SUBSET s : \E order \in Rotation!SetToSeqs(x) : y' = y \o order /\ s' = s \ x
    BY <2>7, <2>8, <2>11
  <2>10. Rotation!Wake
    BY <2>8, <2>9, Zenon DEF Rotation!Wake
  <2> QED BY <2>10 DEF Rotation!Next
<1> QED BY <1>6, <1>7, <1>8, <1>9, <1>10, <1>11 DEF Moves

LEMMA TurnInit == TaskInit => Rotation!Init
<1> SUFFICES ASSUME TaskInit PROVE Rotation!Init
  OBVIOUS
<1>1. PICK L : Listed(L) /\ \A l \in Lists : L[l] = <<>>
  BY ListedInit
<1>2. Rest(sched, L) /\ L["active"] = <<>> /\ L["blocked"] = <<>> /\ L["terminated"] = <<>>
  BY <1>1, RestFacts DEF Listed
<1>3. \A s : s = <<>> => Range(s) = {}
  BY DEF Range
<1>4. /\ OnList(sched, "active") = <<>> /\ Range(OnList(sched, "blocked")) = {}
      /\ Range(OnList(sched, "terminated")) = {}
  BY <1>2, <1>3, Shown DEF Shows
<1>5. sched.curr = main
  BY DEF TaskInit, SchedulerInit
<1> QED BY <1>4, <1>5 DEF Rotation!Init

LEMMA TurnNext == TaskInv /\ [Next]_vars => [Rotation!Next]_(Rotation!vars)
<1> SUFFICES ASSUME TaskInv, [Next]_vars PROVE [Rotation!Next]_(Rotation!vars)
  OBVIOUS
<1>1. PICK L : Backed(0) /\ Listed(L)
  BY DEF TaskInv
<1>2. Backed(0)'
  BY <1>1, BackedStep
<1>3. PICK K : Listed(K)' /\ Moves(sched, sched', L, K)
  BY <1>1, <1>2, ListedNext
<1>4. Rest(sched, L) /\ Rest(sched', K)
  BY <1>1, <1>3 DEF Listed
<1> QED BY <1>3, <1>4, TurnStep

\* The linked lists are a queue of ready threads for any number of tasks: each step of the
\* thread manager takes the first, appends one at the end, or appends those that are woken,
\* and a thread that has ended never runs again (uth_coop_thread_mgr.cpp:72-154).
THEOREM ThreadsRunInTurn == ASSUME Provided PROVE TaskSpec => RunsInTurn
<1>1. TaskInit => TaskInv
  BY TaskInvInit
<1> QED BY <1>1, TurnInit, TaskInvNext, TurnNext, PTL DEF TaskSpec, RunsInTurn, Rotation!Spec


-----------------------------------------------------------------------------
(* No task is overlooked.                                                  *)

\* Task t has not yet objected.
Fresh(p, h, t) == p[t] # <<>> /\ h[t] = 0

\* t is on the list, and main not before it.
Early(A, t) == \E i \in 1 .. Len(A) : A[i] = t /\ \A j \in 1 .. i : A[j] # main

\* A task that has not yet objected runs before main looks; when main waits there is none.
Begun(L, h) ==
  /\ \A t \in Workers : Fresh(todo, h, t) =>
       /\ Head(todo[t]).op = "raise"
       /\ \/ mainAt = "start"
          \/ mainAt = "yield" /\ Has(L["active"], t)
          \/ mainAt = "look" /\ sched.curr # main /\ (t = sched.curr \/ Early(L["active"], t))
  /\ mainAt = "shutdown" => \A t \in Workers : todo[t] = <<>>

\* List B goes on from A, or from all but the first of A.
Onward(A, B) == Len(A) <= Len(B) /\ \A i \in 1 .. Len(A) : B[i] = A[i]

Shifted(A, B) ==
  /\ A # <<>> /\ Len(A) - 1 <= Len(B)
  /\ \A i \in 1 .. Len(A) - 1 : B[i] = A[i + 1]

LEMMA OnwardIs ==
  ASSUME NEW S, NEW A \in Seq(S), NEW B, NEW C \in Seq(S), B = A \o C
  PROVE  Onward(A, B)
<1>1. PICK m \in Nat, n \in Nat : m = Len(A) /\ n = Len(C)
  OBVIOUS
<1>2. Len(B) = m + n /\ m <= m + n
  BY <1>1
<1>3. \A i \in 1 .. m : B[i] = A[i]
  BY <1>1
<1> QED BY <1>1, <1>2, <1>3 DEF Onward

LEMMA AppendOnward ==
  ASSUME NEW S, NEW A \in Seq(S), NEW t \in S, NEW B, B = Append(A, t)
  PROVE  Onward(A, B)
<1>1. PICK n \in Nat : n = Len(A)
  OBVIOUS
<1>2. Len(B) = n + 1 /\ \A i \in 1 .. n : B[i] = A[i]
  BY <1>1, SeqAppend
<1> QED BY <1>1, <1>2 DEF Onward

LEMMA ShiftedIs ==
  ASSUME NEW S, NEW A \in Seq(S), A # <<>>, NEW B, B = Tail(A) \/ \E t \in S : B = Append(Tail(A), t)
  PROVE  Shifted(A, B)
<1>1. PICK n \in Nat : n + 1 = Len(A)
  <2>1. PICK k \in Nat : k = Len(A) /\ k # 0
    BY NotEmpty
  <2>2. k - 1 \in Nat /\ (k - 1) + 1 = k
    BY <2>1
  <2> QED BY <2>1, <2>2
<1>2. PICK T \in Seq(S) : T = Tail(A)
  <2>1. Tail(A) \in Seq(S)
    OBVIOUS
  <2> QED BY <2>1
<1>3. Len(T) = n /\ \A i \in 1 .. n : T[i] = A[i + 1]
  BY <1>1, <1>2
<1>4. n <= Len(B) /\ \A i \in 1 .. n : B[i] = T[i]
  <2>1. CASE B = T
    BY <1>3, <2>1
  <2>2. ASSUME NEW t \in S, B = Append(T, t) PROVE n <= Len(B) /\ \A i \in 1 .. n : B[i] = T[i]
    <3>1. Len(B) = n + 1 /\ \A i \in 1 .. n : B[i] = T[i]
      BY <1>3, <2>2, SeqAppend
    <3> QED BY <3>1
  <2> QED BY <1>2, <2>1, <2>2
<1>5. Len(A) - 1 = n
  BY <1>1
<1> QED BY <1>3, <1>4, <1>5 DEF Shifted

LEMMA MovesOn ==
  ASSUME NEW q, NEW r, NEW L, NEW K, Rest(q, L), Moves(q, r, L, K)
  PROVE  \/ r.curr = q.curr /\ Onward(L["active"], K["active"])
         \/ L["active"] # <<>> /\ r.curr = L["active"][1] /\ Shifted(L["active"], K["active"])
<1>1. PICK A \in Seq(Threads), c \in Threads : A = L["active"] /\ c = q.curr
  BY RestFacts
<1>2. CASE r.curr = q.curr /\ K = L
  <2>1. Len(A) <= Len(A)
    OBVIOUS
  <2> QED BY <1>1, <1>2, <2>1 DEF Onward
<1>3. CASE r.curr = q.curr /\ \E t \in Workers : K = Appended(L, "active", t)
  <2>1. PICK t \in Workers : K = Appended(L, "active", t)
    BY <1>3
  <2>2. L \in [Lists -> Seq(Threads)] /\ "active" \in Lists
    BY RestFacts
  <2>3. K["active"] = Append(A, t) /\ t \in Threads
    BY <1>1, <2>1, <2>2, Facts DEF Appended
  <2> QED BY <1>1, <1>3, <2>3, AppendOnward
<1>4. CASE L["active"] # <<>> /\ r.curr = L["active"][1] /\ K = Yielded(q, L)
  <2>1. K["active"] = Append(Tail(A), c)
    BY <1>1, <1>4, YieldedForm
  <2> QED BY <1>1, <1>4, <2>1, ShiftedIs
<1>5. CASE /\ L["active"] # <<>> /\ r.curr = L["active"][1]
           /\ K = GivenUp(q, L, "blocked") \/ K = GivenUp(q, L, "terminated")
  <2>1. K["active"] = Tail(A)
    BY <1>1, <1>5, GivenUpForm
  <2> QED BY <1>1, <1>5, <2>1, ShiftedIs
<1>6. CASE r.curr = q.curr /\ \E cond \in Seq(Threads) : Awake(L, K, cond)
  <2>1. PICK cond \in Seq(Threads) : K["active"] = A \o cond
    BY <1>1, <1>6 DEF Awake
  <2> QED BY <1>1, <1>6, <2>1, OnwardIs
<1> QED BY <1>2, <1>3, <1>4, <1>5, <1>6 DEF Moves

LEMMA EarlyOn ==
  ASSUME NEW A \in Seq(Threads), NEW B \in Seq(Threads), NEW t, Early(A, t)
  PROVE  /\ Onward(A, B) => Early(B, t)
         /\ Shifted(A, B) => A[1] # main /\ (t = A[1] \/ Early(B, t))
<1>1. PICK n \in Nat : n = Len(A)
  OBVIOUS
<1>2. PICK i \in 1 .. n : A[i] = t /\ \A j \in 1 .. i : A[j] # main
  BY <1>1 DEF Early
<1>3. ASSUME Onward(A, B) PROVE Early(B, t)
  <2>1. n <= Len(B) /\ \A j \in 1 .. n : B[j] = A[j]
    BY <1>1, <1>3 DEF Onward
  <2>2. \A j \in 1 .. i : j \in 1 .. n
    BY <1>2
  <2>3. B[i] = t /\ \A j \in 1 .. i : B[j] # main
    BY <1>2, <2>1, <2>2
  <2>4. i \in 1 .. Len(B)
    BY <1>2, <2>1
  <2> QED BY <2>3, <2>4 DEF Early
<1>4. ASSUME Shifted(A, B) PROVE A[1] # main /\ (t = A[1] \/ Early(B, t))
  <2>1. n - 1 <= Len(B) /\ \A j \in 1 .. n - 1 : B[j] = A[j + 1]
    BY <1>1, <1>4 DEF Shifted
  <2>2. 1 \in 1 .. i
    BY <1>2
  <2>3. ASSUME i # 1 PROVE Early(B, t)
    <3>1. PICK k \in 1 .. n - 1 : k + 1 = i
      <4>1. i - 1 \in 1 .. n - 1 /\ (i - 1) + 1 = i
        BY <1>2, <2>3
      <4> QED BY <4>1
    <3>2. B[k] = t
      BY <1>2, <2>1, <3>1
    <3>3. \A j \in 1 .. k : j \in 1 .. n - 1 /\ j + 1 \in 1 .. i
      BY <1>1, <3>1
    <3>4. \A j \in 1 .. k : B[j] # main
      BY <1>2, <2>1, <3>3
    <3>5. k \in 1 .. Len(B)
      BY <1>1, <2>1
    <3> QED BY <3>2, <3>4, <3>5 DEF Early
  <2> QED BY <1>2, <2>2, <2>3
<1> QED BY <1>3, <1>4


DoneInv == Backed(0) /\ \E h, L : Objected(todo, objections, h, 1) /\ Listed(L) /\ Begun(L, h)

\* A step leaves the objections alone, or the running task returns and holds one if it is not done.
LEMMA HeldNext ==
  ASSUME Typed, NEW h, Objected(todo, objections, h, 1), Next
  PROVE  \E v : /\ Objected(todo', objections', v, 1)
                /\ \A t \in Workers : Fresh(todo', v, t) =>
                     /\ Fresh(todo, h, t) /\ todo'[t] = todo[t]
                     /\ t = me => UNCHANGED <<todo, count, objections>>
<1>1. CASE UNCHANGED <<todo, count, objections>>
  BY <1>1
<1>2. CASE Returned
  <2>1. PICK p, o, r, t : p = todo /\ o = objections /\ r = todo' /\ t = me
    OBVIOUS
  <2>2. /\ p \in [Workers -> Seq(Call)] /\ t \in Workers /\ p[t] # <<>>
        /\ r = [p EXCEPT ![t] = Tail(p[t])] /\ Objected(p, o, h, 1)
        /\ objections' = o - DropOf(Head(p[t]))
    BY <1>2, <2>1 DEF Typed, Returned
  <2>3. PICK d : d = DropOf(Head(p[t]))
    OBVIOUS
  <2>4. PICK v : /\ Objected(r, o - d, v, 1) /\ \A u \in Workers : u # t => v[u] = h[u]
                 /\ r[t] # <<>> => v[t] >= 1
    <3>1. PICK k \in Nat : k = 1
      OBVIOUS
    <3>2. Objected(p, o, h, k)
      BY <2>2, <3>1
    <3>3. HeldOn(r, o - d, k, h, t)
      <4>1. /\ p \in [Workers -> Seq(Call)] /\ t \in Workers /\ p[t] # <<>>
            /\ r = [p EXCEPT ![t] = Tail(p[t])] /\ k \in Nat
        BY <2>2, <3>1
      <4>2. d \in {0 - 1, 0, 1} /\ o \in Nat /\ o - d \in Nat
        BY <2>3, <3>2, <4>1, ObjectedOn
      <4> QED BY <2>3, <3>2, <4>1, <4>2, ObjectedOn
    <3> QED BY <3>1, <3>3 DEF HeldOn
  <2>5. h \in [Workers -> Nat]
    BY <2>2 DEF Objected
  <2>6. ASSUME NEW u \in Workers, Fresh(r, v, u) PROVE Fresh(p, h, u) /\ r[u] = p[u] /\ u # t
    <3>1. u # t
      <4>1. ~(0 >= 1)
        OBVIOUS
      <4> QED BY <2>4, <2>6, <4>1 DEF Fresh
    <3> QED BY <2>2, <2>4, <2>5, <2>6, <3>1 DEF Fresh
  <2>7. Objected(todo', objections', v, 1)
    BY <2>1, <2>2, <2>3, <2>4
  <2>8. \A u \in Workers : Fresh(todo', v, u) =>
          Fresh(todo, h, u) /\ todo'[u] = todo[u] /\ (u = me => UNCHANGED <<todo, count, objections>>)
    BY <2>1, <2>6
  <2> QED BY <2>7, <2>8
<1> QED BY <1>1, <1>2, CallReturns

\* A task that has not objected does nothing else first.
LEMMA FreshRaises ==
  ASSUME Typed, NEW h, Objected(todo, objections, h, 1), NEW L, Listed(L), Next,
         me \in Workers, Fresh(todo, h, me), Head(todo[me]).op = "raise"
  PROVE  ~UNCHANGED <<todo, count, objections>>
<1>1. me # main
  BY ThreadAssumption
<1>2. ~TaskYield /\ ~Put /\ ~Get /\ ~GetWaits /\ ~Drop /\ ~TaskEnd
  BY DEF TaskYield, Put, Get, GetWaits, Drop, TaskEnd, Calls, Fresh
<1>3. Raise
  BY <1>1, <1>2 DEF Next, Start, WaitAllDropped, MainYields, MainLooks, MainWaits, MainShutdown
<1>4. objections' = objections + 1 /\ objections \in Nat
  BY <1>3 DEF Raise, Typed
<1> QED BY <1>4

LEMMA BegunNext ==
  ASSUME Backed(0), Backed(0)', NEW h, Objected(todo, objections, h, 1), NEW L, Listed(L), Begun(L, h),
         Next, NEW K, Listed(K)', Moves(sched, sched', L, K)
  PROVE  \E v : Objected(todo', objections', v, 1) /\ Begun(K, v)'
<1>1. Typed /\ Rest(sched, L) /\ Rest(sched', K)
  BY DEF Backed, Listed
<1>2. PICK v : /\ Objected(todo', objections', v, 1)
               /\ \A t \in Workers : Fresh(todo', v, t) =>
                    /\ Fresh(todo, h, t) /\ todo'[t] = todo[t]
                    /\ t = me => UNCHANGED <<todo, count, objections>>
  BY <1>1, HeldNext
<1>3. ASSUME NEW t \in Workers, Fresh(todo', v, t)
      PROVE  Fresh(todo, h, t) /\ todo'[t] = todo[t] /\ Head(todo[t]).op = "raise" /\ t # me
  <2>1. Fresh(todo, h, t) /\ todo'[t] = todo[t] /\ Head(todo[t]).op = "raise"
    BY <1>2, <1>3 DEF Begun
  <2>2. CASE t = me
    <3>1. UNCHANGED <<todo, count, objections>>
      BY <1>2, <1>3, <2>2
    <3>2. ~UNCHANGED <<todo, count, objections>>
      BY <1>1, <2>1, <2>2, FreshRaises
    <3> QED BY <3>1, <3>2
  <2> QED BY <2>1, <2>2
<1>4. PICK A \in Seq(Threads), B \in Seq(Threads) : A = L["active"] /\ B = K["active"]
  <2>1. PICK q : q = sched'
    OBVIOUS
  <2> QED BY <1>1, <2>1, RestFacts
<1>5. \/ sched'.curr = sched.curr /\ Onward(A, B)
      \/ A # <<>> /\ sched'.curr = A[1] /\ Shifted(A, B)
  BY <1>1, <1>4, MovesOn
<1>6. mainAt' = mainAt \/ me = main
  BY DEF Next, Start, WaitAllDropped, MainYields, MainLooks, MainWaits, MainShutdown, mainVars,
         TaskYield, Put, Get, GetWaits, Raise, Drop, TaskEnd
<1>7. me = main => Start \/ WaitAllDropped \/ MainYields \/ MainLooks \/ MainWaits \/ MainShutdown
  BY ThreadAssumption DEF Next, TaskYield, Put, Get, GetWaits, Raise, Drop, TaskEnd, Calls
<1>8. ASSUME NEW t \in Workers, Fresh(todo', v, t)
      PROVE  \/ mainAt' = "start"
             \/ mainAt' = "yield" /\ Has(B, t)
             \/ mainAt' = "look" /\ sched'.curr # main /\ (t = sched'.curr \/ Early(B, t))
  <2>1. Fresh(todo, h, t) /\ t # me
    BY <1>3, <1>8
  <2>2. \/ mainAt = "start"
        \/ mainAt = "yield" /\ Has(A, t)
        \/ mainAt = "look" /\ me # main /\ Early(A, t)
    BY <1>4, <2>1 DEF Begun, me
  <2>3. CASE mainAt = "start"
    <3>1. me = main
      BY <2>3 DEF Listed, me
    <3>2. Start \/ WaitAllDropped
      BY <1>7, <2>3, <3>1 DEF MainYields, MainLooks, MainWaits, MainShutdown
    <3>3. CASE Start
      BY <2>3, <3>3 DEF Start, mainVars
    <3>4. CASE WaitAllDropped
      <4>1. mainAt' = "yield" /\ sched' = sched /\ t \in Range(OnList(sched, "active"))
        BY <3>4 DEF WaitAllDropped
      <4>2. OnList(sched, "active") = B
        <5>1. Rest(sched, K)
          BY <1>1, <4>1
        <5> QED BY <1>4, <5>1, OnListIs, RestFacts DEF Rest
      <4> QED BY <4>1, <4>2, InRange
    <3> QED BY <3>2, <3>3, <3>4
  <2>4. CASE mainAt = "yield" /\ Has(A, t)
    <3>1. me = main
      BY <2>4 DEF Listed, me
    <3>2. mainAt' = "look" /\ sched' = YieldThread(sched)
      BY <1>7, <2>4, <3>1 DEF Start, WaitAllDropped, MainYields, MainLooks, MainWaits, MainShutdown
    <3>3. ~Has(A, main) /\ A # <<>>
      BY <1>1, <1>4, <2>4, <3>1, HasNone, ListedFacts
    <3>4. Early(A, t)
      <4>1. PICK n \in Nat : n = Len(A)
        OBVIOUS
      <4>2. PICK i \in 1 .. n : A[i] = t
        BY <2>4, <4>1 DEF Has
      <4>3. \A j \in 1 .. i : j \in 1 .. n
        BY <4>2
      <4>4. \A j \in 1 .. i : A[j] # main
        BY <3>3, <4>1, <4>3 DEF Has
      <4> QED BY <4>1, <4>2, <4>4 DEF Early
    <3>5. sched'.curr = A[1] /\ A[1] # main
      <4>1. sched'.curr = A[1]
        BY <1>1, <1>4, <3>2, <3>3, YieldIs
      <4>2. Has(A, A[1])
        BY <3>3, HasSome
      <4> QED BY <3>3, <4>1, <4>2
    <3>6. Shifted(A, B)
      BY <1>5, <3>1, <3>5 DEF me
    <3>7. t = A[1] \/ Early(B, t)
      BY <3>4, <3>6, EarlyOn
    <3> QED BY <3>2, <3>5, <3>7
  <2>5. CASE mainAt = "look" /\ me # main /\ Early(A, t)
    <3>1. mainAt' = "look"
      BY <1>6, <2>5
    <3>2. CASE sched'.curr = sched.curr /\ Onward(A, B)
      <4>1. Early(B, t)
        BY <2>5, <3>2, EarlyOn
      <4> QED BY <2>5, <3>1, <3>2, <4>1 DEF me
    <3>3. CASE sched'.curr = A[1] /\ Shifted(A, B)
      <4>1. A[1] # main /\ (t = A[1] \/ Early(B, t))
        BY <2>5, <3>3, EarlyOn
      <4> QED BY <3>1, <3>3, <4>1
    <3> QED BY <1>5, <3>2, <3>3
  <2> QED BY <2>2, <2>3, <2>4, <2>5
<1>9. ASSUME mainAt' = "shutdown", NEW t \in Workers PROVE todo'[t] = <<>>
  <2>1. mainAt # "shutdown"
    <3>1. CASE mainAt = "shutdown"
      <4>1. me = main
        BY <3>1 DEF Listed, me
      <4> QED BY <1>7, <3>1, <4>1 DEF Start, WaitAllDropped, MainYields, MainLooks, MainWaits, MainShutdown
    <3> QED BY <3>1
  <2>2. MainShutdown
    BY <1>6, <1>7, <1>9, <2>1
       DEF Start, WaitAllDropped, MainYields, MainLooks, MainWaits, mainVars
  <2>3. mainAt = "wait" /\ objections = 0 /\ todo' = todo
    BY <2>2 DEF MainShutdown
  <2>4. h[t] \in Nat /\ h[t] <= 0
    BY <2>3, ObjectedTotal
  <2>5. h[t] = 0
    BY <2>4
  <2> QED BY <2>3, <2>5 DEF Begun, Fresh
<1>10. Begun(K, v)'
  <2>1. \A t \in Workers : Fresh(todo', v, t) => Head(todo'[t]).op = "raise"
    BY <1>3
  <2> QED BY <1>4, <1>8, <1>9, <2>1 DEF Begun
<1> QED BY <1>2, <1>10

LEMMA DoneInvInit ==
  ASSUME Provided, \A b \in Bodies : \A t \in Workers : Objects(Program(b[t])), TaskInit
  PROVE  DoneInv
<1>1. Backed(0) /\ Backed(1)
  BY BackedInit
<1>2. PICK h : Objected(todo, objections, h, 1)
  BY <1>1 DEF Backed
<1>3. PICK L : Listed(L)
  BY ListedInit
<1>4. \A t \in Workers : Head(todo[t]).op = "raise"
  <2>1. PICK b \in Bodies : todo = [t \in Workers |-> Program(b[t])]
    BY DEF TaskInit
  <2>2. b \in [Workers -> Seq(Call)]
    BY TaskAssumption
  <2>3. ASSUME NEW t \in Workers PROVE Head(Program(b[t])).op = "raise"
    <3>1. PICK s \in Seq(Call) : s = b[t]
      BY <2>2
    <3>2. PICK c \in Call, d \in Call : c = [op |-> "raise"] /\ d = [op |-> "drop"]
      BY DEF Call
    <3>3. <<c>> \in Seq(Call) /\ <<d>> \in Seq(Call)
      OBVIOUS
    <3>4. <<c>> \o s \in Seq(Call) /\ Len(<<c>> \o s) = Len(s) + 1 /\ (<<c>> \o s)[1] = c
      BY <3>3
    <3>10. PICK x \in Seq(Call) : x = <<c>> \o s
      BY <3>4
    <3>11. PICK n \in Nat : n = Len(s)
      OBVIOUS
    <3>5. x = <<c>> \o s /\ n = Len(s) /\ Len(x) = n + 1 /\ x[1] = c
      BY <3>4, <3>10, <3>11
    <3>12. x \o <<d>> \in Seq(Call)
      BY <3>3
    <3>6. PICK y \in Seq(Call) : y = x \o <<d>>
      BY <3>12
    <3>7. Len(y) = n + 2 /\ y[1] = c
      BY <3>3, <3>5, <3>6
    <3>8. Head(y) = c
      BY <3>7
    <3>9. y = Program(b[t])
      BY <3>1, <3>2, <3>5, <3>6 DEF Program
    <3> QED BY <3>2, <3>8, <3>9
  <2> QED BY <2>1, <2>3
<1>5. mainAt = "start"
  BY DEF TaskInit
<1>6. Begun(L, h)
  BY <1>4, <1>5 DEF Begun
<1> QED BY <1>1, <1>2, <1>3, <1>6 DEF DoneInv

LEMMA DoneInvNext == DoneInv /\ [Next]_vars => DoneInv'
<1> SUFFICES ASSUME DoneInv, [Next]_vars PROVE DoneInv'
  OBVIOUS
<1>1. PICK h, L : Backed(0) /\ Objected(todo, objections, h, 1) /\ Listed(L) /\ Begun(L, h)
  BY DEF DoneInv
<1>2. Backed(0)'
  BY <1>1, BackedStep
<1>3. CASE Next
  <2>1. PICK K : Listed(K)' /\ Moves(sched, sched', L, K)
    BY <1>1, <1>2, <1>3, ListedNext
  <2>2. PICK v : Objected(todo', objections', v, 1) /\ Begun(K, v)'
    BY <1>1, <1>2, <1>3, <2>1, BegunNext
  <2> QED BY <1>2, <2>1, <2>2 DEF DoneInv
<1>4. CASE UNCHANGED vars
  <2>1. UNCHANGED <<sched, mainAt, todo, count, semCond, objections, objCond>>
    BY <1>4 DEF vars, mainVars, semVars, objVars
  <2>2. Listed(L)' /\ Begun(L, h)' /\ Objected(todo', objections', h, 1)
    BY <1>1, <2>1 DEF Listed, Begun
  <2> QED BY <1>2, <2>2 DEF DoneInv
<1> QED BY <1>3, <1>4

LEMMA DoneInvShows == DoneInv => WorkDone
BY DEF DoneInv, Begun, WorkDone

\* If moreover each task objects from its first call to its last, wait_all_dropped returns
\* only when every task has run to its last drop: none is overlooked before it has started,
\* however many there are (svf_objection.cpp:46-61, svf_task_base.cpp:25-32).
THEOREM AllWorkIsDone ==
  ASSUME Provided, \A b \in Bodies : \A t \in Workers : Objects(Program(b[t]))
  PROVE  TaskSpec => []WorkDone
<1>1. TaskInit => DoneInv
  BY DoneInvInit
<1> QED BY <1>1, DoneInvNext, DoneInvShows, PTL DEF TaskSpec


-----------------------------------------------------------------------------
(* The steps of the refinement of Semaphore.                               *)

SemInv == TaskInv /\ \A t \in inWait : AtGet(todo[t])

LEMMA SemStep ==
  ASSUME Typed, \A t \in inWait : AtGet(todo[t]), [Next]_vars
  PROVE  (\A t \in inWait : AtGet(todo[t]))' /\ [Sem!Next]_(Sem!vars)
<1> DEFINE w == [t \in Workers |-> IF t \in inWait THEN Head(todo[t]).n ELSE 0]
<1>1. ASSUME NEW op, Calls(op)
      PROVE  /\ me \in Workers /\ Head(todo[me]).op = op /\ todo[me] # <<>>
             /\ op # "get" => me \notin inWait
             /\ op \in {"put", "get"} => Head(todo[me]).n \in 0 .. MaxPut
  <2>1. me \in Workers /\ todo[me] # <<>> /\ Head(todo[me]).op = op
    BY <1>1 DEF Calls
  <2>2. Head(todo[me]) \in Call
    BY <2>1, HeadIsCall
  <2> QED BY <2>1, <2>2 DEF AtGet, Call
<1>2. ASSUME Return, me \in Workers PROVE \A t \in Workers : t # me => todo'[t] = todo[t]
  <2>1. todo \in [Workers -> Seq(Call)]
    BY DEF Typed
  <2> QED BY <1>2, <2>1 DEF Return
<1>3. inWait \subseteq Workers /\ count \in Nat /\ MaxPut \in Nat
  BY TaskAssumption DEF Typed
<1>4. ASSUME NEW op, Calls(op), op # "get", Return, inWait' = inWait
      PROVE  (\A t \in inWait : AtGet(todo[t]))' /\ w' = w
  <2>1. \A t \in inWait : t \in Workers /\ t # me
    BY <1>1, <1>3, <1>4
  <2>2. \A t \in inWait : todo'[t] = todo[t]
    BY <1>1, <1>2, <1>4, <2>1
  <2> QED BY <1>4, <2>2
<1>5. CASE TaskYield \/ Raise \/ Drop
  <2>1. PICK op \in {"yield", "raise", "drop"} : Calls(op)
    BY <1>5 DEF TaskYield, Raise, Drop
  <2>2. Return /\ inWait' = inWait /\ count' = count
    BY <1>5 DEF TaskYield, Raise, Drop, semVars
  <2>3. (\A t \in inWait : AtGet(todo[t]))' /\ w' = w
    BY <1>4, <2>1, <2>2
  <2> QED BY <2>2, <2>3 DEF Sem!vars
<1>6. CASE Put
  <2>1. Calls("put") /\ Return /\ inWait' = inWait /\ count' = count + Head(todo[me]).n
    BY <1>6 DEF Put
  <2>2. (\A t \in inWait : AtGet(todo[t]))' /\ w' = w
    BY <1>4, <2>1
  <2>3. PICK n \in 0 .. MaxPut : n = Head(todo[me]).n
    BY <1>1, <2>1
  <2>4. count' = count + n
    BY <2>1, <2>3
  <2>5. CASE n = 0
    <3>1. count' = count
      BY <1>3, <2>4, <2>5
    <3> QED BY <2>2, <3>1 DEF Sem!vars
  <2>6. CASE n # 0
    <3>1. n \in 1 .. MaxPut
      BY <1>3, <2>6
    <3>2. Sem!Put
      BY <2>2, <2>4, <3>1 DEF Sem!Put
    <3> QED BY <2>2, <3>2 DEF Sem!Next
  <2> QED BY <2>5, <2>6
<1>7. CASE Get
  <2>1. /\ Calls("get") /\ Return /\ count >= Head(todo[me]).n
        /\ inWait' = inWait \ {me} /\ count' = count - Head(todo[me]).n
    BY <1>7 DEF Get
  <2>2. PICK n \in 0 .. MaxPut : n = Head(todo[me]).n
    BY <1>1, <2>1
  <2>3. me \in Workers /\ count' = count - n /\ n <= count
    BY <1>1, <1>3, <2>1, <2>2
  <2>4. \A t \in inWait' : t \in Workers /\ t # me /\ t \in inWait /\ todo'[t] = todo[t]
    BY <1>2, <1>3, <2>1, <2>3
  <2>5. (\A t \in inWait : AtGet(todo[t]))'
    BY <2>4
  <2>6. w' = [w EXCEPT ![me] = 0]
    <3>1. ASSUME NEW t \in Workers PROVE w'[t] = IF t = me THEN 0 ELSE w[t]
      BY <2>1, <2>4
    <3>2. w' = [t \in Workers |-> w'[t]] /\ [w EXCEPT ![me] = 0] = [t \in Workers |-> IF t = me THEN 0 ELSE w[t]]
      OBVIOUS
    <3> QED BY <3>1, <3>2
  <2>7. CASE me \notin inWait
    <3>1. w' = w
      <4>1. \A t \in Workers : w'[t] = w[t]
        BY <2>1, <2>4, <2>7
      <4>2. w' = [t \in Workers |-> w'[t]] /\ w = [t \in Workers |-> w[t]]
        OBVIOUS
      <4> QED BY <4>1, <4>2
    <3>2. CASE n = 0
      <4>1. count' = count
        BY <1>3, <2>3, <3>2
      <4> QED BY <2>5, <3>1, <4>1 DEF Sem!vars
    <3>3. CASE n # 0
      <4>1. n \in 1 .. MaxPut
        BY <1>3, <3>3
      <4>2. Sem!Get
        BY <2>3, <3>1, <4>1 DEF Sem!Get
      <4> QED BY <2>5, <4>2 DEF Sem!Next
    <3> QED BY <3>2, <3>3
  <2>8. CASE me \in inWait
    <3>1. w[me] = n
      BY <2>2, <2>3, <2>8
    <3>2. CASE n = 0
      <4>1. count' = count
        BY <1>3, <2>3, <3>2
      <4>2. w' = w
        <5>1. \A t \in Workers : w'[t] = w[t]
          BY <2>6, <3>1, <3>2
        <5>2. w' = [t \in Workers |-> w'[t]] /\ w = [t \in Workers |-> w[t]]
          OBVIOUS
        <5> QED BY <5>1, <5>2
      <4> QED BY <2>5, <4>1, <4>2 DEF Sem!vars
    <3>3. CASE n # 0
      <4>1. w[me] # 0 /\ w[me] <= count /\ count' = count - w[me] /\ w' = [w EXCEPT ![me] = 0]
        BY <2>3, <2>6, <3>1, <3>3
      <4>2. PICK c \in Workers : c = me
        BY <2>3
      <4>3. Sem!Serve(c)
        BY <4>1, <4>2 DEF Sem!Serve
      <4>4. Sem!Next
        BY <4>3, Zenon DEF Sem!Next
      <4> QED BY <2>5, <4>4
    <3> QED BY <3>2, <3>3
  <2> QED BY <2>7, <2>8
<1>8. CASE GetWaits
  <2>1. /\ Calls("get") /\ count < Head(todo[me]).n /\ todo' = todo /\ count' = count
        /\ inWait' = inWait \cup {me}
    BY <1>8 DEF GetWaits
  <2>2. PICK n \in 0 .. MaxPut : n = Head(todo[me]).n
    BY <1>1, <2>1
  <2>3. me \in Workers /\ AtGet(todo[me]) /\ n > count /\ n \in 1 .. MaxPut
    BY <1>1, <1>3, <2>1, <2>2 DEF AtGet
  <2>4. (\A t \in inWait : AtGet(todo[t]))'
    BY <2>1, <2>3
  <2>5. CASE me \in inWait
    <3>1. inWait' = inWait
      BY <2>1, <2>5
    <3> QED BY <2>1, <2>4, <3>1 DEF Sem!vars
  <2>6. CASE me \notin inWait
    <3>1. w[me] = 0
      BY <2>3, <2>6
    <3>2. w' = [w EXCEPT ![me] = n]
      <4>1. ASSUME NEW t \in Workers PROVE w'[t] = IF t = me THEN n ELSE w[t]
        BY <2>1, <2>2
      <4>2. w' = [t \in Workers |-> w'[t]] /\ [w EXCEPT ![me] = n] = [t \in Workers |-> IF t = me THEN n ELSE w[t]]
        OBVIOUS
      <4> QED BY <4>1, <4>2
    <3>3. PICK c \in Workers : c = me
      BY <2>3
    <3>4. Sem!Ask(c)
      BY <2>1, <2>3, <3>1, <3>2, <3>3 DEF Sem!Ask
    <3>5. Sem!Next
      BY <3>4, Zenon DEF Sem!Next
    <3> QED BY <2>4, <3>5
  <2> QED BY <2>5, <2>6
<1>9. CASE UNCHANGED <<todo, inWait, count>>
  BY <1>9 DEF Sem!vars
<1>10. TaskEnd \/ Start \/ WaitAllDropped \/ MainYields \/ MainLooks \/ MainWaits \/ MainShutdown
         \/ UNCHANGED vars => UNCHANGED <<todo, inWait, count>>
  BY DEF TaskEnd, Start, WaitAllDropped, MainYields, MainLooks, MainWaits, MainShutdown, vars, semVars
<1> QED BY <1>5, <1>6, <1>7, <1>8, <1>9, <1>10 DEF Next

\* The count is what has been put less what has been got, each get takes its number once
\* and only when the count has it, and a get that must wait is not lost: the steps of the
\* semaphore are those of its specification (svf_semaphore.cpp:16-37).
THEOREM SemaphoreCounts ==
  ASSUME Provided PROVE TaskSpec => Sem!Init /\ [][Sem!Next]_(Sem!vars)
<1>1. TaskInit => SemInv /\ Sem!Init
  <2> SUFFICES ASSUME TaskInit PROVE SemInv /\ Sem!Init
    OBVIOUS
  <2>1. inWait = {} /\ count = 0
    BY DEF TaskInit
  <2>2. Sem!Init
    BY <2>1 DEF Sem!Init
  <2> QED BY <2>1, <2>2, TaskInvInit DEF SemInv
<1>2. SemInv /\ [Next]_vars => SemInv' /\ [Sem!Next]_(Sem!vars)
  <2> SUFFICES ASSUME SemInv, [Next]_vars PROVE SemInv' /\ [Sem!Next]_(Sem!vars)
    OBVIOUS
  <2>1. Typed /\ \A t \in inWait : AtGet(todo[t])
    BY DEF SemInv, TaskInv, Backed
  <2>2. TaskInv'
    BY TaskInvNext DEF SemInv
  <2> QED BY <2>1, <2>2, SemStep DEF SemInv
<1> QED BY <1>1, <1>2, PTL DEF TaskSpec
=============================================================================

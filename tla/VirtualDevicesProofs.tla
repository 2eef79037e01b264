------------------------ MODULE VirtualDevicesProofs ------------------------
(***************************************************************************)
(* Proofs about the devices a program can pretend to have: the HID and the *)
(* CDC ACM interfaces, the disk and the absolute mouse, and about the      *)
(* session that carries commands to them, each as one part of              *)
(* MCVirtualDevices, whose steps it shares with no other.  For each of     *)
(* them an inductive invariant (HidInv, CdcInv, MscInv, MouseInv,          *)
(* StreamInv), a lemma for every operation, and the theorems for the       *)
(* specification.                                                          *)
(***************************************************************************)
EXTENDS MCVirtualDevices, SequenceTheorems, FunctionTheorems, FiniteSetTheorems, TLAPS

-----------------------------------------------------------------------------
(* Queues of requests, and sequences *)

\* Min, of any numbers at all.
LEMMA MinIs ==
  ASSUME NEW I \in SUBSET Nat, I # {}
  PROVE  Min(I) \in I /\ \A j \in I : Min(I) <= j
<1>1. \E x \in I : \A y \in I : ~(<<y, x>> \in OpToRel(<, Nat))
  BY NatLessThanWellFounded, WFMin
<1>2. \A x, y \in Nat : <<y, x>> \in OpToRel(<, Nat) <=> y < x
  BY DEF OpToRel
<1>3. PICK x \in I : \A y \in I : ~(<<y, x>> \in OpToRel(<, Nat))
  BY <1>1
<1>4. ASSUME NEW y \in I PROVE x <= y
  <2>1. x \in Nat /\ y \in Nat /\ ~(y < x)
    BY <1>2, <1>3
  <2> QED
    BY <2>1
<1> QED
  BY <1>4 DEF Min

\* What is left of a sequence on either side of its k-th element.
LEMMA CutAround ==
  ASSUME NEW S, NEW q \in Seq(S), NEW k \in 1 .. Len(q)
  PROVE  LET a == SubSeq(q, 1, k - 1)
             b == SubSeq(q, k + 1, Len(q))
         IN  /\ a \in Seq(S) /\ Len(a) = k - 1 /\ \A i \in 1 .. k - 1 : a[i] = q[i]
             /\ b \in Seq(S) /\ Len(b) = Len(q) - k
             /\ \A i \in 1 .. Len(q) - k : b[i] = q[k + i]
<1>1. /\ k \in Int /\ 1 <= k /\ k <= Len(q) /\ Len(q) \in Int
      /\ \A i \in 1 .. Len(q) : q[i] \in S
  OBVIOUS
<1>2. \A i \in 1 .. k - 1 : q[i] \in S
  BY <1>1
<1>3. \A i \in k + 1 .. Len(q) : q[i] \in S
  BY <1>1
<1>4. /\ SubSeq(q, 1, k - 1) \in Seq(S) /\ Len(SubSeq(q, 1, k - 1)) = k - 1
      /\ \A i \in 1 .. k - 1 : SubSeq(q, 1, k - 1)[i] = q[i]
  BY <1>1, <1>2, SubSeqProperties
<1>5. /\ SubSeq(q, k + 1, Len(q)) \in Seq(S) /\ Len(SubSeq(q, k + 1, Len(q))) = Len(q) - k
      /\ \A i \in 1 .. Len(q) - k : SubSeq(q, k + 1, Len(q))[i] = q[k + i]
  BY <1>1, <1>3, SubSeqProperties
<1> QED
  BY <1>4, <1>5

\* RemoveFirst takes one element out and keeps the order of the others.
LEMMA RemoveFirstIs ==
  ASSUME NEW S, NEW q \in Seq(S), NEW e
  PROVE  \/ /\ \A i \in DOMAIN q : q[i] # e
            /\ RemoveFirst(q, e) = q
         \/ \E k \in DOMAIN q :
              /\ q[k] = e
              /\ RemoveFirst(q, e) \in Seq(S) /\ Len(RemoveFirst(q, e)) = Len(q) - 1
              /\ \A i \in 1 .. Len(q) - 1 :
                   RemoveFirst(q, e)[i] = IF i < k THEN q[i] ELSE q[i + 1]
<1>0. DOMAIN q = 1 .. Len(q) /\ Len(q) \in Nat
  OBVIOUS
<1>1. CASE \A i \in 1 .. Len(q) : q[i] # e
  BY <1>0, <1>1 DEF RemoveFirst
<1>2. CASE \E i \in 1 .. Len(q) : q[i] = e
  <2> DEFINE I == {i \in 1 .. Len(q) : q[i] = e}
             k == Min(I)
  <2>1. k \in I
    <3>1. I \in SUBSET Nat /\ I # {}
      BY <1>2
    <3> HIDE DEF I
    <3> QED
      BY <3>1, MinIs
  <2>2. SelectInSeq(q, LAMBDA v : v = e) = k
    BY <1>2 DEF SelectInSeq
  <2>3. RemoveFirst(q, e) = SubSeq(q, 1, k - 1) \o SubSeq(q, k + 1, Len(q))
    BY <1>2, <2>2 DEF RemoveFirst, RemoveAt
  <2> DEFINE a == SubSeq(q, 1, k - 1)
             b == SubSeq(q, k + 1, Len(q))
  <2> HIDE DEF k
  <2>4. k \in 1 .. Len(q) /\ q[k] = e
    BY <2>1
  <2>5. /\ a \in Seq(S) /\ Len(a) = k - 1 /\ \A i \in 1 .. k - 1 : a[i] = q[i]
        /\ b \in Seq(S) /\ Len(b) = Len(q) - k /\ \A i \in 1 .. Len(q) - k : b[i] = q[k + i]
    BY <2>4, CutAround
  <2> HIDE DEF a, b
  <2>7. /\ a \o b \in Seq(S) /\ Len(a \o b) = Len(a) + Len(b)
        /\ \A i \in 1 .. Len(a) + Len(b) :
             (a \o b)[i] = IF i <= Len(a) THEN a[i] ELSE b[i - Len(a)]
    BY <2>5, ConcatProperties
  <2>6. /\ a \o b \in Seq(S) /\ Len(a \o b) = Len(q) - 1
        /\ \A i \in 1 .. Len(q) - 1 : (a \o b)[i] = IF i < k THEN q[i] ELSE q[i + 1]
    <3>1. ASSUME NEW i \in 1 .. Len(q) - 1
          PROVE  (a \o b)[i] = IF i < k THEN q[i] ELSE q[i + 1]
      <4>1. CASE i < k
        BY <1>0, <2>4, <2>5, <2>7, <4>1
      <4>2. CASE i >= k
        <5>1. i - (k - 1) \in 1 .. Len(q) - k /\ k + (i - (k - 1)) = i + 1
          BY <1>0, <2>4, <4>2
        <5>2. (a \o b)[i] = b[i - (k - 1)]
          BY <1>0, <2>4, <2>5, <2>7, <4>2
        <5>3. b[i - (k - 1)] = q[k + (i - (k - 1))]
          BY <2>5, <5>1
        <5> QED
          BY <1>0, <2>4, <4>2, <5>1, <5>2, <5>3
      <4>3. i < k \/ i >= k
        BY <1>0, <2>4
      <4> QED
        BY <4>1, <4>2, <4>3
    <3> QED
      BY <1>0, <2>4, <2>5, <2>7, <3>1
  <2> QED
    BY <2>3, <2>4, <2>6, <1>0 DEF a, b
<1> QED
  BY <1>1, <1>2

\* A request waits somewhere.
Holds(queues, u) == \E ep \in DOMAIN queues : \E i \in DOMAIN queues[ep] : queues[ep][i] = u

\* No request waits twice.
Distinct(queues) ==
  \A ep, fp \in DOMAIN queues : \A i \in DOMAIN queues[ep] : \A j \in DOMAIN queues[fp] :
    queues[ep][i] = queues[fp][j] => ep = fp /\ i = j

Put(queues, ep, s) == [queues EXCEPT ![ep] = s]
\* s is q without its k-th element.
Without(s, q, k) ==
  /\ Len(s) = Len(q) - 1
  /\ \A i \in 1 .. Len(q) - 1 : s[i] = IF i < k THEN q[i] ELSE q[i + 1]

\* One request leaves its place in one queue.
LEMMA OneLeaves ==
  ASSUME NEW U, NEW E, NEW queues \in [E -> Seq(U)], Distinct(queues),
         NEW ep \in E, NEW k \in DOMAIN queues[ep], NEW s \in Seq(U),
         Without(s, queues[ep], k)
  PROVE  /\ Put(queues, ep, s) \in [E -> Seq(U)]
         /\ Distinct(Put(queues, ep, s))
         /\ \A w : Holds(Put(queues, ep, s), w)
                     <=> Holds(queues, w) /\ w # queues[ep][k]
<1> DEFINE r == Put(queues, ep, s)
           q == queues[ep]
<1>1. /\ r \in [E -> Seq(U)] /\ DOMAIN r = E /\ DOMAIN queues = E /\ r[ep] = s
      /\ \A fp \in E \ {ep} : r[fp] = queues[fp]
  BY DEF Put
<1>2. /\ q \in Seq(U) /\ DOMAIN q = 1 .. Len(q) /\ Len(q) \in Nat /\ k \in 1 .. Len(q)
      /\ DOMAIN s = 1 .. Len(q) - 1
  BY DEF Without
<1> DEFINE from(i) == IF i < k THEN i ELSE i + 1
<1>3. \A i \in 1 .. Len(q) - 1 : from(i) \in 1 .. Len(q) /\ from(i) # k /\ s[i] = q[from(i)]
  BY <1>2 DEF Without
<1>4. \A i, j \in 1 .. Len(q) - 1 : from(i) = from(j) => i = j
  BY <1>2
<1>5. \A j \in 1 .. Len(q) : j = k \/ \E i \in 1 .. Len(q) - 1 : from(i) = j
  <2> SUFFICES ASSUME NEW j \in 1 .. Len(q), j # k
               PROVE  \E i \in 1 .. Len(q) - 1 : from(i) = j
    OBVIOUS
  <2>1. CASE j < k
    <3>1. j \in 1 .. Len(q) - 1 /\ from(j) = j
      BY <1>2, <2>1
    <3> QED
      BY <3>1
  <2>2. CASE j > k
    <3>1. j - 1 \in 1 .. Len(q) - 1 /\ from(j - 1) = j
      BY <1>2, <2>2
    <3> QED
      BY <3>1
  <2> QED
    BY <1>2, <2>1, <2>2
<1> HIDE DEF r, from
<1>6. \A fp \in E : \A i \in DOMAIN r[fp] : \E j \in DOMAIN queues[fp] :
        r[fp][i] = queues[fp][j] /\ (fp # ep => j = i) /\ (fp = ep => j = from(i) /\ j # k)
  BY <1>1, <1>2, <1>3
<1>7. Distinct(r)
  <2> SUFFICES ASSUME NEW e1 \in E, NEW e2 \in E, NEW i \in DOMAIN r[e1], NEW j \in DOMAIN r[e2],
                      r[e1][i] = r[e2][j]
               PROVE  e1 = e2 /\ i = j
    BY <1>1 DEF Distinct
  <2>1. PICK x \in DOMAIN queues[e1] :
          r[e1][i] = queues[e1][x] /\ (e1 # ep => x = i) /\ (e1 = ep => x = from(i))
    BY <1>6
  <2>2. PICK y \in DOMAIN queues[e2] :
          r[e2][j] = queues[e2][y] /\ (e2 # ep => y = j) /\ (e2 = ep => y = from(j))
    BY <1>6
  <2>3. queues[e1][x] = queues[e2][y] /\ e1 \in DOMAIN queues /\ e2 \in DOMAIN queues
    BY <1>1, <2>1, <2>2
  <2>4. e1 = e2 /\ x = y
    BY <2>3 DEF Distinct
  <2> QED
    BY <1>1, <1>2, <1>4, <2>1, <2>2, <2>4
<1>8. ASSUME NEW w, Holds(r, w) PROVE Holds(queues, w) /\ w # q[k]
  <2>3. PICK fp \in E : \E i \in DOMAIN r[fp] : r[fp][i] = w
    BY <1>1, <1>8 DEF Holds
  <2>1. PICK i \in DOMAIN r[fp] : r[fp][i] = w
    BY <2>3
  <2>2. PICK j \in DOMAIN queues[fp] : r[fp][i] = queues[fp][j] /\ (fp = ep => j # k)
    BY <1>6
  <2> QED
    BY <1>1, <1>2, <2>1, <2>2 DEF Holds, Distinct
<1>9. ASSUME NEW w, Holds(queues, w), w # q[k] PROVE Holds(r, w)
  <2>4. PICK fp \in E : \E j \in DOMAIN queues[fp] : queues[fp][j] = w
    BY <1>1, <1>9 DEF Holds
  <2>1. PICK j \in DOMAIN queues[fp] : queues[fp][j] = w
    BY <2>4
  <2>2. CASE fp # ep
    BY <1>1, <2>1, <2>2 DEF Holds
  <2>3. CASE fp = ep
    <3>1. PICK i \in 1 .. Len(q) - 1 : from(i) = j
      BY <1>2, <1>5, <1>9, <2>1, <2>3
    <3>2. s[i] = w /\ i \in DOMAIN s
      BY <1>2, <1>3, <2>1, <2>3, <3>1
    <3> QED
      BY <1>1, <3>2 DEF Holds
  <2> QED
    BY <2>2, <2>3
<1> QED
  BY <1>1, <1>7, <1>8, <1>9 DEF r

\* cancel_by_seqnum takes the request out, and no other.
LEMMA CancelIs ==
  ASSUME NEW U, NEW E, NEW queues \in [E -> Seq(U)], Distinct(queues), NEW u
  PROVE  /\ cancel_by_seqnum(queues, u) \in [E -> Seq(U)]
         /\ Distinct(cancel_by_seqnum(queues, u))
         /\ \A w : Holds(cancel_by_seqnum(queues, u), w) <=> Holds(queues, w) /\ w # u
<1> DEFINE found == {ep \in E : Contains(queues[ep], u)}
           ep == CHOOSE e \in found : TRUE
<1>1. \A e \in E : queues[e] \in Seq(U) /\ DOMAIN queues[e] = 1 .. Len(queues[e])
  OBVIOUS
<1>2. CASE found = {}
  <2>1. cancel_by_seqnum(queues, u) = queues
    BY <1>2 DEF cancel_by_seqnum
  <2>2. ~Holds(queues, u)
    BY <1>1, <1>2 DEF Holds, Contains
  <2> QED
    BY <2>1, <2>2
<1>3. CASE found # {}
  <2>1. ep \in found
    BY <1>3
  <2>2. cancel_by_seqnum(queues, u) = [queues EXCEPT ![ep] = RemoveFirst(queues[ep], u)]
    BY <1>3 DEF cancel_by_seqnum
  <2> HIDE DEF ep
  <2>3. ep \in E /\ \E i \in DOMAIN queues[ep] : queues[ep][i] = u
    BY <1>1, <2>1 DEF Contains
  <2>4. PICK k \in DOMAIN queues[ep] :
          /\ queues[ep][k] = u
          /\ RemoveFirst(queues[ep], u) \in Seq(U)
          /\ Len(RemoveFirst(queues[ep], u)) = Len(queues[ep]) - 1
          /\ \A i \in 1 .. Len(queues[ep]) - 1 :
               RemoveFirst(queues[ep], u)[i] =
                 IF i < k THEN queues[ep][i] ELSE queues[ep][i + 1]
    BY <1>1, <2>3, RemoveFirstIs
  <2> DEFINE s == RemoveFirst(queues[ep], u)
  <2>5. s \in Seq(U) /\ Without(s, queues[ep], k)
    BY <2>4 DEF Without
  <2>6. cancel_by_seqnum(queues, u) = Put(queues, ep, s)
    BY <2>2 DEF Put
  <2> HIDE DEF s, found
  <2>7. /\ Put(queues, ep, s) \in [E -> Seq(U)] /\ Distinct(Put(queues, ep, s))
        /\ \A w : Holds(Put(queues, ep, s), w) <=> Holds(queues, w) /\ w # queues[ep][k]
    BY <2>3, <2>5, OneLeaves
  <2> QED
    BY <2>4, <2>6, <2>7
<1> QED
  BY <1>2, <1>3

\* dequeue_any takes the head of a queue, and no other.
LEMMA DequeueIs ==
  ASSUME NEW U, NEW E, NEW queues \in [E -> Seq(U)], Distinct(queues),
         NEW ep \in E, queues[ep] # <<>>
  PROVE  /\ Head(queues[ep]) \in U /\ Holds(queues, Head(queues[ep]))
         /\ dequeue_any(queues, ep) \in [E -> Seq(U)]
         /\ Distinct(dequeue_any(queues, ep))
         /\ \A w : Holds(dequeue_any(queues, ep), w)
                     <=> Holds(queues, w) /\ w # Head(queues[ep])
<1>1. /\ queues[ep] \in Seq(U) /\ 1 \in DOMAIN queues[ep] /\ Len(queues[ep]) \in Nat \ {0}
      /\ Head(queues[ep]) = queues[ep][1] /\ Head(queues[ep]) \in U /\ DOMAIN queues = E
  OBVIOUS
<1>2. /\ Tail(queues[ep]) \in Seq(U) /\ Len(Tail(queues[ep])) = Len(queues[ep]) - 1
      /\ \A i \in 1 .. Len(queues[ep]) - 1 : Tail(queues[ep])[i] = queues[ep][i + 1]
  BY <1>1
<1>3. \A i \in 1 .. Len(queues[ep]) - 1 :
        Tail(queues[ep])[i] = IF i < 1 THEN queues[ep][i] ELSE queues[ep][i + 1]
  BY <1>1, <1>2
<1>4. Holds(queues, Head(queues[ep]))
  BY <1>1 DEF Holds
<1>5. dequeue_any(queues, ep) = [queues EXCEPT ![ep] = Tail(queues[ep])]
  BY DEF dequeue_any
<1> DEFINE s == Tail(queues[ep])
<1>6. s \in Seq(U) /\ Without(s, queues[ep], 1)
  BY <1>2, <1>3 DEF Without
<1>7. dequeue_any(queues, ep) = Put(queues, ep, s)
  BY <1>5 DEF Put
<1> HIDE DEF s
<1>8. /\ Put(queues, ep, s) \in [E -> Seq(U)] /\ Distinct(Put(queues, ep, s))
      /\ \A w : Holds(Put(queues, ep, s), w) <=> Holds(queues, w) /\ w # queues[ep][1]
  <2>1. 1 \in DOMAIN queues[ep]
    BY <1>1
  <2> QED
    BY <2>1, <1>6, OneLeaves
<1> QED
  BY <1>1, <1>4, <1>7, <1>8

\* enqueue adds a request that did not wait yet.
LEMMA EnqueueIs ==
  ASSUME NEW U, NEW E, NEW queues \in [E -> Seq(U)], Distinct(queues),
         NEW ep \in E, NEW u \in U, ~Holds(queues, u)
  PROVE  /\ enqueue(queues, ep, u) \in [E -> Seq(U)]
         /\ Distinct(enqueue(queues, ep, u))
         /\ \A w : Holds(enqueue(queues, ep, u), w) <=> Holds(queues, w) \/ w = u
<1> DEFINE r == enqueue(queues, ep, u)
           q == queues[ep]
<1>1. /\ r \in [E -> Seq(U)] /\ DOMAIN r = E /\ DOMAIN queues = E /\ r[ep] = Append(q, u)
      /\ \A fp \in E \ {ep} : r[fp] = queues[fp]
  BY DEF enqueue
<1>2. /\ q \in Seq(U) /\ Len(q) \in Nat /\ DOMAIN q = 1 .. Len(q)
      /\ DOMAIN Append(q, u) = 1 .. Len(q) + 1 /\ Append(q, u)[Len(q) + 1] = u
      /\ \A i \in 1 .. Len(q) : Append(q, u)[i] = q[i]
  OBVIOUS
<1> HIDE DEF r
<1>3. \A fp \in E : \A i \in DOMAIN r[fp] :
        \/ i \in DOMAIN queues[fp] /\ r[fp][i] = queues[fp][i]
        \/ fp = ep /\ i = Len(q) + 1 /\ r[fp][i] = u
  BY <1>1, <1>2
<1>4. \A fp \in E : \A i \in DOMAIN queues[fp] : i \in DOMAIN r[fp] /\ r[fp][i] = queues[fp][i]
  <2> SUFFICES ASSUME NEW fp \in E, NEW i \in DOMAIN queues[fp]
               PROVE  i \in DOMAIN r[fp] /\ r[fp][i] = queues[fp][i]
    OBVIOUS
  <2>1. CASE fp = ep
    BY <1>1, <1>2, <2>1
  <2>2. CASE fp # ep
    BY <1>1, <2>2
  <2> QED
    BY <2>1, <2>2
<1>5. \A fp \in E : \A i \in DOMAIN queues[fp] : queues[fp][i] # u
  BY <1>1 DEF Holds
<1>6. Distinct(r)
  <2> SUFFICES ASSUME NEW e1 \in E, NEW e2 \in E, NEW i \in DOMAIN r[e1], NEW j \in DOMAIN r[e2],
                      r[e1][i] = r[e2][j]
               PROVE  e1 = e2 /\ i = j
    BY <1>1 DEF Distinct
  <2>1. CASE i \in DOMAIN queues[e1] /\ r[e1][i] = queues[e1][i]
             /\ j \in DOMAIN queues[e2] /\ r[e2][j] = queues[e2][j]
    <3>1. queues[e1][i] = queues[e2][j] /\ e1 \in DOMAIN queues /\ e2 \in DOMAIN queues
      BY <1>1, <2>1
    <3> QED
      BY <2>1, <3>1 DEF Distinct
  <2> QED
    BY <1>3, <1>5, <2>1
<1>7. ASSUME NEW w PROVE Holds(r, w) <=> Holds(queues, w) \/ w = u
  <2>1. ep \in DOMAIN r /\ Len(q) + 1 \in DOMAIN r[ep] /\ r[ep][Len(q) + 1] = u
    BY <1>1, <1>2
  <2>2. Holds(r, u)
    BY <2>1 DEF Holds
  <2>3. Holds(r, w) => Holds(queues, w) \/ w = u
    BY <1>1, <1>3 DEF Holds
  <2>4. Holds(queues, w) => Holds(r, w)
    BY <1>1, <1>4 DEF Holds
  <2> QED
    BY <2>2, <2>3, <2>4
<1> QED
  BY <1>1, <1>6, <1>7 DEF r

\* Queues without a request.
LEMMA NothingWaits ==
  ASSUME NEW U, NEW E
  PROVE  /\ no_requests(E) \in [E -> Seq(U)] /\ Distinct(no_requests(E))
         /\ \A w : ~Holds(no_requests(E), w)
         /\ \A queues \in [E -> Seq(U)] : waiting(queues) = {} <=> \A w : ~Holds(queues, w)
<1>1. /\ no_requests(E) \in [E -> Seq(U)]
      /\ \A ep \in E : DOMAIN no_requests(E)[ep] = {}
  BY DEF no_requests
<1>2. ASSUME NEW queues \in [E -> Seq(U)]
      PROVE  waiting(queues) = {} <=> \A w : ~Holds(queues, w)
  <2>1. \A ep \in E : queues[ep] = <<>> <=> DOMAIN queues[ep] = {}
    <3> SUFFICES ASSUME NEW ep \in E PROVE queues[ep] = <<>> <=> DOMAIN queues[ep] = {}
      OBVIOUS
    <3>1. queues[ep] \in Seq(U) /\ Len(queues[ep]) \in Nat
          /\ DOMAIN queues[ep] = 1 .. Len(queues[ep])
      OBVIOUS
    <3>2. queues[ep] = <<>> <=> Len(queues[ep]) = 0
      BY <3>1
    <3>3. Len(queues[ep]) # 0 => 1 \in DOMAIN queues[ep]
      BY <3>1
    <3>4. Len(queues[ep]) = 0 => DOMAIN queues[ep] = {}
      BY <3>1
    <3> QED
      BY <3>2, <3>3, <3>4
  <2> QED
    BY <2>1 DEF waiting, empty, Holds
<1> QED
  BY <1>1, <1>2 DEF Distinct, Holds

\* What appending to a queue leaves in it, element by element.
LEMMA AppendIs ==
  ASSUME NEW S, NEW q \in Seq(S), NEW e \in S
  PROVE  /\ Append(q, e) \in Seq(S) /\ Len(Append(q, e)) = Len(q) + 1 /\ Len(q) \in Nat
         /\ \A i \in 1 .. Len(q) : Append(q, e)[i] = q[i]
         /\ Append(q, e)[Len(q) + 1] = e
  OBVIOUS

\* What taking the head of a queue leaves in it, element by element.
LEMMA TailIs ==
  ASSUME NEW S, NEW q \in Seq(S), q # <<>>
  PROVE  /\ Tail(q) \in Seq(S) /\ Len(Tail(q)) = Len(q) - 1 /\ Len(q) \in Nat \ {0}
         /\ Head(q) \in S /\ Head(q) = q[1]
         /\ \A i \in 1 .. Len(q) - 1 : Tail(q)[i] = q[i + 1]
  OBVIOUS

\* No endpoint has a request waiting exactly when no queue holds a request.
LEMMA WaitingIs ==
  ASSUME NEW U, NEW E, NEW queues \in [E -> Seq(U)]
  PROVE  waiting(queues) = {} <=> \A w : ~Holds(queues, w)
  BY NothingWaits

\* A second reply appended to a first one.
LEMMA PairIs ==
  ASSUME NEW a, NEW b PROVE Append(<<a>>, b) = <<a, b>> /\ <<a>> # <<>>
<1>1. <<a>> \in Seq({a, b}) /\ <<a, b>> \in Seq({a, b}) /\ Append(<<a>>, b) \in Seq({a, b})
  OBVIOUS
<1>2. Len(<<a, b>>) = 2 /\ Len(Append(<<a>>, b)) = 2
  BY <1>1
<1>3. \A i \in 1 .. 2 : Append(<<a>>, b)[i] = <<a, b>>[i]
  BY <1>1
<1> QED
  BY <1>1, <1>2, <1>3, SeqEqual

-----------------------------------------------------------------------------
(* The HID interface *)

\* Requests and replies of the HID interface.
HidReplies == {"RET_SUBMIT", "RET_UNLINK"}
HidReplyInv ==
  /\ hid_submitted \subseteq HidUrbs /\ hid_unlinks \subseteq hid_submitted
  /\ hid_replies \in [HidUrbs -> Seq(HidReplies)]
  /\ Distinct(hid_requests)
  /\ \A u \in HidUrbs : /\ Holds(hid_requests, u) => /\ u \in hid_submitted \ hid_unlinks
                                                   /\ hid_replies[u] = <<>>
                        /\ u \notin hid_submitted => hid_replies[u] = <<>>
                        /\ u \in hid_submitted \ hid_unlinks =>
                             hid_replies[u] \in {<<>>, <<"RET_SUBMIT">>}
\* Where the reports are.
HidFlowInv ==
  /\ hid_sent \in 0 .. MaxReports /\ hid_received \in Seq(1 .. MaxReports)
  /\ hid_session <=> hid_receiver # "none"
  /\ waiting(hid_requests) # {} =>
       hid_receiver \in {"up", "clear_requests"} /\ hid_reports = <<>>
  /\ \A i \in 1 .. Len(hid_reports) : hid_reports[i] = hid_sent - Len(hid_reports) + i
  /\ hid_receiver = "up" =>
       \A i \in 1 .. Len(hid_received) :
         hid_received[i] = hid_sent - Len(hid_reports) - Len(hid_received) + i
HidInv == HidTypeOK /\ HidReplyInv /\ HidFlowInv

\* Nothing is connected, nothing waits: the invariant holds when the handler is constructed.
LEMMA HidStart == HidInit => HidInv
<1> SUFFICES ASSUME HidInit PROVE HidInv
  OBVIOUS
<1> USE DEF HidInit
<1>1. /\ hid_requests \in [HidInEps -> Seq(HidUrbs)] /\ Distinct(hid_requests)
      /\ waiting(hid_requests) = {} /\ \A w : ~Holds(hid_requests, w)
  BY NothingWaits
<1>2. HidTypeOK
  <2>1. hid_reports \in Seq(1 .. MaxReports)
    OBVIOUS
  <2>2. hid_session \in BOOLEAN /\ hid_receiver = "none"
    OBVIOUS
  <2> QED
    BY <1>1, <2>1, <2>2 DEF HidTypeOK
<1>3. HidReplyInv
  BY <1>1 DEF HidReplyInv
<1>4. HidFlowInv
  BY <1>1, HidAssumption DEF HidFlowInv
<1> QED
  BY <1>2, <1>3, <1>4 DEF HidInv

\* A new report, and what it does to the line of reports.
LEMMA HidStore ==
  ASSUME HidInv, send_input_report_Store PROVE HidInv'
<1> USE DEF HidInv, send_input_report_Store, hidHost, hidQueues
<1>1. hid_sent + 1 \in 1 .. MaxReports /\ hid_reports \in Seq(1 .. MaxReports)
  BY HidAssumption DEF HidTypeOK, HidFlowInv
<1>2. /\ hid_reports' \in Seq(1 .. MaxReports) /\ Len(hid_reports') = Len(hid_reports) + 1
      /\ Len(hid_reports) \in Nat
      /\ \A i \in 1 .. Len(hid_reports) : hid_reports'[i] = hid_reports[i]
      /\ hid_reports'[Len(hid_reports) + 1] = hid_sent + 1
  BY <1>1, AppendIs
<1>3. HidTypeOK'
  BY <1>2 DEF HidTypeOK
<1>4. HidReplyInv'
  BY DEF HidReplyInv
<1>5. hid_sent \in Nat /\ hid_sent' = hid_sent + 1 /\ hid_received' = hid_received
      /\ Len(hid_received) \in Nat
  BY HidAssumption DEF HidFlowInv
<1>6. ASSUME NEW i \in 1 .. Len(hid_reports')
      PROVE  hid_reports'[i] = hid_sent' - Len(hid_reports') + i
  <2>1. CASE i = Len(hid_reports) + 1
    BY <1>2, <1>5, <2>1
  <2>2. CASE i # Len(hid_reports) + 1
    <3>1. i \in 1 .. Len(hid_reports) /\ hid_reports'[i] = hid_reports[i]
      BY <1>2, <2>2
    <3>2. hid_reports[i] = hid_sent - Len(hid_reports) + i
      BY <3>1 DEF HidFlowInv
    <3>3. hid_sent - Len(hid_reports) + i = hid_sent' - Len(hid_reports') + i
      BY <1>2, <1>5
    <3> QED
      BY <3>1, <3>2, <3>3
  <2> QED
    BY <2>1, <2>2
<1>7. hid_receiver' = "up" =>
       \A i \in 1 .. Len(hid_received') :
         hid_received'[i] = hid_sent' - Len(hid_reports') - Len(hid_received') + i
  BY <1>2, <1>5 DEF HidFlowInv
<1>8. waiting(hid_requests') = {}
  BY DEF waiting
<1> QED
  BY <1>1, <1>3, <1>4, <1>6, <1>7, <1>8, HidAssumption DEF HidFlowInv

\* Answering a new request changes nothing about those that wait.
LEMMA HidAnswered ==
  ASSUME HidInv, NEW u \in HidUrbs, hid_submit(u), hid_reply(u, "RET_SUBMIT"),
         hid_requests' = hid_requests
  PROVE  HidReplyInv'
<1> USE DEF HidInv, hid_submit, hid_reply
<1>1. hid_replies[u] = <<>> /\ ~Holds(hid_requests, u) /\ u \notin hid_submitted
      /\ u \notin hid_unlinks /\ hid_unlinks' = hid_unlinks /\ hid_submitted' = hid_submitted \cup {u}
  BY DEF HidReplyInv
<1>2. /\ hid_replies' \in [HidUrbs -> Seq(HidReplies)]
      /\ hid_replies'[u] = <<"RET_SUBMIT">>
      /\ \A v \in HidUrbs \ {u} : hid_replies'[v] = hid_replies[v]
  <2>1. "RET_SUBMIT" \in HidReplies /\ <<"RET_SUBMIT">> = Append(<<>>, "RET_SUBMIT")
        /\ <<"RET_SUBMIT">> \in Seq(HidReplies)
    BY DEF HidReplies
  <2> QED
    BY <1>1, <2>1 DEF HidReplyInv
<1> QED
  BY <1>1, <1>2 DEF HidReplyInv

\* on_new_connection: a session over empty queues, with no report received yet.
LEMMA HidConnect ==
  ASSUME HidInv, hid_on_new_connection PROVE HidInv'
<1> USE DEF HidInv, hid_on_new_connection, hidHost, hidQueues
<1>1. HidTypeOK'
  BY DEF HidTypeOK
<1>2. HidReplyInv'
  BY DEF HidReplyInv
<1>3. hid_received' = <<>> /\ hid_received' \in Seq(1 .. MaxReports)
  OBVIOUS
<1>4. waiting(hid_requests') = waiting(hid_requests) /\ hid_receiver' = "up"
      /\ hid_receiver = "none"
  OBVIOUS
<1>5. \A i \in 1 .. Len(hid_received') :
         hid_received'[i] = hid_sent' - Len(hid_reports') - Len(hid_received') + i
  BY <1>3
<1>6. HidFlowInv'
  BY <1>3, <1>4, <1>5 DEF HidFlowInv
<1> QED
  BY <1>1, <1>2, <1>6

\* handle_interrupt_transfer with a report at hand: the oldest one answers the request.
LEMMA HidInAnswer ==
  ASSUME HidInv, NEW u \in HidUrbs, NEW ep \in HidInEps, hid_interrupt_in_Answer(u, ep)
  PROVE  HidInv'
<1> USE DEF HidInv, hid_interrupt_in_Answer
<1>1. HidReplyInv'
  BY HidAnswered
<1> USE DEF hid_submit
<1>2. /\ hid_reports' \in Seq(1 .. MaxReports) /\ Len(hid_reports') = Len(hid_reports) - 1
      /\ Len(hid_reports) \in Nat \ {0}
      /\ \A i \in 1 .. Len(hid_reports) - 1 : hid_reports'[i] = hid_reports[i + 1]
      /\ Head(hid_reports) = hid_reports[1] /\ Head(hid_reports) \in 1 .. MaxReports
  BY TailIs DEF HidTypeOK
<1>3. /\ hid_received' \in Seq(1 .. MaxReports) /\ Len(hid_received') = Len(hid_received) + 1
      /\ Len(hid_received) \in Nat
      /\ \A i \in 1 .. Len(hid_received) : hid_received'[i] = hid_received[i]
      /\ hid_received'[Len(hid_received) + 1] = Head(hid_reports)
  BY <1>2, AppendIs DEF HidFlowInv
<1>4. HidTypeOK'
  BY <1>2 DEF HidTypeOK
<1>5. hid_sent \in Nat /\ hid_sent' = hid_sent /\ hid_receiver = "up" /\ hid_receiver' = "up"
      /\ hid_requests' = hid_requests /\ waiting(hid_requests) = {}
  BY HidAssumption DEF HidFlowInv
<1>6. \A i \in 1 .. Len(hid_reports') : hid_reports'[i] = hid_sent' - Len(hid_reports') + i
  BY <1>2, <1>5 DEF HidFlowInv
<1>7. ASSUME NEW i \in 1 .. Len(hid_received')
      PROVE  hid_received'[i] = hid_sent' - Len(hid_reports') - Len(hid_received') + i
  <2>1. CASE i \in 1 .. Len(hid_received)
    BY <1>2, <1>3, <1>5, <2>1 DEF HidFlowInv
  <2>2. CASE i = Len(hid_received) + 1
    <3>1. hid_reports[1] = hid_sent - Len(hid_reports) + 1
      BY <1>2 DEF HidFlowInv
    <3> QED
      BY <1>2, <1>3, <1>5, <2>2, <3>1
  <2> QED
    BY <1>3, <2>1, <2>2
<1>8. HidFlowInv'
  BY <1>3, <1>5, <1>6, <1>7 DEF HidFlowInv
<1> QED
  BY <1>1, <1>4, <1>8

\* handle_interrupt_transfer without a report: the request waits at its endpoint.
LEMMA HidInQueue ==
  ASSUME HidInv, NEW u \in HidUrbs, NEW ep \in HidInEps, hid_interrupt_in_Queue(u, ep)
  PROVE  HidInv'
<1> USE DEF HidInv, hid_interrupt_in_Queue, hid_submit
<1>1. u \notin hid_submitted /\ ~Holds(hid_requests, u) /\ Distinct(hid_requests)
      /\ hid_requests \in [HidInEps -> Seq(HidUrbs)] /\ u \notin hid_unlinks
      /\ hid_replies[u] = <<>>
  BY DEF HidReplyInv, HidTypeOK
<1>2. /\ hid_requests' \in [HidInEps -> Seq(HidUrbs)] /\ Distinct(hid_requests')
      /\ \A w : Holds(hid_requests', w) <=> Holds(hid_requests, w) \/ w = u
  BY <1>1, EnqueueIs
<1>3. HidTypeOK'
  BY <1>2 DEF HidTypeOK
<1>4. HidReplyInv'
  BY <1>1, <1>2 DEF HidReplyInv
<1>5. hid_reports = <<>>
  <2>1. ~empty(hid_requests, ep) => waiting(hid_requests) # {}
    BY <1>1 DEF waiting
  <2> QED
    BY <2>1 DEF HidFlowInv
<1>6. HidFlowInv'
  BY <1>5 DEF HidFlowInv
<1> QED
  BY <1>3, <1>4, <1>6

\* Interrupt OUT and control requests: one RET_SUBMIT, and no queue is touched.
LEMMA HidOnTheSpot ==
  ASSUME HidInv, NEW u \in HidUrbs, hid_interrupt_out(u) \/ hid_control(u)
  PROVE  HidInv'
<1> USE DEF HidInv, hid_interrupt_out, hid_control, hidQueues
<1>1. hid_submit(u) /\ hid_reply(u, "RET_SUBMIT") /\ hid_requests' = hid_requests
      /\ hid_reports' = hid_reports /\ hid_received' = hid_received
  OBVIOUS
<1>2. HidReplyInv'
  BY <1>1, HidAnswered
<1>3. HidTypeOK' /\ HidFlowInv'
  BY <1>1 DEF hid_submit, HidTypeOK, HidFlowInv
<1> QED
  BY <1>2, <1>3

\* send_input_report with a request waiting: the oldest at the endpoint is answered.
LEMMA HidSendAnswer ==
  ASSUME HidInv, NEW ep \in HidInEps, send_input_report_Answer(ep)
  PROVE  HidInv'
<1> USE DEF HidInv, send_input_report_Answer
<1> DEFINE u == Head(hid_requests[ep])
<1>1. hid_requests \in [HidInEps -> Seq(HidUrbs)] /\ Distinct(hid_requests)
      /\ hid_requests[ep] # <<>> /\ waiting(hid_requests) # {}
  BY DEF HidTypeOK, HidReplyInv, waiting, empty
<1>2. /\ u \in HidUrbs /\ Holds(hid_requests, u)
      /\ hid_requests' \in [HidInEps -> Seq(HidUrbs)] /\ Distinct(hid_requests')
      /\ \A w : Holds(hid_requests', w) <=> Holds(hid_requests, w) /\ w # u
  BY <1>1, DequeueIs
<1> HIDE DEF u
<1>3. hid_replies[u] = <<>> /\ u \in hid_submitted \ hid_unlinks
      /\ hid_replies' = [hid_replies EXCEPT ![u] = Append(@, "RET_SUBMIT")]
      /\ hid_submitted' = hid_submitted /\ hid_unlinks' = hid_unlinks
  BY <1>2 DEF HidReplyInv, hid_reply, u
<1>4. /\ hid_replies' \in [HidUrbs -> Seq(HidReplies)]
      /\ hid_replies'[u] = <<"RET_SUBMIT">>
      /\ \A v \in HidUrbs \ {u} : hid_replies'[v] = hid_replies[v]
  <2>1. <<"RET_SUBMIT">> = Append(<<>>, "RET_SUBMIT") /\ <<"RET_SUBMIT">> \in Seq(HidReplies)
    BY DEF HidReplies
  <2> QED
    BY <1>2, <1>3, <2>1 DEF HidReplyInv
<1>5. HidReplyInv'
  BY <1>2, <1>3, <1>4 DEF HidReplyInv
<1>6. hid_reports = <<>> /\ hid_reports' = <<>> /\ hid_sent' = hid_sent + 1 /\ hid_sent \in Nat
      /\ hid_sent + 1 \in 1 .. MaxReports /\ hid_receiver' = hid_receiver
      /\ hid_receiver \in {"up", "clear_requests"} /\ hid_session' = hid_session
  BY <1>1, HidAssumption DEF HidFlowInv
<1>7. /\ hid_received' \in Seq(1 .. MaxReports) /\ Len(hid_received') = Len(hid_received) + 1
      /\ Len(hid_received) \in Nat
      /\ \A i \in 1 .. Len(hid_received) : hid_received'[i] = hid_received[i]
      /\ hid_received'[Len(hid_received) + 1] = hid_sent + 1
  BY <1>6, AppendIs DEF HidFlowInv
<1>8. HidTypeOK'
  BY <1>2, <1>6 DEF HidTypeOK
<1>9. ASSUME hid_receiver' = "up", NEW i \in 1 .. Len(hid_received')
      PROVE  hid_received'[i] = hid_sent' - Len(hid_reports') - Len(hid_received') + i
  <2>1. CASE i \in 1 .. Len(hid_received)
    BY <1>6, <1>7, <1>9, <2>1 DEF HidFlowInv
  <2>2. CASE i = Len(hid_received) + 1
    BY <1>6, <1>7, <2>2
  <2> QED
    BY <1>7, <2>1, <2>2
<1>10. HidFlowInv'
  <2>1. hid_sent' \in 0 .. MaxReports
    BY <1>6, HidAssumption
  <2>2. hid_session' <=> hid_receiver' # "none"
    BY <1>6 DEF HidFlowInv
  <2>3. \A i \in 1 .. Len(hid_reports') : hid_reports'[i] = hid_sent' - Len(hid_reports') + i
    BY <1>6
  <2> QED
    BY <1>6, <1>7, <1>9, <2>1, <2>2, <2>3 DEF HidFlowInv
<1> QED
  BY <1>5, <1>8, <1>10

\* handle_unlink_seqnum: the request leaves its queue before its RET_UNLINK goes out.
LEMMA HidUnlinked ==
  ASSUME HidInv, NEW u \in HidUrbs, hid_handle_unlink_seqnum(u)
  PROVE  HidInv'
<1> USE DEF HidInv, hid_handle_unlink_seqnum
<1>1. hid_requests \in [HidInEps -> Seq(HidUrbs)] /\ Distinct(hid_requests)
  BY DEF HidTypeOK, HidReplyInv
<1>2. /\ hid_requests' \in [HidInEps -> Seq(HidUrbs)] /\ Distinct(hid_requests')
      /\ \A w : Holds(hid_requests', w) <=> Holds(hid_requests, w) /\ w # u
  BY <1>1, CancelIs
<1>3. /\ hid_replies' \in [HidUrbs -> Seq(HidReplies)]
      /\ \A v \in HidUrbs \ {u} : hid_replies'[v] = hid_replies[v]
  <2>1. "RET_UNLINK" \in HidReplies
    BY DEF HidReplies
  <2>2. Append(hid_replies[u], "RET_UNLINK") \in Seq(HidReplies)
    BY <2>1, AppendIs DEF HidReplyInv
  <2> QED
    BY <2>2 DEF HidReplyInv, hid_reply
<1>4. HidReplyInv'
  BY <1>2, <1>3 DEF HidReplyInv
<1>5. HidTypeOK'
  BY <1>2 DEF HidTypeOK
<1>6. waiting(hid_requests') # {} => waiting(hid_requests) # {}
  BY <1>1, <1>2, WaitingIs
<1>7. HidFlowInv'
  BY <1>6 DEF HidFlowInv
<1> QED
  BY <1>4, <1>5, <1>7

\* on_disconnection: the reports go, then the requests, then the session.
LEMMA HidDisconnect ==
  ASSUME HidInv, \/ hid_on_disconnection_Reports \/ hid_on_disconnection_Requests
                 \/ hid_on_disconnection_Detach
  PROVE  HidInv'
<1> USE DEF HidInv, hidHost, hidQueues
<1>1. CASE hid_on_disconnection_Reports
  <2> USE <1>1 DEF hid_on_disconnection_Reports
  <2>1. hid_reports' = <<>> /\ hid_reports' \in Seq(1 .. MaxReports)
    OBVIOUS
  <2>2. HidTypeOK' /\ HidReplyInv'
    BY <2>1 DEF HidTypeOK, HidReplyInv
  <2>3. HidFlowInv'
    BY <2>1 DEF HidFlowInv
  <2> QED
    BY <2>2, <2>3
<1>2. CASE hid_on_disconnection_Requests
  <2> USE <1>2 DEF hid_on_disconnection_Requests
  <2>1. /\ hid_requests' \in [HidInEps -> Seq(HidUrbs)] /\ Distinct(hid_requests')
        /\ waiting(hid_requests') = {} /\ \A w : ~Holds(hid_requests', w)
    BY NothingWaits
  <2>2. HidTypeOK' /\ HidReplyInv'
    BY <2>1 DEF HidTypeOK, HidReplyInv
  <2>3. HidFlowInv'
    BY <2>1 DEF HidFlowInv
  <2> QED
    BY <2>2, <2>3
<1>3. CASE hid_on_disconnection_Detach
  <2> USE <1>3 DEF hid_on_disconnection_Detach
  <2>1. HidTypeOK' /\ HidReplyInv'
    BY DEF HidTypeOK, HidReplyInv
  <2>2. HidFlowInv'
    BY DEF HidFlowInv
  <2> QED
    BY <2>1, <2>2
<1> QED
  BY <1>1, <1>2, <1>3

\* Every step of the HID interface preserves its invariant.
LEMMA HidStep ==
  ASSUME HidInv, HidNext \/ UNCHANGED hidVars PROVE HidInv'
<1>1. CASE HidNext
  BY <1>1, HidConnect, HidInAnswer, HidInQueue, HidOnTheSpot, HidSendAnswer, HidStore,
     HidUnlinked, HidDisconnect DEF HidNext
<1>2. CASE UNCHANGED hidVars
  BY <1>2 DEF hidVars, hidQueues, hidHost, HidInv, HidTypeOK, HidReplyInv, HidFlowInv
<1> QED
  BY <1>1, <1>2

\* The invariant says of the reports and the session what the runs check.
LEMMA HidLine ==
  ASSUME HidInv PROVE HidReportsFlow /\ HidSessionOutlivesRequests
<1> USE DEF HidInv
<1>1. HidSessionOutlivesRequests /\ (hid_reports # <<>> => waiting(hid_requests) = {})
  BY DEF HidFlowInv, HidSessionOutlivesRequests
<1>2. ASSUME hid_receiver = "up"
      PROVE  LET line == hid_received \o hid_reports
             IN  \A i \in 1 .. Len(line) - 1 : line[i + 1] = line[i] + 1
  <2> DEFINE line == hid_received \o hid_reports
             first == hid_sent - Len(hid_reports) - Len(hid_received)
  <2>1. /\ hid_received \in Seq(1 .. MaxReports) /\ hid_reports \in Seq(1 .. MaxReports)
        /\ Len(hid_received) \in Nat /\ Len(hid_reports) \in Nat /\ hid_sent \in Nat
    BY HidAssumption DEF HidTypeOK, HidFlowInv
  <2>2. /\ Len(line) = Len(hid_received) + Len(hid_reports)
        /\ \A i \in 1 .. Len(hid_received) + Len(hid_reports) :
             line[i] = IF i <= Len(hid_received) THEN hid_received[i]
                       ELSE hid_reports[i - Len(hid_received)]
    BY <2>1, ConcatProperties
  <2> HIDE DEF line
  <2>3. ASSUME NEW i \in 1 .. Len(line) PROVE line[i] = first + i
    <3>1. CASE i <= Len(hid_received)
      BY <1>2, <2>1, <2>2, <3>1 DEF HidFlowInv
    <3>2. CASE ~(i <= Len(hid_received))
      <4>1. i - Len(hid_received) \in 1 .. Len(hid_reports)
        BY <2>1, <2>2, <3>2
      <4>2. hid_reports[i - Len(hid_received)]
              = hid_sent - Len(hid_reports) + (i - Len(hid_received))
        BY <4>1 DEF HidFlowInv
      <4> QED
        BY <2>1, <2>2, <3>2, <4>2
    <3> QED
      BY <3>1, <3>2
  <2>4. \A i \in 1 .. Len(line) - 1 : line[i + 1] = line[i] + 1
    <3> SUFFICES ASSUME NEW i \in 1 .. Len(line) - 1 PROVE line[i + 1] = line[i] + 1
      OBVIOUS
    <3>1. i \in 1 .. Len(line) /\ i + 1 \in 1 .. Len(line) /\ i \in Int /\ first \in Int
      BY <2>1, <2>2
    <3>2. line[i] = first + i /\ line[i + 1] = first + (i + 1)
      BY <2>3, <3>1
    <3> HIDE DEF first
    <3> QED
      BY <3>1, <3>2
  <2> QED
    BY <2>4 DEF line
<1> QED
  BY <1>1, <1>2 DEF HidReportsFlow

\* The interface starts where the contract starts: nothing submitted, nothing sent.
LEMMA HidContractInit == HidInit => HidContract!Init
  BY DEF HidInit, HidContract!Init

\* Every step of the HID interface is a step of the contract or changes none of its state.
LEMMA HidContractStep ==
  ASSUME HidInv, HidNext \/ UNCHANGED hidVars
  PROVE  HidContract!Next \/ UNCHANGED HidContract!contractVars
<1> USE DEF HidInv
<1>1. ASSUME NEW u \in HidUrbs, hid_submit(u), hid_reply(u, "RET_SUBMIT")
      PROVE  HidContract!Next
  <2>1. hid_replies[u] = <<>> /\ <<"RET_SUBMIT">> = Append(<<>>, "RET_SUBMIT")
    BY <1>1 DEF hid_submit, HidReplyInv
  <2>2. hid_replies' = [hid_replies EXCEPT ![u] = <<"RET_SUBMIT">>]
    BY <1>1, <2>1 DEF hid_reply
  <2>3. HidContract!Submit(u)
    BY <1>1, <2>2 DEF hid_submit, HidContract!Submit
  <2> QED
    BY <2>3 DEF HidContract!Next
<1>2. ASSUME NEW u \in HidUrbs, NEW ep \in HidInEps, hid_interrupt_in_Queue(u, ep)
      PROVE  HidContract!Next
  <2>1. HidContract!Submit(u)
    BY <1>2 DEF hid_interrupt_in_Queue, hid_submit, HidContract!Submit
  <2> QED
    BY <2>1 DEF HidContract!Next
<1>3. ASSUME NEW ep \in HidInEps, send_input_report_Answer(ep)
      PROVE  HidContract!Next
  <2> DEFINE u == Head(hid_requests[ep])
  <2>1. hid_requests \in [HidInEps -> Seq(HidUrbs)] /\ Distinct(hid_requests)
        /\ hid_requests[ep] # <<>>
    BY <1>3 DEF send_input_report_Answer, HidTypeOK, HidReplyInv, waiting, empty
  <2>2. u \in HidUrbs /\ Holds(hid_requests, u)
    BY <2>1, DequeueIs
  <2>3. hid_replies' = [hid_replies EXCEPT ![u] = Append(@, "RET_SUBMIT")]
        /\ UNCHANGED <<hid_submitted, hid_unlinks>>
    BY <1>3 DEF send_input_report_Answer, hid_reply
  <2> HIDE DEF u
  <2>4. hid_replies[u] = <<>> /\ u \in hid_submitted /\ <<"RET_SUBMIT">> = Append(<<>>, "RET_SUBMIT")
    BY <2>2 DEF HidReplyInv
  <2>5. HidContract!SendResult(u)
    BY <2>3, <2>4 DEF HidContract!SendResult
  <2> QED
    BY <2>2, <2>5 DEF HidContract!Next
<1>4. ASSUME NEW u \in HidUrbs, hid_handle_unlink_seqnum(u)
      PROVE  HidContract!Next
  <2>1. /\ u \in hid_submitted /\ u \notin hid_unlinks /\ hid_unlinks' = hid_unlinks \cup {u}
        /\ UNCHANGED hid_submitted
        /\ hid_replies' = [hid_replies EXCEPT ![u] = Append(@, "RET_UNLINK")]
    BY <1>4 DEF hid_handle_unlink_seqnum, hid_reply
  <2>2. hid_replies[u] \in {<<>>, <<"RET_SUBMIT">>}
    BY <2>1 DEF HidReplyInv
  <2>3. Append(hid_replies[u], "RET_UNLINK")
          = IF hid_replies[u] = <<>> THEN <<"RET_UNLINK">> ELSE <<"RET_SUBMIT", "RET_UNLINK">>
    <3>1. CASE hid_replies[u] = <<>>
      BY <3>1
    <3>2. CASE hid_replies[u] = <<"RET_SUBMIT">>
      BY <3>2, PairIs
    <3> QED
      BY <2>2, <3>1, <3>2
  <2>4. hid_replies' = HidContract!WithRetUnlink(u)
    BY <2>1, <2>3 DEF HidContract!WithRetUnlink
  <2>5. HidContract!NotUnlinkedYet(u)
    BY <2>2 DEF HidContract!NotUnlinkedYet
  <2>6. HidContract!Unlink(u)
    BY <2>1, <2>4, <2>5 DEF HidContract!Unlink
  <2> QED
    BY <2>6 DEF HidContract!Next
<1>5. ASSUME \/ hid_on_new_connection \/ send_input_report_Store
             \/ hid_on_disconnection_Reports \/ hid_on_disconnection_Requests
             \/ hid_on_disconnection_Detach \/ UNCHANGED hidVars
      PROVE  UNCHANGED HidContract!contractVars
  BY <1>5 DEF hid_on_new_connection, send_input_report_Store, hid_on_disconnection_Reports,
     hid_on_disconnection_Requests, hid_on_disconnection_Detach, hidVars, hidHost,
     HidContract!contractVars
<1> QED
  <2>1. ASSUME NEW u \in HidUrbs, \/ \E ep \in HidInEps : hid_interrupt_in_Answer(u, ep)
                                  \/ hid_interrupt_out(u) \/ hid_control(u)
        PROVE  HidContract!Next
    BY <1>1, <2>1 DEF hid_interrupt_in_Answer, hid_interrupt_out, hid_control
  <2> QED
    BY <1>2, <1>3, <1>4, <1>5, <2>1 DEF HidNext

\* A step of any device is a step of the HID interface or leaves it alone.
LEMMA HidProject ==
  ASSUME Next \/ UNCHANGED <<deviceVars, csVars>>
  PROVE  HidNext \/ UNCHANGED hidVars
  BY DEF Next, deviceVars

\* Requests of the HID interface are in at most one queue and are in none once they are
\* answered or unlinked; reports and requests never wait for each other.
THEOREM HidInvariant == Spec => []HidInv
<1>1. Init => HidInv
  BY HidStart DEF Init
<1>2. HidInv /\ [Next]_<<deviceVars, csVars>> => HidInv'
  BY HidStep, HidProject
<1> QED
  BY <1>1, <1>2, PTL DEF Spec

\* send_input_report and handle_interrupt_transfer meet under both mutexes: a report never
\* waits beside a request, and a client receives the reports in order with none left out.
THEOREM HidReports == Spec => []HidReportsFlow
<1>1. HidInv => HidReportsFlow
  BY HidLine
<1> QED
  BY <1>1, HidInvariant, PTL

\* The HID interface keeps what DeviceHandler.h promises of CMD_UNLINK: one RET_UNLINK for
\* each, at most one RET_SUBMIT for each request, and no RET_SUBMIT after its RET_UNLINK.
THEOREM HidContractRefined == Spec => HidImplementsContract
<1>1. Init => HidContract!Init
  BY HidContractInit DEF Init
<1>2. HidInv /\ [Next]_<<deviceVars, csVars>>
        => [HidContract!Next]_HidContract!contractVars
  BY HidContractStep, HidProject
<1> QED
  BY <1>1, <1>2, HidInvariant, PTL DEF Spec, HidImplementsContract, HidContract!Spec

-----------------------------------------------------------------------------
(* The serial port *)

CdcBusy == {"up", "echo", "unlink", "comm_requests"}
CdcDown == {"data_requests", "notify_all", "data_detach", "none"}
Positions == {"idle", "space", "wait", "woken", "send"}
\* Which part of a connection there is, by the receiver's position.
CdcLinkInv ==
  /\ cdc_receiver \in CdcBusy \cup {"comm_detach", "data_tx"} \cup CdcDown
  /\ "data" \in cdc_session <=> cdc_receiver # "none"
  /\ "comm" \in cdc_session <=> cdc_receiver \in CdcBusy \cup {"comm_detach"}
  /\ disconnected_ <=> cdc_receiver \in CdcDown
  /\ waiting(notice_requests) # {} => cdc_receiver \in CdcBusy
  /\ waiting(bulk_requests) # {} =>
       cdc_receiver \in CdcBusy \cup {"comm_detach", "data_tx", "data_requests"}
  /\ spc[Receiver] # "idle" <=> cdc_receiver = "echo"
\* What keeps bytes, requests and senders moving.
CdcFlowInv ==
  /\ \A t \in Threads : spc[t] \in {"space", "wait", "woken"} => left[t] > 0
  /\ (\E t \in Threads : spc[t] = "wait") => cdc_receiver \notin {"data_detach", "none"}
  /\ CdcBytesFlow /\ CdcNoStrandedSender
CdcInv == CdcTypeOK /\ CdcLinkInv /\ CdcFlowInv

\* Rounding up.
LEMMA Ceiling ==
  ASSUME NEW a \in Nat, NEW b \in Nat \ {0}
  PROVE  /\ (a + b - 1) \div b \in Nat
         /\ ((a + b - 1) \div b) * b >= a
         /\ a = 0 => (a + b - 1) \div b = 0
<1>1. (a + b - 1) \div b \in Nat
  OBVIOUS
<1>2. ((a + b - 1) \div b) * b >= a
  OBVIOUS
<1>3. a = 0 => (a + b - 1) \div b = 0
  OBVIOUS
<1> QED
  BY <1>1, <1>2, <1>3

\* The serial port has one bulk and one interrupt IN endpoint.
LEMMA OneQueue ==
  /\ \A queues \in [Bulk -> Seq(CdcUrbs)] : waiting(queues) = {} <=> queues["in1"] = <<>>
  /\ \A queues \in [Notice -> Seq(CdcUrbs)] : waiting(queues) = {} <=> queues["in3"] = <<>>
  BY DEF Bulk, Notice, waiting, empty

\* The sizes are positive; the threads that send are finitely many, the receiver among them.
LEMMA CdcConstants ==
  /\ RequestLength \in Nat \ {0} /\ Capacity \in Nat \ {0} /\ MessageLength \in Nat \ {0}
  /\ IsFiniteSet(Threads) /\ Receiver \in Threads /\ Senders \subseteq Threads
  /\ Receiver \notin Senders
<1>1. IsFiniteSet(Senders) /\ IsFiniteSet({Receiver})
  BY CdcAssumption, FS_Singleton
<1> QED
  BY <1>1, CdcAssumption, FS_Union DEF Threads, Receiver

\* Draining leaves no byte, or no request; whoever drains the last byte
\* answers a request.
LEMMA DrainIs ==
  ASSUME NEW tx \in 0 .. Capacity, NEW q \in Seq(CdcUrbs)
  PROVE  /\ Drain(tx, q).tx \in 0 .. Capacity
         /\ Drain(tx, q).queue \in Seq(CdcUrbs)
         /\ Drain(tx, q).tx = 0 \/ Drain(tx, q).queue = <<>>
         /\ q = <<>> => Drain(tx, q).queue = <<>>
         /\ Cardinality(Drain(tx, q).answered) \in Nat
         /\ tx > 0 /\ Drain(tx, q).tx = 0 => Cardinality(Drain(tx, q).answered) >= 1
<1> DEFINE c == (tx + RequestLength - 1) \div RequestLength
           n == Least(Len(q), c)
           answered == {q[i] : i \in 1 .. n}
<1>1. tx \in Nat /\ Len(q) \in Nat /\ RequestLength \in Nat \ {0} /\ Capacity \in Nat
      /\ tx <= Capacity
  BY CdcConstants
<1>2. c \in Nat /\ c * RequestLength >= tx
  BY <1>1, Ceiling
<1>3. Drain(tx, q) = [tx |-> tx - Least(tx, n * RequestLength), queue |-> SubSeq(q, n + 1, Len(q)),
                      answered |-> answered]
  BY DEF Drain
<1> HIDE DEF c
<1>4. n \in 0 .. Len(q) /\ (n = Len(q) \/ n = c)
  BY <1>1, <1>2 DEF Least
<1> HIDE DEF n
<1>5. n * RequestLength \in Nat
  BY <1>1, <1>4
<1>6. tx - Least(tx, n * RequestLength) \in 0 .. Capacity
  BY <1>1, <1>5 DEF Least
<1>7. SubSeq(q, n + 1, Len(q)) \in Seq(CdcUrbs) /\ (n = Len(q) => SubSeq(q, n + 1, Len(q)) = <<>>)
  <2>1. SubSeq(q, n + 1, Len(q)) \in Seq(CdcUrbs)
        /\ Len(SubSeq(q, n + 1, Len(q))) = Len(q) - n
    BY <1>1, <1>4, SubSeqProperties
  <2> QED
    BY <1>1, <2>1, EmptySeq
<1>8. n = c => tx - Least(tx, n * RequestLength) = 0
  BY <1>1, <1>2, <1>5 DEF Least
<1>9. IsFiniteSet(answered) /\ (n >= 1 => answered # {})
  <2> DEFINE f == [i \in 1 .. n |-> q[i]]
  <2>1. f \in Surjection(1 .. n, answered)
    BY Fun_IsSurj
  <2>2. IsFiniteSet(1 .. n)
    BY <1>1, <1>4, FS_Interval
  <2> HIDE DEF f, answered
  <2>3. IsFiniteSet(answered)
    BY <2>1, <2>2, FS_Surjection
  <2>4. n >= 1 => q[1] \in answered
    BY <1>4 DEF answered
  <2> QED
    BY <2>3, <2>4
<1> HIDE DEF answered
<1>10. Cardinality(answered) \in Nat /\ (n >= 1 => Cardinality(answered) >= 1)
  BY <1>9, FS_CardinalityType, FS_EmptySet
<1>11. tx > 0 /\ tx - Least(tx, n * RequestLength) = 0 => n >= 1
  <2>1. n = 0 => Least(tx, n * RequestLength) = 0
    BY <1>1 DEF Least
  <2> QED
    BY <1>1, <1>4, <2>1
<1>12. q = <<>> => n = Len(q)
  BY <1>1, <1>4
<1> QED
  BY <1>3, <1>4, <1>6, <1>7, <1>8, <1>10, <1>11, <1>12

\* A notification moves waiting threads to "woken", and nothing else.
Roused(pc, pc2) ==
  \A t \in Threads : pc2[t] = pc[t] \/ (pc[t] = "wait" /\ pc2[t] = "woken")
Waits(pc) == \E t \in Threads : pc[t] = "wait"
\* notify_one called n times: some of those that wait are woken, at least one if n >= 1, all
\* of them if n is large enough, and nobody else moves.
LEMMA NotifyIs ==
  ASSUME NEW pc \in [Threads -> Positions], NEW n \in Nat, NEW pc2 \in notify(n, pc)
  PROVE  /\ pc2 \in [Threads -> Positions] /\ Roused(pc, pc2)
         /\ n >= 1 /\ Waits(pc) => \E t \in Threads : pc2[t] = "woken"
         /\ n >= Cardinality(Threads) => ~Waits(pc2)
<1> DEFINE waiters == {t \in Threads : pc[t] = "wait"}
<1>1. DOMAIN pc = Threads
  OBVIOUS
<1>2. PICK W \in SUBSET waiters : /\ Cardinality(W) = Least(n, Cardinality(waiters))
                                  /\ pc2 = [t \in Threads |-> IF t \in W THEN "woken" ELSE pc[t]]
  BY <1>1 DEF notify
<1>3. IsFiniteSet(waiters) /\ Cardinality(waiters) \in Nat
      /\ Cardinality(waiters) <= Cardinality(Threads) /\ Cardinality(Threads) \in Nat
  BY CdcConstants, FS_Subset, FS_CardinalityType
<1>4. IsFiniteSet(W) /\ (Cardinality(waiters) = Cardinality(W) => W = waiters)
  BY <1>3, FS_Subset
<1>5. pc2 \in [Threads -> Positions] /\ Roused(pc, pc2)
  BY <1>2 DEF Positions, Roused
<1>6. ASSUME n >= 1, Waits(pc) PROVE \E t \in Threads : pc2[t] = "woken"
  <2>1. waiters # {}
    BY <1>6 DEF Waits
  <2>2. Cardinality(waiters) # 0
    BY <1>3, <2>1, FS_EmptySet
  <2>3. Cardinality(W) # 0
    BY <1>2, <1>3, <1>6, <2>2 DEF Least
  <2>4. W # {}
    BY <2>3, FS_EmptySet
  <2> QED
    BY <1>2, <2>4
<1>7. ASSUME n >= Cardinality(Threads) PROVE ~Waits(pc2)
  <2>1. W = waiters
    BY <1>2, <1>3, <1>4, <1>7 DEF Least
  <2> QED
    BY <1>2, <2>1 DEF Waits
<1> QED
  BY <1>5, <1>6, <1>7

\* Cancelling a request makes nobody wait who did not.
LEMMA CancelShrinks ==
  ASSUME NEW U, NEW E, NEW queues \in [E -> Seq(U)], NEW u
  PROVE  /\ cancel_by_seqnum(queues, u) \in [E -> Seq(U)]
         /\ waiting(cancel_by_seqnum(queues, u)) \subseteq waiting(queues)
<1> DEFINE found == {e \in E : Contains(queues[e], u)}
           ep == CHOOSE e \in found : TRUE
           s == RemoveFirst(queues[ep], u)
<1>1. CASE found = {}
  BY <1>1 DEF cancel_by_seqnum
<1>2. CASE found # {}
  <2>1. ep \in found
    BY <1>2
  <2>2. cancel_by_seqnum(queues, u) = Put(queues, ep, s)
    BY <1>2 DEF cancel_by_seqnum, Put
  <2> HIDE DEF ep
  <2>3. ep \in E /\ queues[ep] \in Seq(U) /\ \E i \in DOMAIN queues[ep] : queues[ep][i] = u
    BY <2>1 DEF Contains
  <2>4. s \in Seq(U) /\ queues[ep] # <<>>
    BY <2>3, RemoveFirstIs
  <2> HIDE DEF s
  <2>5. Put(queues, ep, s) \in [E -> Seq(U)]
    BY <2>3, <2>4 DEF Put
  <2>6. waiting(Put(queues, ep, s)) \subseteq waiting(queues)
    BY <2>3, <2>4 DEF Put, waiting, empty
  <2> QED
    BY <2>2, <2>5, <2>6
<1> QED
  BY <1>1, <1>2

\* The types that the steps below need.
LEMMA CdcTypes ==
  ASSUME CdcInv
  PROVE  /\ tx_buffer_ \in 0 .. Capacity /\ tx_buffer_ \in Nat
         /\ bulk_requests["in1"] \in Seq(CdcUrbs) /\ notice_requests["in3"] \in Seq(CdcUrbs)
         /\ spc \in [Threads -> Positions] /\ left \in [Threads -> 0 .. MessageLength]
         /\ \A t \in Threads : left[t] \in Nat
<1>1. tx_buffer_ \in 0 .. Capacity /\ spc \in [Threads -> Positions]
      /\ left \in [Threads -> 0 .. MessageLength]
  BY DEF CdcInv, CdcTypeOK, Positions
<1>2. bulk_requests["in1"] \in Seq(CdcUrbs) /\ notice_requests["in3"] \in Seq(CdcUrbs)
  BY DEF CdcInv, CdcTypeOK, Bulk, Notice
<1> QED
  BY <1>1, <1>2, CdcConstants

\* What deliver leaves in the one bulk IN queue.
LEMMA Delivered ==
  ASSUME NEW q \in Seq(CdcUrbs)
  PROVE  /\ [ep \in Bulk |-> q] \in [Bulk -> Seq(CdcUrbs)]
         /\ waiting([ep \in Bulk |-> q]) = {} <=> q = <<>>
<1>1. [ep \in Bulk |-> q] \in [Bulk -> Seq(CdcUrbs)] /\ [ep \in Bulk |-> q]["in1"] = q
  BY DEF Bulk
<1> QED
  BY <1>1, OneQueue

\* A step that drains, or has nothing to drain.
LEMMA DrainNotify ==
  ASSUME CdcInv, NEW tx \in 0 .. Capacity, tx >= tx_buffer_, NEW q \in Seq(CdcUrbs),
         NEW pc \in notify(Cardinality(Drain(tx, q).answered), spc)
  PROVE  /\ pc \in [Threads -> Positions] /\ Roused(spc, pc)
         /\ Waits(pc) =>
              \/ Drain(tx, q).tx > 0 \/ swallowed
              \/ \E t \in Threads : pc[t] = "woken"
              \/ cdc_receiver \in {"data_requests", "notify_all"}
<1> DEFINE n == Cardinality(Drain(tx, q).answered)
<1>1. n \in Nat /\ (tx > 0 /\ Drain(tx, q).tx = 0 => n >= 1) /\ Drain(tx, q).tx \in Nat
      /\ tx \in Nat /\ tx_buffer_ \in Nat
  BY DrainIs, CdcConstants, CdcTypes
<1> HIDE DEF n
<1>2. /\ pc \in [Threads -> Positions] /\ Roused(spc, pc)
      /\ n >= 1 /\ Waits(spc) => \E t \in Threads : pc[t] = "woken"
  BY <1>1, NotifyIs, CdcTypes DEF n
<1>3. ASSUME Waits(pc)
      PROVE  \/ Drain(tx, q).tx > 0 \/ swallowed
             \/ \E t \in Threads : pc[t] = "woken"
             \/ cdc_receiver \in {"data_requests", "notify_all"}
  <2>1. Waits(spc)
    BY <1>2, <1>3 DEF Waits, Roused
  <2>2. \/ tx_buffer_ > 0 \/ swallowed \/ \E t \in Threads : spc[t] = "woken"
        \/ cdc_receiver \in {"data_requests", "notify_all"}
    BY <2>1 DEF CdcInv, CdcFlowInv, CdcNoStrandedSender, Waits
  <2>3. CASE tx_buffer_ > 0
    BY <1>1, <1>2, <2>1, <2>3
  <2>4. CASE \E t \in Threads : spc[t] = "woken"
    BY <1>2, <2>4 DEF Roused
  <2> QED
    BY <2>2, <2>3, <2>4
<1> QED
  BY <1>2, <1>3

\* The parts of a connection stay what they are while requests only leave.
LEMMA LinkKept ==
  ASSUME CdcInv, cdc_receiver' = cdc_receiver \/ (cdc_receiver = "echo" /\ cdc_receiver' = "up"),
         UNCHANGED <<cdc_session, disconnected_>>,
         waiting(notice_requests') # {} => waiting(notice_requests) # {},
         waiting(bulk_requests') # {} => waiting(bulk_requests) # {},
         spc'[Receiver] # "idle" <=> cdc_receiver' = "echo"
  PROVE  CdcLinkInv'
  BY DEF CdcInv, CdcLinkInv, CdcBusy, CdcDown

\* send_data_blocking: a thread enters, with a message to send.
LEMMA CdcBegin ==
  ASSUME CdcInv, NEW t \in Threads, send_data_blocking_Begin(t) PROVE CdcInv'
<1> USE DEF CdcInv, send_data_blocking_Begin, cdcRequests, cdcHost, cdcLink, cdcReceiver
<1>1. t \in Senders /\ t # Receiver /\ Receiver \in Threads /\ MessageLength \in Nat \ {0}
  BY CdcConstants
<1>2. /\ spc' \in [Threads -> Positions] /\ left' \in [Threads -> 0 .. MessageLength]
      /\ spc'[t] = "space" /\ left'[t] = MessageLength
      /\ \A s \in Threads \ {t} : spc'[s] = spc[s] /\ left'[s] = left[s]
  BY <1>1, CdcTypes DEF Positions
<1>3. CdcTypeOK'
  BY <1>2 DEF CdcTypeOK, Positions
<1>4. CdcLinkInv'
  BY <1>1, <1>2, LinkKept DEF CdcLinkInv
<1>5. CdcFlowInv'
  <2>1. \A s \in Threads : spc'[s] \in {"space", "wait", "woken"} => left'[s] > 0
    BY <1>1, <1>2 DEF CdcFlowInv
  <2>2. \A s \in Threads : spc'[s] = "wait" => spc[s] = "wait"
    BY <1>2
  <2>3. \A s \in Threads : /\ spc[s] = "send" => spc'[s] = "send"
                           /\ spc[s] = "woken" => spc'[s] = "woken"
    BY <1>2
  <2> QED
    BY <2>1, <2>2, <2>3 DEF CdcFlowInv, CdcBytesFlow, CdcNoStrandedSender
<1> QED
  BY <1>3, <1>4, <1>5

\* send_data_blocking returns because disconnected_ is set.
LEMMA CdcGone ==
  ASSUME CdcInv, NEW t \in Threads, send_data_blocking_Gone(t) PROVE CdcInv'
<1> USE DEF CdcInv, send_data_blocking_Gone, cdcRequests, cdcHost, cdcLink, cdcCall
<1>1. /\ spc' \in [Threads -> Positions] /\ left' = left
      /\ spc'[t] = "idle" /\ spc[t] \in {"space", "woken"}
      /\ \A s \in Threads \ {t} : spc'[s] = spc[s]
  BY CdcTypes DEF Positions, returned
<1>2. IF t = Receiver THEN cdc_receiver' = "up" ELSE cdc_receiver' = cdc_receiver
  BY DEF returned, cdcReceiver
<1>3. t # Receiver
  BY CdcConstants DEF CdcLinkInv, CdcDown
<1>4. CdcTypeOK'
  BY <1>1 DEF CdcTypeOK, Positions
<1>5. CdcLinkInv'
  BY <1>1, <1>2, <1>3, LinkKept, CdcConstants DEF CdcLinkInv
<1>6. CdcFlowInv'
  <2>1. cdc_receiver \in CdcDown
    BY DEF CdcLinkInv
  <2>2. \A s \in Threads : spc'[s] \in {"space", "wait", "woken"} => spc'[s] = spc[s]
    BY <1>1
  <2>3. \A s \in Threads : spc[s] = "send" => spc'[s] = "send"
    BY <1>1
  <2>4. (\E s \in Threads : spc'[s] = "wait") => cdc_receiver \in {"data_requests", "notify_all"}
    BY <2>1, <2>2 DEF CdcFlowInv, CdcDown
  <2>5. CdcBytesFlow'
    BY <2>3 DEF CdcFlowInv, CdcBytesFlow
  <2> QED
    BY <1>1, <1>2, <1>3, <2>2, <2>4, <2>5 DEF CdcFlowInv, CdcNoStrandedSender
<1> QED
  BY <1>4, <1>5, <1>6

\* send_data_blocking returns because wait_for timed out; a notification may be lost with it.
LEMMA CdcTimeout ==
  ASSUME CdcInv, NEW t \in Threads, send_data_blocking_Timeout(t) PROVE CdcInv'
<1> USE DEF CdcInv, send_data_blocking_Timeout, cdcRequests, cdcHost, cdcLink, cdcCall
<1>1. /\ spc' \in [Threads -> Positions] /\ left' = left
      /\ spc'[t] = "idle" /\ spc[t] \in {"wait", "woken"}
      /\ \A s \in Threads \ {t} : spc'[s] = spc[s]
  BY CdcTypes DEF Positions, returned
<1>2. t # Receiver /\ cdc_receiver' = cdc_receiver
  BY CdcAssumption, CdcConstants DEF returned, cdcReceiver
<1>3. CdcTypeOK'
  BY <1>1 DEF CdcTypeOK, Positions
<1>4. CdcLinkInv'
  BY <1>1, <1>2, LinkKept, CdcConstants DEF CdcLinkInv
<1>5. CdcFlowInv'
  <2>1. \A s \in Threads : spc'[s] \in {"space", "wait", "woken"} => spc'[s] = spc[s]
    BY <1>1
  <2>2. \A s \in Threads : spc[s] = "send" => spc'[s] = "send"
    BY <1>1
  <2>3. CdcBytesFlow'
    BY <2>2 DEF CdcFlowInv, CdcBytesFlow
  <2>4. ASSUME NEW s \in Threads, spc[s] = "woken" PROVE spc'[s] = "woken" \/ swallowed'
    BY <1>1, <2>4
  <2>5. swallowed => swallowed'
    OBVIOUS
  <2>6. CdcNoStrandedSender'
    BY <1>2, <2>1, <2>4, <2>5 DEF CdcFlowInv, CdcNoStrandedSender
  <2> QED
    BY <1>1, <1>2, <2>1, <2>3, <2>6 DEF CdcFlowInv
<1> QED
  BY <1>3, <1>4, <1>5

\* Writing what fits: bytes are then there for sure.
LEMMA PutIs ==
  ASSUME NEW t \in Threads, NEW tx \in 0 .. Capacity, NEW pc \in [Threads -> Positions],
         left \in [Threads -> 0 .. MessageLength], left[t] > 0, put(t, tx, pc)
  PROVE  /\ tx_buffer_' \in 0 .. Capacity /\ tx_buffer_' > 0
         /\ left' \in [Threads -> 0 .. MessageLength] /\ spc' \in [Threads -> Positions]
         /\ \A s \in Threads \ {t} : spc'[s] = pc[s] /\ left'[s] = left[s]
         /\ \/ spc'[t] = "wait" /\ tx_buffer_' = tx /\ tx = Capacity /\ left'[t] > 0
            \/ spc'[t] = "send"
<1> DEFINE n == Least(left[t], available(tx))
<1>1. left[t] \in 0 .. MessageLength /\ MessageLength \in Nat /\ Capacity \in Nat \ {0} /\ tx \in Nat
      /\ tx <= Capacity /\ left[t] \in Nat
  BY CdcConstants
<1>2. n \in Nat /\ n <= left[t] /\ n <= Capacity - tx /\ (n = 0 => tx = Capacity)
  BY <1>1 DEF Least, available
<1>3. /\ tx_buffer_' = tx + n /\ left' = [left EXCEPT ![t] = @ - n]
      /\ spc' = [pc EXCEPT ![t] = IF n = 0 THEN "wait" ELSE "send"]
  BY DEF put
<1> HIDE DEF n
<1>4. left[t] - n \in 0 .. MessageLength /\ tx + n \in 0 .. Capacity /\ tx + n > 0
  BY <1>1, <1>2
<1>5. left' \in [Threads -> 0 .. MessageLength] /\ spc' \in [Threads -> Positions]
      /\ left'[t] = left[t] - n /\ spc'[t] = IF n = 0 THEN "wait" ELSE "send"
  BY <1>3, <1>4 DEF Positions
<1>6. \A s \in Threads \ {t} : spc'[s] = pc[s] /\ left'[s] = left[s]
  BY <1>3
<1>7. n = 0 => tx + n = tx /\ left[t] - n > 0
  BY <1>1
<1> QED
  BY <1>2, <1>3, <1>4, <1>5, <1>6, <1>7

\* send_data_blocking, notified: it writes what fits and goes on to send, or waits again.
LEMMA CdcWoken ==
  ASSUME CdcInv, NEW t \in Threads, send_data_blocking_Woken(t) PROVE CdcInv'
<1> USE DEF CdcInv, send_data_blocking_Woken, cdcRequests, cdcHost, cdcLink, cdcReceiver
<1>1. /\ tx_buffer_' \in 0 .. Capacity /\ tx_buffer_' > 0
      /\ left' \in [Threads -> 0 .. MessageLength] /\ spc' \in [Threads -> Positions]
      /\ \A s \in Threads \ {t} : spc'[s] = spc[s] /\ left'[s] = left[s]
      /\ \/ spc'[t] = "wait" /\ tx_buffer_' = tx_buffer_ /\ left'[t] > 0
         \/ spc'[t] = "send"
  <2>1. left[t] > 0
    BY DEF CdcFlowInv
  <2> QED
    BY <2>1, CdcTypes, PutIs
<1>2. CdcTypeOK'
  BY <1>1 DEF CdcTypeOK, Positions
<1>3. CdcLinkInv'
  BY <1>1, LinkKept, CdcConstants DEF CdcLinkInv
<1>4. CdcFlowInv'
  <2>1. \A s \in Threads : spc'[s] \in {"space", "wait", "woken"} => left'[s] > 0
    BY <1>1 DEF CdcFlowInv
  <2>2. cdc_receiver' \notin {"data_detach", "none"}
    BY DEF CdcLinkInv, CdcDown
  <2>3. CdcBytesFlow'
    <3>1. ASSUME tx_buffer_' > 0, waiting(bulk_requests') # {}
          PROVE  \E s \in Threads : spc'[s] = "send"
      <4>1. CASE spc'[t] = "send"
        BY <4>1
      <4>2. CASE tx_buffer_' = tx_buffer_
        BY <1>1, <3>1, <4>2 DEF CdcFlowInv, CdcBytesFlow
      <4> QED
        BY <1>1, <4>1, <4>2
    <3> QED
      BY <3>1 DEF CdcFlowInv, CdcBytesFlow
  <2>4. CdcNoStrandedSender'
    BY <1>1 DEF CdcNoStrandedSender
  <2> QED
    BY <2>1, <2>2, <2>3, <2>4 DEF CdcFlowInv
<1> QED
  BY <1>2, <1>3, <1>4

\* send_data_blocking looks for space, after draining a full buffer: who finds none has
\* left the buffer full.
LEMMA CdcSpace ==
  ASSUME CdcInv, NEW t \in Threads, send_data_blocking_Space(t) PROVE CdcInv'
<1> USE DEF CdcInv, cdcLink, cdcReceiver
<1> DEFINE full == available(tx_buffer_) = 0
           d == IF full THEN Drain(tx_buffer_, bulk_requests["in1"])
                ELSE [tx |-> tx_buffer_, queue |-> bulk_requests["in1"], answered |-> {}]
<1>1. /\ spc[t] = "space" /\ ~disconnected_ /\ bulk_requests' = [ep \in Bulk |-> d.queue]
      /\ \E pc \in notify(Cardinality(d.answered), spc) : put(t, d.tx, pc)
      /\ UNCHANGED <<notice_requests, cdc_receiver, cdc_session, disconnected_, swallowed,
                     pending_notification_>>
  BY DEF send_data_blocking_Space, deliver
<1>2. PICK pc \in notify(Cardinality(d.answered), spc) : put(t, d.tx, pc)
  BY <1>1
<1>3. /\ d.tx \in 0 .. Capacity /\ d.queue \in Seq(CdcUrbs)
      /\ d.tx = Capacity => d.queue = <<>>
      /\ bulk_requests["in1"] = <<>> => d.queue = <<>>
      /\ Cardinality(d.answered) \in Nat
  <2>1. CASE full
    BY <2>1, CdcTypes, DrainIs, CdcConstants
  <2>2. CASE ~full
    BY <2>2, CdcTypes, CdcConstants, FS_EmptySet DEF available
  <2> QED
    BY <2>1, <2>2
<1> HIDE DEF d
<1>4. pc \in [Threads -> Positions] /\ Roused(spc, pc)
  BY <1>3, NotifyIs, CdcTypes
<1>5. left[t] > 0 /\ left \in [Threads -> 0 .. MessageLength]
  BY <1>1, CdcTypes DEF CdcFlowInv
<1>6. /\ tx_buffer_' \in 0 .. Capacity /\ tx_buffer_' > 0
      /\ left' \in [Threads -> 0 .. MessageLength] /\ spc' \in [Threads -> Positions]
      /\ \A s \in Threads \ {t} : spc'[s] = pc[s] /\ left'[s] = left[s]
      /\ \/ spc'[t] = "wait" /\ d.tx = Capacity /\ left'[t] > 0
         \/ spc'[t] = "send"
  BY <1>2, <1>3, <1>4, <1>5, PutIs
<1>7. /\ bulk_requests' \in [Bulk -> Seq(CdcUrbs)]
      /\ waiting(bulk_requests') = {} <=> d.queue = <<>>
  BY <1>1, <1>3, Delivered
<1>8. waiting(bulk_requests') # {} => waiting(bulk_requests) # {}
  BY <1>3, <1>7, OneQueue DEF CdcTypeOK
<1>9. CdcTypeOK'
  BY <1>1, <1>6, <1>7 DEF CdcTypeOK, Positions
<1>10. CdcLinkInv'
  <2>1. pc[Receiver] # "idle" <=> spc[Receiver] # "idle"
    BY <1>4, CdcConstants DEF Roused
  <2>2. spc'[Receiver] # "idle" <=> spc[Receiver] # "idle"
    BY <1>1, <1>6, <2>1, CdcConstants
  <2> QED
    BY <1>1, <1>8, <2>2, LinkKept DEF CdcLinkInv
<1>11. CdcFlowInv'
  <2>1. \A s \in Threads : spc'[s] \in {"space", "wait", "woken"} => left'[s] > 0
    BY <1>4, <1>6 DEF CdcFlowInv, Roused
  <2>2. cdc_receiver' \notin {"data_detach", "none"}
    BY <1>1 DEF CdcLinkInv, CdcDown
  <2>3. CdcBytesFlow'
    <3>1. waiting(bulk_requests') # {} => spc'[t] = "send"
      BY <1>3, <1>6, <1>7
    <3> QED
      BY <1>1, <3>1 DEF CdcFlowInv, CdcBytesFlow
  <2>4. CdcNoStrandedSender'
    BY <1>6 DEF CdcNoStrandedSender
  <2> QED
    BY <2>1, <2>2, <2>3, <2>4 DEF CdcFlowInv
<1> QED
  BY <1>9, <1>10, <1>11

\* The end of a send: t goes round the loop, or returns.
LEMMA CdcSend ==
  ASSUME CdcInv, NEW t \in Threads, send_data_blocking_Send(t) PROVE CdcInv'
<1> USE DEF CdcInv, cdcLink, cdcReceiver, cdcCall
<1> DEFINE q == bulk_requests["in1"]
           d == Drain(tx_buffer_, q)
<1>1. /\ spc[t] = "send" /\ bulk_requests' = [ep \in Bulk |-> d.queue] /\ tx_buffer_' = d.tx
      /\ UNCHANGED <<notice_requests, cdc_session, disconnected_, swallowed,
                     pending_notification_, left>>
  BY DEF send_data_blocking_Send, deliver
<1>2. PICK pc \in notify(Cardinality(d.answered), spc) :
        IF left[t] > 0 THEN spc' = [pc EXCEPT ![t] = "space"] /\ UNCHANGED cdcReceiver
                       ELSE returned(t, pc)
  BY DEF send_data_blocking_Send
<1>3. /\ d.tx \in 0 .. Capacity /\ d.queue \in Seq(CdcUrbs) /\ (d.tx = 0 \/ d.queue = <<>>)
      /\ q = <<>> => d.queue = <<>>
  BY CdcTypes, DrainIs
<1>4. /\ pc \in [Threads -> Positions] /\ Roused(spc, pc)
      /\ Waits(pc) => \/ d.tx > 0 \/ swallowed
                      \/ \E s \in Threads : pc[s] = "woken"
                      \/ cdc_receiver \in {"data_requests", "notify_all"}
  <2>1. tx_buffer_ \in 0 .. Capacity /\ tx_buffer_ >= tx_buffer_ /\ q \in Seq(CdcUrbs)
    BY CdcTypes, CdcConstants
  <2> HIDE DEF q, CdcInv
  <2> QED
    BY <2>1, DrainNotify
<1> HIDE DEF d
<1>5. /\ spc' \in [Threads -> Positions] /\ \A s \in Threads \ {t} : spc'[s] = pc[s]
      /\ \/ spc'[t] = "space" /\ left[t] > 0 /\ cdc_receiver' = cdc_receiver
         \/ spc'[t] = "idle" /\ IF t = Receiver THEN cdc_receiver' = "up"
                                ELSE cdc_receiver' = cdc_receiver
  BY <1>2, <1>4 DEF Positions, returned
<1>6. /\ bulk_requests' \in [Bulk -> Seq(CdcUrbs)]
      /\ waiting(bulk_requests') = {} <=> d.queue = <<>>
  BY <1>1, <1>3, Delivered
<1>7. waiting(bulk_requests') # {} => waiting(bulk_requests) # {}
  BY <1>3, <1>6, OneQueue DEF CdcTypeOK
<1>8. CdcTypeOK'
  BY <1>1, <1>3, <1>5, <1>6 DEF CdcTypeOK, Positions
<1>9. t = Receiver => cdc_receiver = "echo"
  BY <1>1 DEF CdcLinkInv
<1>10. CdcLinkInv'
  <2>1. pc[Receiver] # "idle" <=> spc[Receiver] # "idle"
    BY <1>4, CdcConstants DEF Roused
  <2>2. spc'[Receiver] # "idle" <=> cdc_receiver' = "echo"
    BY <1>1, <1>5, <1>9, <2>1, CdcConstants DEF CdcLinkInv
  <2>3. cdc_receiver' = cdc_receiver \/ (cdc_receiver = "echo" /\ cdc_receiver' = "up")
    BY <1>5, <1>9
  <2> QED
    BY <1>1, <1>7, <2>2, <2>3, LinkKept
<1>11. CdcFlowInv'
  <2>1. \A s \in Threads : spc'[s] \in {"space", "wait", "woken"} => left'[s] > 0
    BY <1>1, <1>4, <1>5 DEF CdcFlowInv, Roused
  <2>2. \A s \in Threads : spc'[s] = "wait" => pc[s] = "wait" /\ spc[s] = "wait"
    BY <1>4, <1>5 DEF Roused
  <2>3. Waits(spc') => cdc_receiver' \notin {"data_detach", "none"}
    BY <1>5, <1>9, <2>2 DEF CdcFlowInv, Waits
  <2>4. CdcBytesFlow'
    BY <1>1, <1>3, <1>6, CdcConstants DEF CdcFlowInv, CdcBytesFlow
  <2>5. \A s \in Threads : pc[s] = "woken" => spc'[s] = "woken"
    BY <1>1, <1>4, <1>5 DEF Roused
  <2>6. CdcNoStrandedSender'
    BY <1>1, <1>4, <1>5, <1>9, <2>2, <2>5 DEF CdcNoStrandedSender, Waits
  <2> QED
    BY <2>1, <2>3, <2>4, <2>6 DEF CdcFlowInv, Waits
<1> QED
  BY <1>8, <1>10, <1>11

\* A step in which no thread moves but those that are roused, and the receiver
\* stays where it is: after draining tx bytes for the requests q.
LEMMA CdcDrain ==
  ASSUME CdcInv, NEW tx \in 0 .. Capacity, tx >= tx_buffer_, NEW q \in Seq(CdcUrbs),
         bulk_requests' = [ep \in Bulk |-> Drain(tx, q).queue],
         tx_buffer_' = Drain(tx, q).tx,
         spc' \in notify(Cardinality(Drain(tx, q).answered), spc),
         q # <<>> => waiting(bulk_requests) # {} \/ cdc_receiver = "up",
         UNCHANGED <<notice_requests, cdc_receiver, cdc_session, disconnected_, swallowed,
                     pending_notification_, left>>
  PROVE  CdcInv'
<1> DEFINE d == Drain(tx, q)
<1>1. /\ d.tx \in 0 .. Capacity /\ d.queue \in Seq(CdcUrbs) /\ (d.tx = 0 \/ d.queue = <<>>)
      /\ q = <<>> => d.queue = <<>>
  BY DrainIs
<1>2. /\ spc' \in [Threads -> Positions] /\ Roused(spc, spc')
      /\ Waits(spc') => \/ d.tx > 0 \/ swallowed
                        \/ \E s \in Threads : spc'[s] = "woken"
                        \/ cdc_receiver \in {"data_requests", "notify_all"}
  BY DrainNotify
<1>3. /\ bulk_requests' = [ep \in Bulk |-> d.queue] /\ tx_buffer_' = d.tx
  OBVIOUS
<1> HIDE DEF d
<1> USE DEF CdcInv
<1>4. /\ bulk_requests' \in [Bulk -> Seq(CdcUrbs)]
      /\ waiting(bulk_requests') = {} <=> d.queue = <<>>
  BY <1>1, <1>3, Delivered
<1>5. CdcTypeOK'
  BY <1>1, <1>2, <1>3, <1>4 DEF CdcTypeOK, Positions
<1>6. spc'[Receiver] # "idle" <=> spc[Receiver] # "idle"
  BY <1>2, CdcConstants DEF Roused
<1>7. waiting(bulk_requests') # {} => waiting(bulk_requests) # {} \/ cdc_receiver = "up"
  BY <1>1, <1>4
<1>8. CdcLinkInv'
  BY <1>6, <1>7 DEF CdcLinkInv, CdcBusy
<1>9. CdcFlowInv'
  <2>1. \A s \in Threads : spc'[s] \in {"space", "wait", "woken"} => left'[s] > 0
    BY <1>2 DEF CdcFlowInv, Roused
  <2>2. \A s \in Threads : spc'[s] = "wait" => spc[s] = "wait"
    BY <1>2 DEF Roused
  <2>3. CdcBytesFlow'
    BY <1>1, <1>3, <1>4, CdcConstants DEF CdcFlowInv, CdcBytesFlow
  <2>4. CdcNoStrandedSender'
    BY <1>2, <1>3 DEF CdcNoStrandedSender, Waits
  <2> QED
    BY <2>1, <2>2, <2>3, <2>4 DEF CdcFlowInv
<1> QED
  BY <1>5, <1>8, <1>9

\* RingBuffer::write takes what fits and loses nothing that was there.
LEMMA WriteIs ==
  ASSUME NEW tx \in 0 .. Capacity, NEW n \in Nat
  PROVE  cdc_write(tx, n) \in 0 .. Capacity /\ cdc_write(tx, n) >= tx
  BY CdcConstants DEF cdc_write, available, Least

\* send_data from any thread, connected or not.
LEMMA CdcSendData ==
  ASSUME CdcInv, send_data PROVE CdcInv'
<1> DEFINE tx == cdc_write(tx_buffer_, 1)
           q == bulk_requests["in1"]
<1>1. tx \in 0 .. Capacity /\ tx >= tx_buffer_ /\ q \in Seq(CdcUrbs)
  BY CdcTypes, WriteIs
<1>2. q # <<>> => waiting(bulk_requests) # {}
  BY OneQueue DEF CdcInv, CdcTypeOK
<1>3. /\ bulk_requests' = [ep \in Bulk |-> Drain(tx, q).queue]
      /\ tx_buffer_' = Drain(tx, q).tx
      /\ spc' \in notify(Cardinality(Drain(tx, q).answered), spc)
      /\ UNCHANGED <<notice_requests, cdc_receiver, cdc_session, disconnected_, swallowed,
                     pending_notification_, left>>
  BY DEF send_data, deliver, cdcLink, cdcReceiver
<1> HIDE DEF tx, q
<1> QED
  BY <1>1, <1>2, <1>3, CdcDrain

\* A bulk IN request behind bytes or requests: it is queued and the queue drained.
LEMMA CdcBulkInQueue ==
  ASSUME CdcInv, NEW u \in CdcUrbs, cdc_bulk_in_Queue(u) PROVE CdcInv'
<1> DEFINE q == enqueue(bulk_requests, "in1", u)["in1"]
<1>1. tx_buffer_ \in 0 .. Capacity /\ tx_buffer_ >= tx_buffer_ /\ q \in Seq(CdcUrbs)
  BY CdcTypes DEF enqueue, CdcInv, CdcTypeOK, Bulk
<1>2. cdc_receiver = "up"
  BY DEF cdc_bulk_in_Queue, cdc_submit
<1>3. /\ bulk_requests' = [ep \in Bulk |-> Drain(tx_buffer_, q).queue]
      /\ tx_buffer_' = Drain(tx_buffer_, q).tx
      /\ spc' \in notify(Cardinality(Drain(tx_buffer_, q).answered), spc)
      /\ UNCHANGED <<notice_requests, cdc_receiver, cdc_session, disconnected_, swallowed,
                     pending_notification_, left>>
  BY DEF cdc_bulk_in_Queue, cdc_submit, deliver, cdcLink, cdcReceiver, cdcCall
<1> HIDE DEF q
<1> QED
  BY <1>1, <1>2, <1>3, CdcDrain

\* Threads and the parts of the connection stay as they are, bytes too, unless
\* some come that no request waits for.
LEMMA CdcCalm ==
  ASSUME CdcInv, UNCHANGED <<spc, left, swallowed, cdc_session, disconnected_>>,
         tx_buffer_' \in 0 .. Capacity,
         tx_buffer_' = tx_buffer_ \/ (tx_buffer_' >= tx_buffer_ /\ waiting(bulk_requests') = {}),
         \/ cdc_receiver' = cdc_receiver
         \/ {cdc_receiver, cdc_receiver'} = {"up", "unlink"},
         bulk_requests' \in [Bulk -> Seq(CdcUrbs)],
         notice_requests' \in [Notice -> Seq(CdcUrbs)],
         waiting(bulk_requests') # {} => waiting(bulk_requests) # {}
                                         \/ (cdc_receiver = "up" /\ tx_buffer_ = 0),
         waiting(notice_requests') # {} => cdc_receiver' \in CdcBusy,
         pending_notification_' => waiting(notice_requests') = {}
  PROVE  CdcInv'
<1> USE DEF CdcInv
<1>1. CdcTypeOK'
  BY DEF CdcTypeOK
<1>2. CdcLinkInv'
  BY DEF CdcLinkInv, CdcBusy, CdcDown
<1>3. tx_buffer_ \in Nat /\ tx_buffer_' \in Nat
  BY CdcTypes, CdcConstants
<1>4. CdcFlowInv'
  <2>1. CdcBytesFlow'
    BY <1>3 DEF CdcFlowInv, CdcBytesFlow
  <2>2. CdcNoStrandedSender'
    <3>1. tx_buffer_ > 0 => tx_buffer_' > 0
      BY <1>3
    <3>2. cdc_receiver \in {"data_requests", "notify_all"} => cdc_receiver' = cdc_receiver
      OBVIOUS
    <3> QED
      BY <3>1, <3>2 DEF CdcFlowInv, CdcNoStrandedSender
  <2> QED
    BY <2>1, <2>2 DEF CdcFlowInv
<1> QED
  BY <1>1, <1>2, <1>4

\* enqueue keeps the type of the queues.
LEMMA Enqueues ==
  ASSUME NEW U, NEW E, NEW queues \in [E -> Seq(U)], NEW ep \in E, NEW u \in U
  PROVE  enqueue(queues, ep, u) \in [E -> Seq(U)]
  BY DEF enqueue

\* dequeue_any keeps the type of the queues.
LEMMA Dequeues ==
  ASSUME NEW U, NEW E, NEW queues \in [E -> Seq(U)], NEW ep \in E, queues[ep] # <<>>
  PROVE  dequeue_any(queues, ep) \in [E -> Seq(U)]
  BY DEF dequeue_any

\* A bulk IN request that finds nothing before it: on_data_requested answers it or it waits.
LEMMA CdcBulkInFresh ==
  ASSUME CdcInv, NEW u \in CdcUrbs, cdc_bulk_in_Fresh(u) PROVE CdcInv'
<1> USE DEF CdcInv, cdc_bulk_in_Fresh, cdc_submit, cdcLink, cdcReceiver, cdcCall
<1>1. /\ cdc_receiver = "up" /\ tx_buffer_ = 0 /\ bulk_requests["in1"] = <<>>
      /\ bulk_requests \in [Bulk -> Seq(CdcUrbs)] /\ notice_requests \in [Notice -> Seq(CdcUrbs)]
      /\ UNCHANGED <<spc, left, swallowed, cdc_session, disconnected_, notice_requests,
                     cdc_receiver, pending_notification_>>
  BY DEF empty, CdcTypeOK
<1>2. /\ waiting(notice_requests') # {} => cdc_receiver' \in CdcBusy
      /\ pending_notification_' => waiting(notice_requests') = {}
  BY <1>1 DEF CdcFlowInv, CdcBytesFlow, CdcBusy
<1>3. PICK n \in 0 .. RequestLength + 1 :
        IF n = 0
        THEN bulk_requests' = enqueue(bulk_requests, "in1", u) /\ UNCHANGED tx_buffer_
        ELSE /\ UNCHANGED bulk_requests
             /\ tx_buffer_' = IF n <= RequestLength THEN tx_buffer_
                              ELSE cdc_write(tx_buffer_, n - RequestLength)
  OBVIOUS
<1>4. tx_buffer_ \in 0 .. Capacity
  BY CdcTypes
<1>5. CASE n = 0
  <2>1. bulk_requests' \in [Bulk -> Seq(CdcUrbs)] /\ tx_buffer_' = tx_buffer_
    <3>1. "in1" \in Bulk
      BY DEF Bulk
    <3> QED
      BY <1>1, <1>3, <1>5, <3>1, Enqueues
  <2> HIDE DEF CdcInv
  <2> QED
    BY <1>1, <1>2, <1>4, <2>1, CdcCalm
<1>6. CASE n # 0
  <2>1. tx_buffer_' \in 0 .. Capacity /\ tx_buffer_' >= tx_buffer_
    <3>1. CASE n <= RequestLength
      BY <1>3, <1>4, <1>6, <3>1, CdcConstants
    <3>2. CASE ~(n <= RequestLength)
      <4>1. n - RequestLength \in Nat
        BY <3>2, CdcConstants
      <4> QED
        BY <1>3, <1>4, <1>6, <3>2, <4>1, WriteIs
    <3> QED
      BY <3>1, <3>2
  <2>2. bulk_requests' = bulk_requests /\ waiting(bulk_requests') = {}
    BY <1>1, <1>3, <1>6, OneQueue
  <2> HIDE DEF CdcInv
  <2> QED
    BY <1>1, <1>2, <2>1, <2>2, CdcCalm
<1> QED
  BY <1>5, <1>6

\* The requests of neither interface grow.
LEMMA CdcAtOnce ==
  ASSUME CdcInv, NEW u \in CdcUrbs, cdc_answered_at_once(u) PROVE CdcInv'
<1>1. /\ UNCHANGED <<spc, left, swallowed, cdc_session, disconnected_, tx_buffer_, cdc_receiver,
                     bulk_requests, notice_requests, pending_notification_>>
  BY DEF cdc_answered_at_once, cdc_submit, cdcRequests, cdcLink, cdcReceiver, cdcCall
<1> QED
  BY <1>1 DEF CdcInv, CdcTypeOK, CdcLinkInv, CdcFlowInv, CdcBytesFlow, CdcNoStrandedSender

\* A bulk OUT request whose data the receiver sends back, blocking like any sender.
LEMMA CdcEcho ==
  ASSUME CdcInv, NEW u \in CdcUrbs, cdc_bulk_out_Echo(u) PROVE CdcInv'
<1> USE DEF CdcInv, cdc_bulk_out_Echo, cdc_submit, cdcRequests, cdcLink
<1>1. /\ spc' = [spc EXCEPT ![Receiver] = "space"] /\ left' = [left EXCEPT ![Receiver] = MessageLength]
      /\ cdc_receiver = "up" /\ cdc_receiver' = "echo" /\ spc[Receiver] = "idle"
      /\ UNCHANGED <<swallowed, cdc_session, disconnected_, tx_buffer_, bulk_requests,
                     notice_requests, pending_notification_>>
  BY DEF CdcLinkInv
<1>2. /\ spc' \in [Threads -> Positions] /\ left' \in [Threads -> 0 .. MessageLength]
      /\ spc'[Receiver] = "space" /\ left'[Receiver] > 0
      /\ \A s \in Threads \ {Receiver} : spc'[s] = spc[s] /\ left'[s] = left[s]
  BY <1>1, CdcConstants, CdcTypes DEF Positions
<1>3. CdcTypeOK'
  BY <1>1, <1>2 DEF CdcTypeOK, Positions
<1>4. CdcLinkInv'
  BY <1>1, <1>2 DEF CdcLinkInv, CdcBusy, CdcDown
<1>5. CdcFlowInv'
  <2>1. \A s \in Threads : spc'[s] \in {"space", "wait", "woken"} => left'[s] > 0
    BY <1>2 DEF CdcFlowInv
  <2>2. \A s \in Threads : spc'[s] = "wait" => spc[s] = "wait"
    BY <1>2
  <2>3. \A s \in Threads : /\ spc[s] = "send" => spc'[s] = "send"
                           /\ spc[s] = "woken" => spc'[s] = "woken"
    BY <1>1, <1>2
  <2>4. CdcBytesFlow' /\ CdcNoStrandedSender'
    BY <1>1, <2>2, <2>3 DEF CdcFlowInv, CdcBytesFlow, CdcNoStrandedSender
  <2> QED
    BY <1>1, <2>1, <2>4 DEF CdcFlowInv
<1> QED
  BY <1>3, <1>4, <1>5

\* An interrupt IN request takes the notification that is pending, or waits.
LEMMA CdcInterruptIn ==
  ASSUME CdcInv, NEW u \in CdcUrbs, cdc_interrupt_in(u) PROVE CdcInv'
<1>1. /\ UNCHANGED <<spc, left, swallowed, cdc_session, disconnected_, tx_buffer_, cdc_receiver,
                     bulk_requests>>
      /\ cdc_receiver = "up"
      /\ bulk_requests \in [Bulk -> Seq(CdcUrbs)] /\ notice_requests \in [Notice -> Seq(CdcUrbs)]
      /\ pending_notification_ => waiting(notice_requests) = {}
      /\ cdc_receiver' \in CdcBusy /\ tx_buffer_' \in 0 .. Capacity
  BY CdcTypes DEF cdc_interrupt_in, cdc_submit, cdcLink, cdcReceiver, cdcCall, CdcInv, CdcTypeOK,
     CdcFlowInv, CdcBytesFlow, CdcBusy
<1>2. /\ notice_requests' \in [Notice -> Seq(CdcUrbs)]
      /\ pending_notification_' => waiting(notice_requests') = {}
  <2>1. CASE pending_notification_ /\ empty(notice_requests, "in3")
    BY <1>1, <2>1 DEF cdc_interrupt_in
  <2>2. CASE ~(pending_notification_ /\ empty(notice_requests, "in3"))
    <3>1. ~pending_notification_
      BY <1>1, <2>2, OneQueue DEF empty
    <3> QED
      <4>1. notice_requests' = enqueue(notice_requests, "in3", u) /\ ~pending_notification_'
        BY <2>2, <3>1 DEF cdc_interrupt_in
      <4>2. "in3" \in Notice
        BY DEF Notice
      <4> QED
        BY <1>1, <4>1, <4>2, Enqueues
  <2> QED
    BY <2>1, <2>2
<1> QED
  BY <1>1, <1>2, CdcCalm

\* A notification answers a request that waits, or becomes the pending one.
LEMMA CdcSerialState ==
  ASSUME CdcInv, send_serial_state_notification PROVE CdcInv'
<1>1. /\ UNCHANGED <<spc, left, swallowed, cdc_session, disconnected_, tx_buffer_, cdc_receiver,
                     bulk_requests>>
      /\ bulk_requests \in [Bulk -> Seq(CdcUrbs)] /\ notice_requests \in [Notice -> Seq(CdcUrbs)]
      /\ waiting(notice_requests) # {} => cdc_receiver \in CdcBusy
      /\ tx_buffer_' \in 0 .. Capacity
  BY CdcTypes DEF send_serial_state_notification, cdcLink, cdcReceiver, CdcInv, CdcTypeOK,
     CdcLinkInv
<1>2. /\ notice_requests' \in [Notice -> Seq(CdcUrbs)]
      /\ pending_notification_' => waiting(notice_requests') = {}
      /\ waiting(notice_requests') # {} => waiting(notice_requests) # {}
  <2>1. CASE empty(notice_requests, "in3")
    BY <1>1, <2>1, OneQueue DEF send_serial_state_notification, empty
  <2>2. CASE ~empty(notice_requests, "in3")
    BY <1>1, <2>2, OneQueue, Dequeues DEF send_serial_state_notification, empty, Notice
  <2> QED
    BY <2>1, <2>2
<1> QED
  BY <1>1, <1>2, CdcCalm

\* CMD_UNLINK, at the communication interface and then at the data interface.
LEMMA CdcUnlink ==
  ASSUME CdcInv, cdc_handle_unlink_Data \/ \E u \in CdcUrbs : cdc_handle_unlink_Comm(u)
  PROVE  CdcInv'
<1>1. /\ bulk_requests \in [Bulk -> Seq(CdcUrbs)] /\ notice_requests \in [Notice -> Seq(CdcUrbs)]
      /\ pending_notification_ => waiting(notice_requests) = {}
      /\ tx_buffer_ \in 0 .. Capacity
  BY CdcTypes DEF CdcInv, CdcTypeOK, CdcFlowInv, CdcBytesFlow
<1>2. CASE cdc_handle_unlink_Data
  <2>1. /\ UNCHANGED <<spc, left, swallowed, cdc_session, disconnected_, tx_buffer_,
                       notice_requests, pending_notification_>>
        /\ {cdc_receiver, cdc_receiver'} = {"up", "unlink"} /\ cdc_receiver' \in CdcBusy
        /\ bulk_requests' = cancel_by_seqnum(bulk_requests, cdc_current[1])
    BY <1>2 DEF cdc_handle_unlink_Data, cdcLink, cdcCall, CdcBusy
  <2>2. bulk_requests' \in [Bulk -> Seq(CdcUrbs)]
        /\ (waiting(bulk_requests') # {} => waiting(bulk_requests) # {})
    BY <1>1, <2>1, CancelShrinks
  <2> QED
    BY <1>1, <2>1, <2>2, CdcCalm
<1>3. ASSUME NEW u \in CdcUrbs, cdc_handle_unlink_Comm(u) PROVE CdcInv'
  <2>1. /\ UNCHANGED <<spc, left, swallowed, cdc_session, disconnected_, tx_buffer_,
                       bulk_requests, pending_notification_>>
        /\ {cdc_receiver, cdc_receiver'} = {"up", "unlink"} /\ cdc_receiver' \in CdcBusy
        /\ notice_requests' = cancel_by_seqnum(notice_requests, u)
    BY <1>3 DEF cdc_handle_unlink_Comm, cdcLink, cdcCall, CdcBusy
  <2>2. notice_requests' \in [Notice -> Seq(CdcUrbs)]
        /\ (waiting(notice_requests') # {} => waiting(notice_requests) # {})
    BY <1>1, <2>1, CancelShrinks
  <2> QED
    BY <1>1, <2>1, <2>2, CdcCalm
<1> QED
  BY <1>2, <1>3

\* on_new_connection of both interfaces.
LEMMA CdcConnect ==
  ASSUME CdcInv, cdc_on_new_connection PROVE CdcInv'
<1> USE DEF CdcInv, cdc_on_new_connection, cdcRequests, cdcCall
<1>1. CdcTypeOK'
  BY DEF CdcTypeOK
<1>2. CdcLinkInv'
  BY DEF CdcLinkInv, CdcBusy, CdcDown
<1>3. CdcFlowInv'
  BY DEF CdcFlowInv, CdcBytesFlow, CdcNoStrandedSender
<1> QED
  BY <1>1, <1>2, <1>3

\* on_disconnection, step by step: from disconnected_ to notify_all nobody is forgotten.
LEMMA CdcDisconnect ==
  ASSUME CdcInv, cdc_on_disconnection_Notification \/ cdcDisconnect PROVE CdcInv'
<1> USE DEF CdcInv, disconnecting, cdcRequests, cdcCall
<1>1. CASE cdc_on_disconnection_Notification
  <2> USE <1>1 DEF cdc_on_disconnection_Notification
  <2>1. CdcTypeOK'
    BY DEF CdcTypeOK
  <2>2. CdcLinkInv'
    BY DEF CdcLinkInv, CdcBusy, CdcDown
  <2>3. CdcFlowInv'
    BY DEF CdcFlowInv, CdcBytesFlow, CdcNoStrandedSender
  <2> QED
    BY <2>1, <2>2, <2>3
<1>2. CASE cdc_on_disconnection_CommRequests
  <2> USE <1>2 DEF cdc_on_disconnection_CommRequests
  <2>1. notice_requests' \in [Notice -> Seq(CdcUrbs)] /\ waiting(notice_requests') = {}
    BY NothingWaits
  <2>2. CdcTypeOK'
    BY <2>1 DEF CdcTypeOK
  <2>3. CdcLinkInv'
    BY <2>1 DEF CdcLinkInv, CdcBusy, CdcDown
  <2>4. CdcFlowInv'
    BY <2>1 DEF CdcFlowInv, CdcBytesFlow, CdcNoStrandedSender
  <2> QED
    BY <2>2, <2>3, <2>4
<1>3. CASE cdc_on_disconnection_CommDetach
  <2> USE <1>3 DEF cdc_on_disconnection_CommDetach
  <2>1. CdcTypeOK'
    BY DEF CdcTypeOK
  <2>2. CdcLinkInv'
    BY DEF CdcLinkInv, CdcBusy, CdcDown
  <2>3. CdcFlowInv'
    BY DEF CdcFlowInv, CdcBytesFlow, CdcNoStrandedSender
  <2> QED
    BY <2>1, <2>2, <2>3
<1>4. CASE cdc_on_disconnection_Tx
  <2> USE <1>4 DEF cdc_on_disconnection_Tx
  <2>1. tx_buffer_' = 0 /\ tx_buffer_' \in 0 .. Capacity
    BY CdcConstants
  <2>2. CdcTypeOK'
    BY <2>1 DEF CdcTypeOK
  <2>3. CdcLinkInv'
    BY DEF CdcLinkInv, CdcBusy, CdcDown
  <2>4. CdcFlowInv'
    BY <2>1 DEF CdcFlowInv, CdcBytesFlow, CdcNoStrandedSender
  <2> QED
    BY <2>2, <2>3, <2>4
<1>5. CASE cdc_on_disconnection_DataRequests
  <2> USE <1>5 DEF cdc_on_disconnection_DataRequests
  <2>1. bulk_requests' \in [Bulk -> Seq(CdcUrbs)] /\ waiting(bulk_requests') = {}
    BY NothingWaits
  <2>2. CdcTypeOK'
    BY <2>1 DEF CdcTypeOK
  <2>3. CdcLinkInv'
    BY <2>1 DEF CdcLinkInv, CdcBusy, CdcDown
  <2>4. CdcFlowInv'
    BY <2>1 DEF CdcFlowInv, CdcBytesFlow, CdcNoStrandedSender
  <2> QED
    BY <2>2, <2>3, <2>4
<1>6. CASE cdc_on_disconnection_NotifyAll
  <2> USE <1>6 DEF cdc_on_disconnection_NotifyAll
  <2>1. Cardinality(Threads) \in Nat /\ Cardinality(Threads) >= Cardinality(Threads)
    BY CdcConstants, FS_CardinalityType
  <2>2. spc' \in [Threads -> Positions] /\ Roused(spc, spc') /\ ~Waits(spc')
    BY <2>1, NotifyIs, CdcTypes
  <2>3. CdcTypeOK'
    BY <2>2 DEF CdcTypeOK, Positions
  <2>4. CdcLinkInv'
    BY <2>2, CdcConstants DEF CdcLinkInv, CdcBusy, CdcDown, Roused
  <2>5. CdcFlowInv'
    <3>1. \A s \in Threads : spc'[s] \in {"space", "wait", "woken"} => left'[s] > 0
      BY <2>2 DEF CdcFlowInv, Roused
    <3>2. CdcBytesFlow'
      BY <2>2 DEF CdcFlowInv, CdcBytesFlow, Roused
    <3> QED
      BY <2>2, <3>1, <3>2 DEF CdcFlowInv, CdcNoStrandedSender, Waits
  <2> QED
    BY <2>3, <2>4, <2>5
<1>7. CASE cdc_on_disconnection_Detach
  <2> USE <1>7 DEF cdc_on_disconnection_Detach
  <2>1. CdcTypeOK'
    BY DEF CdcTypeOK
  <2>2. CdcLinkInv'
    BY DEF CdcLinkInv, CdcBusy, CdcDown
  <2>3. CdcFlowInv'
    BY DEF CdcFlowInv, CdcBytesFlow, CdcNoStrandedSender
  <2> QED
    BY <2>1, <2>2, <2>3
<1> QED
  BY <1>1, <1>2, <1>3, <1>4, <1>5, <1>6, <1>7 DEF cdcDisconnect

\* Nothing is connected, nobody sends: the invariant holds when the handlers are constructed.
LEMMA CdcStart == CdcInit => CdcInv
<1> SUFFICES ASSUME CdcInit PROVE CdcInv
  OBVIOUS
<1> USE DEF CdcInit
<1>1. /\ bulk_requests \in [Bulk -> Seq(CdcUrbs)] /\ waiting(bulk_requests) = {}
      /\ notice_requests \in [Notice -> Seq(CdcUrbs)] /\ waiting(notice_requests) = {}
  BY NothingWaits
<1>2. spc \in [Threads -> Positions] /\ \A t \in Threads : spc[t] = "idle"
  BY DEF Positions
<1>3. left \in [Threads -> 0 .. MessageLength] /\ tx_buffer_ \in 0 .. Capacity
  BY CdcConstants
<1>4. CdcTypeOK
  BY <1>1, <1>2, <1>3 DEF CdcTypeOK, Positions
<1>5. CdcLinkInv
  BY <1>1, <1>2, CdcConstants DEF CdcLinkInv, CdcBusy, CdcDown
<1>6. CdcFlowInv
  BY <1>1, <1>2 DEF CdcFlowInv, CdcBytesFlow, CdcNoStrandedSender
<1> QED
  BY <1>4, <1>5, <1>6 DEF CdcInv

\* Every step of the serial port preserves its invariant.
LEMMA CdcStep ==
  ASSUME CdcInv, CdcNext \/ UNCHANGED cdcVars PROVE CdcInv'
<1>1. CASE UNCHANGED cdcVars
  BY <1>1 DEF cdcVars, cdcRequests, cdcHost, cdcCall, cdcLink, cdcReceiver, CdcInv, CdcTypeOK,
     CdcLinkInv, CdcFlowInv, CdcBytesFlow, CdcNoStrandedSender
<1>2. CASE CdcNext
  BY <1>2, CdcBegin, CdcGone, CdcTimeout, CdcSpace, CdcWoken, CdcSend, CdcSendData,
     CdcSerialState, CdcBulkInFresh, CdcBulkInQueue, CdcEcho, CdcAtOnce, CdcInterruptIn,
     CdcUnlink, CdcConnect, CdcDisconnect DEF CdcNext, cdcThread
<1> QED
  BY <1>1, <1>2

\* A step of any device is a step of the serial port or leaves it alone.
LEMMA CdcProject == Next \/ UNCHANGED <<deviceVars, csVars>> => CdcNext \/ UNCHANGED cdcVars
BY DEF Next, deviceVars

\* The parts of a connection are there as the receiver's position says, and neither bytes,
\* requests nor senders are left behind.
THEOREM CdcInvariant == Spec => []CdcInv
<1>1. Init => CdcInv
  BY CdcStart DEF Init
<1>2. CdcInv /\ [Next]_<<deviceVars, csVars>> => CdcInv'
  BY CdcStep, CdcProject
<1> QED
  BY <1>1, <1>2, PTL DEF Spec

\* Neither the bytes of the serial port nor the threads blocked in send_data_blocking are left
\* waiting for something that has already come (CdcAcmVirtualInterfaceHandler.cpp).
THEOREM CdcMoves == Spec => []CdcKeepsMoving
<1>1. CdcInv => CdcKeepsMoving
  BY DEF CdcInv, CdcFlowInv, CdcKeepsMoving
<1> QED
  BY <1>1, CdcInvariant, PTL

\* A device thread that finds a waiting request finds the session pointer it answers through,
\* in the HID interface and in both interfaces of the serial port.
THEOREM SessionsOutlive == Spec => []SessionOutlivesRequests
<1>1. HidInv => HidSessionOutlivesRequests
  BY DEF HidInv, HidFlowInv, HidSessionOutlivesRequests
<1>2. CdcInv => CdcSessionOutlivesRequests
  BY DEF CdcInv, CdcLinkInv, CdcBusy, CdcDown, CdcSessionOutlivesRequests
<1>3. HidInv /\ CdcInv => SessionOutlivesRequests
  BY <1>1, <1>2 DEF SessionOutlivesRequests
<1> QED
  BY <1>3, HidInvariant, CdcInvariant, PTL

-----------------------------------------------------------------------------
(* The absolute mouse *)

\* The calls a gesture is made of.
Calls ==
  [call : {"position", "move"}, to : Pixels] \cup [call : {"left"}, to : BOOLEAN]
  \cup [call : {"wheel"}, to : {1}]
MouseStates == [x : 0 .. HID_MAX, left : BOOLEAN, wheel : {0, 1}]
\* The client knows the state of the mouse.
Told ==
  /\ last_report # <<>>
  /\ last_report[1].left = mouse.left /\ last_report[1].x = mouse.x /\ mouse.wheel = 0
MouseInv ==
  /\ MouseTypeOK
  /\ mouse \in MouseStates /\ state_changed_ \in BOOLEAN
  /\ asked \in Int /\ script \in [Callers -> Seq(Calls)]
  /\ hid_to_screen(mouse.x) = Clamp(asked, Width)
  /\ mouse_receiver # "none" /\ ~state_changed_ => Told
  /\ sender \in {"going_to_wait", "waiting"} => ~state_changed_

\* Round(a, b) is a / b rounded to the nearest, halves up.
LEMMA Rounding ==
  ASSUME NEW a \in Nat, NEW b \in Nat \ {0}
  PROVE  /\ Round(a, b) \in Nat
         /\ 2 * b * Round(a, b) <= 2 * a + b
         /\ 2 * a + b < 2 * b * Round(a, b) + 2 * b
<1> DEFINE n == 2 * a + b
           d == 2 * b
<1>1. n \in Nat /\ d \in Nat \ {0}
  OBVIOUS
<1>2. Round(a, b) = n \div d
  BY DEF Round
<1> HIDE DEF n, d
<1>3. n \div d \in Nat /\ d * (n \div d) <= n /\ n < d * (n \div d) + d
  BY <1>1
<1> QED
  BY <1>2, <1>3 DEF n, d

\* On a screen no wider than the HID range no pixel is lost: what is sent for
\* it reads back as the pixel itself.
LEMMA PixelsSurvive ==
  ASSUME Width <= HID_MAX, NEW x \in Int
  PROVE  /\ screen_to_hid(x) \in 0 .. HID_MAX
         /\ hid_to_screen(screen_to_hid(x)) = Clamp(x, Width)
<1> DEFINE p == Clamp(x, Width)
           A == p * HID_MAX
           h == Round(A, Width)
           B == h * Width
<1>1. Width \in Nat \ {0} /\ HID_MAX \in Nat \ {0} /\ p \in 0 .. Width
  BY MouseAssumption DEF Clamp
<1>2. A \in Nat
  BY <1>1
<1>3. h \in Nat /\ 2 * Width * h <= 2 * A + Width /\ 2 * A + Width < 2 * Width * h + 2 * Width
  BY <1>1, <1>2, Rounding
<1>4. B \in Nat /\ 2 * Width * h = 2 * B
  BY <1>1, <1>3
<1>5. h <= HID_MAX
  <2> SUFFICES ASSUME h >= HID_MAX + 1 PROVE FALSE
    BY <1>1, <1>3
  <2>1. B >= (HID_MAX + 1) * Width
    BY <1>1, <1>3
  <2>2. A <= Width * HID_MAX
    BY <1>1
  <2>3. (HID_MAX + 1) * Width = Width * HID_MAX + Width
    BY <1>1
  <2>4. Width * HID_MAX \in Nat
    BY <1>1
  <2> HIDE DEF A, B, h
  <2> QED
    BY <1>1, <1>2, <1>3, <1>4, <2>1, <2>2, <2>3, <2>4
<1>6. screen_to_hid(x) = h /\ h \in 0 .. HID_MAX
  BY <1>1, <1>3, <1>5 DEF screen_to_hid, Clamp
<1> DEFINE r == Round(B, HID_MAX)
<1>7. r \in Nat /\ 2 * HID_MAX * r <= 2 * B + HID_MAX
      /\ 2 * B + HID_MAX < 2 * HID_MAX * r + 2 * HID_MAX
  BY <1>1, <1>4, Rounding
<1> DEFINE C == HID_MAX * r
<1>8. C \in Nat /\ 2 * HID_MAX * r = 2 * C
  BY <1>1, <1>7
<1>9. hid_to_screen(screen_to_hid(x)) = r
  BY <1>6 DEF hid_to_screen
<1>10. /\ r >= p + 1 => C >= A + HID_MAX
       /\ r + 1 <= p => C + HID_MAX <= A
       /\ Width = HID_MAX /\ h >= p + 1 => B >= A + HID_MAX
       /\ Width = HID_MAX /\ h <= p => B <= A
  BY <1>1, <1>3, <1>7
<1>11. r >= p
  <2> HIDE DEF A, B, C, h, r, p
  <2> QED
    BY <1>1, <1>2, <1>3, <1>4, <1>7, <1>8, <1>10
<1>12. r <= p
  <2> HIDE DEF A, B, C, h, r, p
  <2>1. CASE Width = HID_MAX
    BY <1>1, <1>2, <1>3, <1>4, <1>7, <1>8, <1>10, <2>1
  <2>2. CASE Width < HID_MAX
    BY <1>1, <1>2, <1>3, <1>4, <1>7, <1>8, <1>10, <2>2
  <2> QED
    BY <1>1, <2>1, <2>2
<1>13. r = p
  BY <1>1, <1>7, <1>11, <1>12
<1> QED
  BY <1>6, <1>9, <1>13

\* A gesture of the example program is a list of calls of set_state.
LEMMA GesturesAreCalls == Gestures \subseteq Seq(Calls)
<1>1. /\ Press \in Seq(Calls) /\ Release \in Seq(Calls) /\ wheel(1) \in Seq(Calls)
      /\ \A x \in Pixels : At(x) \in Seq(Calls) /\ MoveTo(x) \in Seq(Calls)
  <2>1. /\ [call |-> "left", to |-> TRUE] \in Calls /\ [call |-> "left", to |-> FALSE] \in Calls
        /\ [call |-> "wheel", to |-> 1] \in Calls
        /\ \A x \in Pixels : /\ [call |-> "position", to |-> x] \in Calls
                             /\ [call |-> "move", to |-> x] \in Calls
    BY DEF Calls
  <2>2. \A op \in Calls : <<op>> \in Seq(Calls)
    OBVIOUS
  <2> QED
    BY <2>1, <2>2 DEF Press, Release, wheel, At, MoveTo
<1>2. \A s, t \in Seq(Calls) : s \o t \in Seq(Calls)
  BY ConcatProperties
<1>3. \A x \in Pixels : left_click(x) \in Seq(Calls) /\ double_click(x) \in Seq(Calls)
  BY <1>1, <1>2 DEF left_click, double_click
<1>4. \A a, b \in Pixels : /\ move_raw(a, b) \in Seq(Calls) /\ drag(a, b) \in Seq(Calls)
                           /\ humanized_drag(a, b) \in Seq(Calls)
  BY <1>1, <1>2 DEF move_raw, drag, humanized_move, humanized_drag
<1> QED
  BY <1>1, <1>3, <1>4 DEF Gestures

\* The mouse at rest shows the state it was created with.
LEMMA MouseStart == MouseInit => MouseInv
<1> SUFFICES ASSUME MouseInit PROVE MouseInv
  OBVIOUS
<1> USE DEF MouseInit
<1>1. Width \in Nat \ {0} /\ HID_MAX \in Nat \ {0}
  BY MouseAssumption
<1>2. mouse \in MouseStates /\ mouse.x = 0
  BY <1>1 DEF MouseStates
<1>3. MouseTypeOK
  BY <1>1 DEF MouseTypeOK
<1>4. script \in [Callers -> Seq(Calls)]
  OBVIOUS
<1>5. hid_to_screen(0) = 0
  <2>1. Round(0, HID_MAX) = 0
    BY <1>1 DEF Round
  <2>2. 0 * Width = 0
    BY <1>1
  <2> QED
    BY <2>1, <2>2 DEF hid_to_screen
<1>6. hid_to_screen(mouse.x) = Clamp(asked, Width)
  BY <1>1, <1>2, <1>5 DEF Clamp
<1> QED
  <2>1. asked \in Int
    BY <1>2
  <2>2. state_changed_ = FALSE /\ mouse_receiver = "none" /\ sender = "none"
    OBVIOUS
  <2> QED
    BY <1>2, <1>3, <1>4, <1>6, <2>1, <2>2 DEF MouseInv

\* A caller starts a gesture: nothing of the mouse changes.
LEMMA MouseGesture ==
  ASSUME MouseInv, NEW c \in Callers, Gesture(c) PROVE MouseInv'
<1>1. script' \in [Callers -> Seq(Calls)]
  BY GesturesAreCalls DEF MouseInv, Gesture
<1> QED
  BY <1>1 DEF MouseInv, MouseTypeOK, Gesture, Told

\* A caller gives up a move it has begun: the mouse stays where the last call put it.
LEMMA MouseAbandons ==
  ASSUME MouseInv, NEW c \in Callers, move_Abandoned(c) PROVE MouseInv'
<1>1. script' \in [Callers -> Seq(Calls)]
  <2>1. PICK n \in 1 .. Len(script[c]) :
          script' = [script EXCEPT ![c] = SubSeq(script[c], n + 1, Len(script[c]))]
    BY DEF move_Abandoned
  <2>2. script[c] \in Seq(Calls)
    BY DEF MouseInv
  <2>3. SubSeq(script[c], n + 1, Len(script[c])) \in Seq(Calls)
    BY <2>2, SubSeqProperties
  <2> QED
    BY <2>1, <2>3 DEF MouseInv
<1> QED
  BY <1>1 DEF MouseInv, MouseTypeOK, move_Abandoned, Told

\* A call under state_mutex_ changes the state and marks it as changed, or leaves both.
LEMMA MouseCall ==
  ASSUME Width <= HID_MAX, MouseInv, NEW c \in Callers, set_state(c) PROVE MouseInv'
<1> DEFINE op == Head(script[c])
<1>1. /\ script[c] \in Seq(Calls) /\ script[c] # <<>> /\ op \in Calls
      /\ Tail(script[c]) \in Seq(Calls)
  BY TailIs DEF MouseInv, set_state
<1>2. script' \in [Callers -> Seq(Calls)]
  BY <1>1 DEF MouseInv, set_state
<1>3. /\ mouse' = Called(op) /\ asked' = (IF op.call \in {"position", "move"} THEN op.to ELSE asked)
      /\ state_changed_' = TRUE /\ sender' = Woken(sender)
      /\ UNCHANGED <<mouse_receiver, should_stop_, last_report, gestures, mouse_connections>>
  BY DEF set_state
<1> HIDE DEF op
<1>7. /\ sender' \in {"none", "lock", "check", "waiting", "sending", "exited"}
      /\ sender' \notin {"going_to_wait", "waiting"}
  BY <1>3 DEF set_state, MutexFree, MouseInv, MouseTypeOK, Woken
<1>8. ASSUME mouse' \in MouseStates, asked' \in Int, hid_to_screen(mouse'.x) = Clamp(asked', Width)
      PROVE  MouseInv'
  <2>1. MouseTypeOK'
    BY <1>7, <1>8 DEF MouseTypeOK, MouseStates
  <2>2. state_changed_' \in BOOLEAN
    BY <1>3
  <2> QED
    BY <1>2, <1>3, <1>7, <1>8, <2>1, <2>2 DEF MouseInv
<1>4. CASE op.call \in {"position", "move"}
  <2>1. op.to \in Int /\ mouse' = [mouse EXCEPT !.x = screen_to_hid(op.to)] /\ asked' = op.to
    BY <1>1, <1>3, <1>4, MouseAssumption DEF Calls, Called
  <2>2. /\ screen_to_hid(op.to) \in 0 .. HID_MAX
        /\ hid_to_screen(screen_to_hid(op.to)) = Clamp(op.to, Width)
    BY <2>1, PixelsSurvive
  <2>3. mouse' \in MouseStates /\ mouse'.x = screen_to_hid(op.to)
    BY <2>1, <2>2 DEF MouseInv, MouseStates
  <2> QED
    BY <1>8, <2>1, <2>2, <2>3
<1>5. CASE op.call = "left"
  <2>1. op.to \in BOOLEAN /\ mouse' = [mouse EXCEPT !.left = op.to] /\ asked' = asked
    BY <1>1, <1>3, <1>5 DEF Calls, Called
  <2>2. mouse' \in MouseStates /\ mouse'.x = mouse.x
    BY <2>1 DEF MouseInv, MouseStates
  <2> QED
    BY <1>8, <2>1, <2>2 DEF MouseInv
<1>6. CASE op.call = "wheel"
  <2>1. op.to = 1 /\ mouse' = [mouse EXCEPT !.wheel = 1] /\ asked' = asked
    BY <1>1, <1>3, <1>6 DEF Calls, Called
  <2>2. mouse' \in MouseStates /\ mouse'.x = mouse.x
    BY <2>1 DEF MouseInv, MouseStates
  <2> QED
    BY <1>8, <2>1, <2>2 DEF MouseInv
<1> QED
  BY <1>1, <1>4, <1>5, <1>6 DEF Calls

\* The sending thread takes the state it sends and the mark in one critical section.
LEMMA MouseSends ==
  ASSUME MouseInv, send_thread PROVE MouseInv'
<1> USE DEF send_thread_step
<1>1. CASE send_thread_Loop \/ send_thread_Check \/ send_thread_Wait
  BY <1>1 DEF MouseInv, MouseTypeOK, send_thread_Loop, send_thread_Check, send_thread_Wait, Told
<1>2. CASE send_thread_Send
  <2>1. mouse' = [mouse EXCEPT !.wheel = 0] /\ last_report' = <<mouse>> /\ mouse \in MouseStates
    BY <1>2 DEF send_thread_Send, MouseInv
  <2>2. mouse' \in MouseStates /\ mouse'.x = mouse.x /\ mouse'.left = mouse.left /\ mouse'.wheel = 0
    BY <2>1 DEF MouseStates
  <2>3. Told'
    BY <2>1, <2>2, PairIs DEF Told
  <2> QED
    BY <1>2, <2>2, <2>3 DEF MouseInv, MouseTypeOK, MouseStates, send_thread_Send
<1> QED
  BY <1>1, <1>2 DEF send_thread

\* on_new_connection and on_disconnection: a new client is told anew, the thread is joined.
LEMMA MouseConnects ==
  ASSUME MouseInv, \/ mouse_on_new_connection \/ mouse_on_disconnection_Stop
                   \/ mouse_on_disconnection
  PROVE  MouseInv'
<1> USE DEF MouseInv, mouseCaller
<1>1. CASE mouse_on_new_connection
  <2>1. MouseTypeOK' /\ state_changed_' = TRUE /\ state_changed_' \in BOOLEAN
        /\ sender' = "lock"
    BY <1>1 DEF MouseTypeOK, mouse_on_new_connection
  <2> QED
    BY <1>1, <2>1 DEF mouse_on_new_connection
<1>2. CASE mouse_on_disconnection_Stop
  BY <1>2 DEF mouse_on_disconnection_Stop, MouseTypeOK, Told
<1>3. CASE mouse_on_disconnection_Notify
  <2>1. MouseTypeOK' /\ (sender' \in {"going_to_wait", "waiting"} => sender' = sender)
    BY <1>3 DEF mouse_on_disconnection_Notify, MouseTypeOK, Woken
  <2> QED
    BY <1>3, <2>1 DEF mouse_on_disconnection_Notify, Told
<1>4. CASE mouse_on_disconnection_Join
  <2>1. MouseTypeOK' /\ sender' = "none"
    BY <1>4 DEF mouse_on_disconnection_Join, MouseTypeOK
  <2> QED
    BY <1>4, <2>1 DEF mouse_on_disconnection_Join
<1> QED
  BY <1>1, <1>2, <1>3, <1>4 DEF mouse_on_disconnection

\* Every step of the mouse preserves its invariant.
LEMMA MouseStep ==
  ASSUME Width <= HID_MAX, MouseInv, MouseNext \/ UNCHANGED mouseVars PROVE MouseInv'
<1>1. CASE MouseNext
  BY <1>1, MouseGesture, MouseAbandons, MouseCall, MouseSends, MouseConnects DEF MouseNext
<1>2. CASE UNCHANGED mouseVars
  BY <1>2 DEF mouseVars, mouseCaller, MouseInv, MouseTypeOK, Told
<1> QED
  BY <1>1, <1>2

\* A step of any device is a step of the mouse or leaves it alone.
LEMMA MouseProject ==
  ASSUME Next \/ UNCHANGED <<deviceVars, csVars>>
  PROVE  MouseNext \/ UNCHANGED mouseVars
  BY DEF Next, deviceVars

\* On a screen no wider than the HID range (screen_width_ is an unchecked int, 1920 by default,
\* the range 32767) the pixel read back is the one asked for, and once nothing is marked as
\* changed the client has been told the state of the mouse (absolute_mouse example).
THEOREM MouseIsShown ==
  ASSUME Width <= HID_MAX PROVE Spec => []MouseShowsState
<1>1. Init => MouseInv
  BY MouseStart DEF Init
<1>2. MouseInv /\ [Next]_<<deviceVars, csVars>> => MouseInv'
  BY MouseStep, MouseProject
<1>3. MouseInv => MouseShowsState
  BY DEF MouseInv, MouseShowsState, Settled, Told
<1> QED
  BY <1>1, <1>2, <1>3, PTL DEF Spec

\* The send thread goes to its wait, and stays there, with nothing to send: the
\* mutex that callers change the state under is its own up to the wait.
MouseWaitInv == sender \in {"going_to_wait", "waiting"} => ~state_changed_

\* Every step of the mouse preserves it, and lets the send thread oversleep a stop
\* only on the way into its wait.
LEMMA MouseWaitStep ==
  ASSUME MouseWaitInv, MouseNext \/ UNCHANGED mouseVars
  PROVE  /\ MouseWaitInv'
         /\ MouseOverslept' => /\ ~state_changed_'
                               /\ \/ MouseOverslept
                                  \/ send_thread_Wait /\ mouse_receiver = "join"
<1> USE DEF MouseWaitInv, MouseOverslept, mouseCaller
<1>1. CASE UNCHANGED mouseVars
  BY <1>1 DEF mouseVars
<1>2. ASSUME NEW c \in Callers, Gesture(c) \/ set_state(c) \/ move_Abandoned(c)
      PROVE  MouseWaitInv' /\ (MouseOverslept' => ~state_changed_' /\ MouseOverslept)
  BY <1>2 DEF Gesture, set_state, move_Abandoned, MutexFree, Woken
<1>3. CASE send_thread
  BY <1>3 DEF send_thread, send_thread_step, send_thread_Loop, send_thread_Check,
     send_thread_Wait, send_thread_Send
<1>4. CASE \/ mouse_on_new_connection \/ mouse_on_disconnection_Stop
           \/ mouse_on_disconnection
  BY <1>4 DEF mouse_on_new_connection, mouse_on_disconnection_Stop,
     mouse_on_disconnection, mouse_on_disconnection_Notify,
     mouse_on_disconnection_Join, Woken
<1> QED
  BY <1>1, <1>2, <1>3, <1>4 DEF MouseNext

\* Whatever the callers do, the send thread sleeps through no change of state; and
\* through a stop only when it was about to wait as the stop was announced.
THEOREM MouseOversleepsOnlyStop == Spec => ChangeIsNotOverslept
<1> DEFINE Leaves == MouseOverslept' => /\ ~state_changed_'
                                        /\ \/ MouseOverslept
                                           \/ send_thread_Wait /\ mouse_receiver = "join"
<1>1. Init => MouseWaitInv
  BY DEF Init, MouseInit, MouseWaitInv
<1>2. MouseWaitInv /\ [Next]_<<deviceVars, csVars>> => MouseWaitInv'
  BY MouseWaitStep, MouseProject
<1>3. MouseWaitInv /\ [Next]_<<deviceVars, csVars>> => [Leaves]_mouseVars
  BY MouseWaitStep, MouseProject
<1> QED
  BY <1>1, <1>2, <1>3, PTL DEF Spec, ChangeIsNotOverslept

-----------------------------------------------------------------------------
(* The disk *)

Hosts == [phase : {"idle", "out", "in"}, tag : Nat, cmd : {<<>>} \cup {<<c>> : c \in ScsiCommands},
          todo : Seq(Nat), got : Seq(Nat), ok : BOOLEAN]
Disks == [0 .. Units - 1 -> Nat]
Prefix(s, t) == Len(s) <= Len(t) /\ \A i \in 1 .. Len(s) : s[i] = t[i]
Rest(u, s, t) == Len(s) + Len(u) = Len(t) /\ \A i \in 1 .. Len(u) : u[i] = t[Len(s) + i]
ReadData(c) == backend_read(c.lba, BlockCount(c))
\* Where device and host are in a command c; refused, it has changed nothing.
MscIdle ==
  /\ state_ = "Idle" /\ ~command_failed_ /\ ~data_out_unmap_ /\ disk = shadow
  /\ host.cmd # <<>> /\ host.ok /\ host.cmd[1].op = "read" =>
       InRange(host.cmd[1]) /\ host.got = ReadData(host.cmd[1])
MscRefused == state_ = "Status" /\ command_failed_ /\ ~data_out_unmap_ /\ disk = shadow
MscCollects(c) ==
  /\ state_ = "DataOut" /\ ~command_failed_ /\ disk = shadow
  /\ \/ c.op = "write" /\ InRange(c) /\ ~data_out_unmap_
        /\ write_lba_ = c.lba /\ write_count_ = BlockCount(c)
     \/ c.op = "unmap" /\ c.count = 1 /\ data_out_unmap_ /\ write_count_ = 3
  /\ staging_data_ \in Seq(Nat) /\ host.todo # <<>>
  /\ Prefix(staging_data_, DataToSend(c))
  /\ Rest(host.todo, staging_data_, DataToSend(c))
MscGives(c) ==
  /\ state_ = "DataIn" /\ ~command_failed_ /\ ~data_out_unmap_ /\ disk = shadow
  /\ c.op \in {"info", "read"}
  /\ staging_data_ \in Seq(Nat) /\ staging_offset_ = Len(host.got)
  /\ c.op = "read" => InRange(c) /\ staging_data_ = ReadData(c)
  /\ Prefix(host.got, staging_data_)
MscDone(c) ==
  /\ state_ = "Status" /\ ~command_failed_ /\ ~data_out_unmap_
  /\ disk = Effect(c, shadow)
  /\ c.op = "read" => InRange(c) /\ host.got = ReadData(c)
MscGood ==
  /\ disk \in Disks /\ host \in Hosts
  /\ ~msc_session => host.phase = "idle"
  /\ host.phase = "idle" => MscIdle
  /\ host.phase # "idle" => host.cmd # <<>> /\ current_tag = host.tag
  /\ host.phase = "out" => MscRefused \/ MscCollects(host.cmd[1])
  /\ host.phase = "in" => MscRefused \/ MscGives(host.cmd[1]) \/ MscDone(host.cmd[1])
MscInv == torn \/ MscGood

\* The geometry of the image: at least one block of at least one unit.
LEMMA MscConstants ==
  /\ Blocks \in Nat \ {0} /\ BlockSize \in Nat \ {0} /\ Values \subseteq Nat \ {0}
  /\ Units \in Nat \ {0} /\ Units = Blocks * BlockSize
<1>1. Blocks \in Nat \ {0} /\ BlockSize \in Nat \ {0} /\ Values \subseteq Nat \ {0}
  BY MscAssumption
<1> QED
  BY <1>1 DEF Units

\* What a command block can hold; 0 blocks stand for 256.
LEMMA CommandIs ==
  ASSUME NEW c \in ScsiCommands
  PROVE  /\ c.op \in {"no_data", "unsupported", "info", "read", "write", "unmap"}
         /\ c.lba \in Nat /\ c.count \in Nat /\ c.len \in Nat /\ BlockCount(c) \in Nat \ {0}
         /\ c.op = "unmap" => c.count \in {0, 1} /\ c.lba + 1 <= Blocks
<1>1. /\ c.op \in {"no_data", "unsupported", "info", "read", "write", "unmap"}
      /\ c.lba \in Nat /\ c.count \in Nat /\ c.len \in Nat
      /\ c.op = "unmap" => c.count \in {0, 1} /\ c.lba + 1 <= Blocks
  <2>1. CASE c \in [op : {"no_data", "unsupported"}, lba : {0}, count : {0}, len : {0}]
    BY <2>1
  <2>2. CASE c \in [op : {"info"}, lba : {0}, count : {0}, len : 0 .. InfoLength + 1]
    BY <2>2 DEF InfoLength
  <2>3. CASE c \in [op : {"read", "write"}, lba : 0 .. Blocks - 1, count : 0 .. 2, len : Values]
    <3>1. c.op \in {"read", "write"} /\ c.lba \in 0 .. Blocks - 1 /\ c.count \in 0 .. 2 /\ c.len \in Values
      BY <2>3
    <3>2. c.lba \in Nat /\ c.count \in Nat
      BY <3>1, MscConstants
    <3>3. c.len \in Nat
      BY <3>1, MscConstants
    <3> QED
      BY <3>1, <3>2, <3>3
  <2>4. CASE c \in [op : {"unmap"}, lba : 0 .. Blocks - 1, count : {0, 1}, len : {0}]
    BY <2>4, MscConstants
  <2> QED
    BY <2>1, <2>2, <2>3, <2>4 DEF ScsiCommands
<1> QED
  BY <1>1 DEF BlockCount

\* The host sends data for a WRITE, and for an UNMAP that names blocks.
LEMMA DataIs ==
  ASSUME NEW c \in ScsiCommands
  PROVE  /\ DataToSend(c) \in Seq(Nat)
         /\ c.op = "write" => Len(DataToSend(c)) = BlockCount(c) * BlockSize
         /\ c.op = "unmap" /\ c.count = 1 =>
              DataToSend(c) = <<0, c.lba, c.count>> /\ Len(DataToSend(c)) = 3
         /\ c.op = "unmap" /\ c.count = 0 => DataToSend(c) = <<>>
         /\ c.op \notin {"write", "unmap"} => DataToSend(c) = <<>>
<1>1. BlockCount(c) * BlockSize \in Nat /\ c.len \in Nat /\ c.lba \in Nat /\ c.count \in Nat
  BY MscConstants, CommandIs
<1>2. CASE c.op = "write"
  <2> DEFINE n == BlockCount(c) * BlockSize
  <2>1. DataToSend(c) = [i \in 1 .. n |-> c.len]
    BY <1>2 DEF DataToSend
  <2> HIDE DEF n
  <2>2. n \in Nat
    BY <1>1 DEF n
  <2>3. DataToSend(c) \in Seq(Nat) /\ Len(DataToSend(c)) = n
    BY <1>1, <2>1, <2>2
  <2> QED
    BY <1>2, <2>3 DEF n
<1>3. CASE c.op = "unmap" /\ c.count > 0
  <2>1. DataToSend(c) = <<0, c.lba, c.count>>
    BY <1>3 DEF DataToSend
  <2> QED
    BY <1>1, <1>3, <2>1
<1>4. CASE c.op # "write" /\ ~(c.op = "unmap" /\ c.count > 0)
  <2>1. DataToSend(c) = <<>>
    BY <1>4 DEF DataToSend
  <2> QED
    BY <1>1, <1>4, <2>1
<1> QED
  BY <1>2, <1>3, <1>4

\* A READ inside the image stages units of the image.
LEMMA ReadIs ==
  ASSUME NEW c \in ScsiCommands, InRange(c), disk \in Disks
  PROVE  ReadData(c) \in Seq(Nat)
<1> DEFINE n == BlockCount(c) * BlockSize
           first == c.lba * BlockSize
<1>1. n \in Nat /\ first \in Nat /\ first + n <= Units
  <2>1. c.lba \in Nat /\ BlockCount(c) \in Nat /\ c.lba + BlockCount(c) <= Blocks
    BY CommandIs DEF InRange
  <2>2. (c.lba + BlockCount(c)) * BlockSize <= Blocks * BlockSize
    BY <2>1, MscConstants
  <2> QED
    BY <2>1, <2>2, MscConstants
<1>2. ReadData(c) = [i \in 1 .. n |-> disk[first + i - 1]]
  BY DEF ReadData, backend_read
<1> HIDE DEF n, first
<1>3. \A i \in 1 .. n : disk[first + i - 1] \in Nat
  BY <1>1, MscConstants DEF Disks
<1> QED
  BY <1>1, <1>2, <1>3

\* A command that is carried out leaves a disk.
LEMMA EffectIs ==
  ASSUME NEW c \in ScsiCommands, c.op = "write" => InRange(c), NEW d \in Disks
  PROVE  Effect(c, d) \in Disks
<1>1. CASE c.op = "write"
  <2> DEFINE n == BlockCount(c) * BlockSize
             first == c.lba * BlockSize
             data == DataToSend(c)
  <2>1. n \in Nat /\ first \in Nat /\ (c.lba + BlockCount(c)) * BlockSize = first + n
    BY CommandIs, MscConstants
  <2>2. data \in Seq(Nat) /\ Len(data) = n
    BY <1>1, DataIs
  <2>3. Effect(c, d) = [i \in 0 .. Units - 1 |-> IF i \in first .. first + n - 1
                                                 THEN data[i - first + 1] ELSE d[i]]
    BY <1>1, <2>1 DEF Effect, backend_write, Disks
  <2> HIDE DEF n, first, data
  <2>4. \A i \in first .. first + n - 1 : data[i - first + 1] \in Nat
    BY <2>1, <2>2
  <2> QED
    BY <2>3, <2>4 DEF Disks
<1>2. CASE c.op = "unmap" /\ c.count > 0
  <2> DEFINE n == c.count * BlockSize
             first == c.lba * BlockSize
             zeros == [k \in 1 .. n |-> 0]
  <2>1. n \in Nat /\ first \in Nat /\ (c.lba + c.count) * BlockSize = first + n
    BY CommandIs, MscConstants
  <2>2. Effect(c, d) = backend_write(d, c.lba, c.count, zeros)
    BY <1>2 DEF Effect, punch_hole
  <2>3. \A i \in first .. first + n - 1 : zeros[i - first + 1] = 0
    BY <2>1
  <2> HIDE DEF zeros
  <2>4. Effect(c, d) = [i \in 0 .. Units - 1 |-> IF i \in first .. first + n - 1
                                                 THEN zeros[i - first + 1] ELSE d[i]]
    BY <2>1, <2>2 DEF backend_write, Disks
  <2> HIDE DEF n, first
  <2>5. ASSUME NEW i \in 0 .. Units - 1 PROVE Effect(c, d)[i] \in Nat
    BY <2>3, <2>4 DEF Disks
  <2> QED
    BY <2>4, <2>5 DEF Disks
<1>3. CASE c.op # "write" /\ ~(c.op = "unmap" /\ c.count > 0)
  BY <1>3 DEF Effect
<1> QED
  BY <1>1, <1>2, <1>3

\* What a part of a sequence holds, element by element.
LEMMA PartIs ==
  ASSUME NEW u \in Seq(Nat), NEW a \in Nat, NEW b \in Nat, 1 <= a, a <= b + 1, b <= Len(u)
  PROVE  /\ SubSeq(u, a, b) \in Seq(Nat) /\ Len(SubSeq(u, a, b)) = b - a + 1
         /\ \A i \in 1 .. b - a + 1 : SubSeq(u, a, b)[i] = u[a + i - 1]
<1>1. Len(u) \in Nat /\ \A i \in a .. b : u[i] \in Nat
  OBVIOUS
<1>2. /\ SubSeq(u, a, b) \in Seq(Nat)
      /\ Len(SubSeq(u, a, b)) = IF a <= b THEN b - a + 1 ELSE 0
      /\ \A i \in 1 .. b - a + 1 : SubSeq(u, a, b)[i] = u[a + i - 1]
  BY <1>1, SubSeqProperties
<1> QED
  BY <1>2

\* A prefix of t, joined with the elements of t that follow it, is a prefix of t.
LEMMA JoinedIs ==
  ASSUME NEW s \in Seq(Nat), NEW p \in Seq(Nat), NEW t \in Seq(Nat), Prefix(s, t),
         Len(s) + Len(p) <= Len(t), \A i \in 1 .. Len(p) : p[i] = t[Len(s) + i]
  PROVE  /\ s \o p \in Seq(Nat) /\ Len(s \o p) = Len(s) + Len(p)
         /\ Prefix(s \o p, t)
         /\ Len(s) + Len(p) = Len(t) => s \o p = t
<1> DEFINE d == s \o p
<1>1. Len(s) \in Nat /\ Len(p) \in Nat /\ Len(t) \in Nat
  OBVIOUS
<1>2. /\ d \in Seq(Nat) /\ Len(d) = Len(s) + Len(p)
      /\ \A i \in 1 .. Len(s) + Len(p) : d[i] = IF i <= Len(s) THEN s[i] ELSE p[i - Len(s)]
  BY ConcatProperties
<1> HIDE DEF d
<1>3. ASSUME NEW i \in 1 .. Len(d) PROVE d[i] = t[i]
  <2>1. CASE i <= Len(s)
    <3>1. d[i] = s[i] /\ i \in 1 .. Len(s)
      BY <1>1, <1>2, <2>1
    <3> QED
      BY <3>1 DEF Prefix
  <2>2. CASE ~(i <= Len(s))
    <3>1. i - Len(s) \in 1 .. Len(p) /\ d[i] = p[i - Len(s)]
      BY <1>1, <1>2, <2>2
    <3>2. Len(s) + (i - Len(s)) = i
      BY <1>1, <1>2
    <3>3. p[i - Len(s)] = t[Len(s) + (i - Len(s))]
      BY <3>1
    <3> QED
      BY <3>1, <3>2, <3>3
  <2> QED
    BY <2>1, <2>2
<1>4. Prefix(d, t)
  BY <1>1, <1>2, <1>3 DEF Prefix
<1>5. Len(s) + Len(p) = Len(t) => d = t
  BY <1>1, <1>2, <1>3, SeqEqual
<1> QED
  BY <1>2, <1>4, <1>5 DEF d

\* Collecting the next n units of what the host has still to send: what is staged remains a
\* prefix of the data, what is left its rest, and with the last unit the data is whole.
LEMMA DataCollected ==
  ASSUME NEW s \in Seq(Nat), NEW t \in Seq(Nat), NEW u \in Seq(Nat),
         Prefix(s, t), Rest(u, s, t),
         NEW n \in Nat, 1 <= n, n <= Len(u)
  PROVE  LET d == s \o SubSeq(u, 1, n)
             r == SubSeq(u, n + 1, Len(u))
         IN  /\ d \in Seq(Nat) /\ r \in Seq(Nat) /\ Len(d) = Len(s) + n
             /\ Prefix(d, t) /\ Rest(r, d, t)
             /\ n = Len(u) => d = t
             /\ n # Len(u) => r # <<>>
<1> DEFINE p == SubSeq(u, 1, n)
           d == s \o p
           r == SubSeq(u, n + 1, Len(u))
<1>1. Len(s) \in Nat /\ Len(u) \in Nat /\ Len(t) \in Nat /\ Len(s) + Len(u) = Len(t)
  BY DEF Rest
<1>2. p \in Seq(Nat) /\ Len(p) = n /\ \A i \in 1 .. n : p[i] = u[i]
  <2>1. /\ p \in Seq(Nat) /\ Len(p) = n - 1 + 1
        /\ \A i \in 1 .. n - 1 + 1 : p[i] = u[1 + i - 1]
    BY <1>1, PartIs
  <2> QED
    BY <2>1
<1>3. r \in Seq(Nat) /\ Len(r) = Len(u) - n /\ \A i \in 1 .. Len(u) - n : r[i] = u[n + i]
  <2>1. /\ r \in Seq(Nat) /\ Len(r) = Len(u) - (n + 1) + 1
        /\ \A i \in 1 .. Len(u) - (n + 1) + 1 : r[i] = u[(n + 1) + i - 1]
    <3>1. n + 1 \in Nat /\ 1 <= n + 1 /\ n + 1 <= Len(u) + 1 /\ Len(u) <= Len(u)
      BY <1>1
    <3> QED
      BY <1>1, <3>1, PartIs
  <2> HIDE DEF r
  <2>2. Len(u) - (n + 1) + 1 = Len(u) - n
    BY <1>1
  <2>3. ASSUME NEW i \in 1 .. Len(u) - n PROVE r[i] = u[n + i]
    <3>1. r[i] = u[(n + 1) + i - 1]
      BY <2>1, <2>2
    <3>2. (n + 1) + i - 1 = n + i
      BY <1>1
    <3> QED
      BY <3>1, <3>2
  <2> QED
    BY <2>1, <2>2, <2>3
<1> HIDE DEF p, r
<1>4. \A i \in 1 .. Len(p) : p[i] = t[Len(s) + i]
  <2>1. ASSUME NEW i \in 1 .. Len(p) PROVE p[i] = t[Len(s) + i]
    <3>1. i \in 1 .. Len(u) /\ p[i] = u[i]
      BY <1>1, <1>2
    <3> QED
      BY <3>1 DEF Rest
  <2> QED
    BY <2>1
<1>5. Len(s) + Len(p) <= Len(t)
  BY <1>1, <1>2
<1>6. /\ d \in Seq(Nat) /\ Len(d) = Len(s) + Len(p)
      /\ Prefix(d, t) /\ (Len(s) + Len(p) = Len(t) => d = t)
  BY <1>2, <1>4, <1>5, JoinedIs
<1> HIDE DEF d
<1>10. Len(d) = Len(s) + n
  BY <1>2, <1>6
<1>7. Rest(r, d, t)
  <2>1. Len(d) + Len(r) = Len(t)
    <3>1. Len(r) = Len(u) - n /\ Len(r) \in Nat /\ Len(d) \in Nat
      BY <1>3, <1>6
    <3>2. Len(d) + Len(r) = (Len(s) + n) + (Len(u) - n)
      BY <1>10, <3>1
    <3>3. (Len(s) + n) + (Len(u) - n) = Len(s) + Len(u)
      BY <1>1
    <3> QED
      BY <1>1, <3>2, <3>3
  <2>2. ASSUME NEW i \in 1 .. Len(r) PROVE r[i] = t[Len(d) + i]
    <3>1. n + i \in 1 .. Len(u) /\ r[i] = u[n + i] /\ Len(s) + (n + i) = Len(d) + i
      BY <1>1, <1>2, <1>3, <1>6
    <3> QED
      BY <3>1 DEF Rest
  <2> QED
    BY <2>1, <2>2 DEF Rest
<1>8. n # Len(u) => r # <<>>
  BY <1>1, <1>3
<1>9. n = Len(u) => d = t
  BY <1>1, <1>2, <1>6
<1> QED
  BY <1>3, <1>6, <1>7, <1>8, <1>9, <1>10 DEF d, p, r

\* Giving the next units of what is staged: what the host got remains a prefix of it.
LEMMA DataGiven ==
  ASSUME NEW g \in Seq(Nat), NEW t \in Seq(Nat), Prefix(g, t), NEW len \in Nat,
         Len(g) + len <= Len(t)
  PROVE  LET x == g \o SubSeq(t, Len(g) + 1, Len(g) + len)
         IN  /\ x \in Seq(Nat) /\ Len(x) = Len(g) + len /\ Prefix(x, t)
             /\ Len(g) + len = Len(t) => x = t
<1> DEFINE p == SubSeq(t, Len(g) + 1, Len(g) + len)
<1>1. Len(g) \in Nat /\ Len(t) \in Nat
  OBVIOUS
<1>2. p \in Seq(Nat) /\ Len(p) = len /\ \A i \in 1 .. len : p[i] = t[Len(g) + i]
  <2>1. /\ p \in Seq(Nat) /\ Len(p) = Len(g) + len - (Len(g) + 1) + 1
        /\ \A i \in 1 .. Len(g) + len - (Len(g) + 1) + 1 : p[i] = t[(Len(g) + 1) + i - 1]
    BY <1>1, PartIs
  <2> QED
    BY <1>1, <2>1
<1> HIDE DEF p
<1>3. /\ g \o p \in Seq(Nat) /\ Len(g \o p) = Len(g) + Len(p)
      /\ Prefix(g \o p, t) /\ (Len(g) + Len(p) = Len(t) => g \o p = t)
  BY <1>2, JoinedIs
<1> QED
  BY <1>2, <1>3 DEF p

\* What the host knows of the command it has under way.
LEMMA HostIs ==
  ASSUME MscGood
  PROVE  /\ host.phase \in {"idle", "out", "in"} /\ host.tag \in Nat
         /\ host.todo \in Seq(Nat) /\ host.got \in Seq(Nat) /\ host.ok \in BOOLEAN
         /\ host.cmd # <<>> => host.cmd = <<host.cmd[1]>> /\ host.cmd[1] \in ScsiCommands
         /\ host.phase # "idle" => host.cmd # <<>>
<1>1. host \in Hosts /\ (host.phase # "idle" => host.cmd # <<>>)
  BY DEF MscGood
<1>2. ASSUME host.cmd # <<>> PROVE host.cmd = <<host.cmd[1]>> /\ host.cmd[1] \in ScsiCommands
  <2>1. PICK c \in ScsiCommands : host.cmd = <<c>>
    BY <1>1, <1>2 DEF Hosts
  <2>2. host.cmd[1] = c
    BY <2>1
  <2> QED
    BY <2>1, <2>2
<1> QED
  BY <1>1, <1>2 DEF Hosts

\* What the host knows when it has just sent a command block.
LEMMA SendsIs ==
  ASSUME MscGood, NEW c \in ScsiCommands
  PROVE  /\ Sends(c) \in Hosts
         /\ Sends(c).cmd = <<c>> /\ Sends(c).cmd[1] = c /\ Sends(c).cmd # <<>>
         /\ Sends(c).tag = host.tag + 1 /\ Sends(c).todo = DataToSend(c) /\ Sends(c).got = <<>>
         /\ Sends(c).phase = IF DataToSend(c) = <<>> THEN "in" ELSE "out"
<1>1. host.tag \in Nat /\ DataToSend(c) \in Seq(Nat)
  BY HostIs, DataIs
<1>2. <<>> \in Seq(Nat) /\ <<c>> \in {<<x>> : x \in ScsiCommands}
  OBVIOUS
<1>3. Sends(c) \in Hosts
  BY <1>1, <1>2 DEF Sends, Hosts
<1> QED
  BY <1>3 DEF Sends

\* do_cbw: refused, answered, or on to the data phase that the command asks for.
LEMMA MscCommand ==
  ASSUME MscGood, NEW c \in ScsiCommands, bulk_out_Idle(c)
  PROVE  MscGood'
<1>1. /\ host.phase = "idle" /\ msc_session /\ current_tag' = host.tag + 1 /\ host' = Sends(c)
      /\ disk' = disk /\ shadow' = shadow /\ msc_session' = msc_session
  BY DEF bulk_out_Idle, NewCommand, mscLink
<1>2. ~command_failed_ /\ ~data_out_unmap_ /\ disk = shadow /\ disk \in Disks
  BY <1>1 DEF MscGood, MscIdle
<1>3. /\ host' \in Hosts /\ host'.cmd[1] = c /\ host'.cmd # <<>> /\ host'.tag = host.tag + 1
      /\ host'.todo = DataToSend(c) /\ host'.got = <<>>
      /\ host'.phase = IF DataToSend(c) = <<>> THEN "in" ELSE "out"
  BY <1>1, SendsIs
<1>4. c.op \in {"no_data", "unsupported", "info", "read", "write", "unmap"}
  BY CommandIs
<1> SUFFICES \/ MscRefused'
             \/ host'.phase = "out" /\ MscCollects(c)'
             \/ host'.phase = "in" /\ (MscGives(c)' \/ MscDone(c)')
  BY <1>1, <1>2, <1>3, Zenon DEF MscGood
<1>5. CASE do_cbw_NoData(c)
  <2>1. state_' = "Status" /\ data_out_unmap_' = data_out_unmap_
    BY <1>5 DEF do_cbw_NoData, do_cbw_Status, mscPlan
  <2>2. CASE command_failed_'
    BY <1>1, <1>2, <2>1, <2>2 DEF MscRefused
  <2>3. CASE ~command_failed_'
    <3>1. c.op = "no_data" \/ (c.op = "unmap" /\ ParameterLength(c) = 0)
      <4>1. CASE c.op = "unmap" /\ do_cbw_Status(c, read_only_) /\ (read_only_ \/ ParameterLength(c) = 0)
        <5>1. command_failed_' = read_only_
          BY <4>1 DEF do_cbw_Status
        <5>2. ~read_only_
          BY <2>3, <5>1, Zenon
        <5> QED
          BY <4>1, <5>2
      <4>3. CASE do_cbw_Status(c, TRUE)
        BY <2>3, <4>3 DEF do_cbw_Status
      <4> QED
        BY <1>5, <4>1, <4>3 DEF do_cbw_NoData
    <3>2. c.op = "unmap" => c.count = 0
      BY <3>1 DEF ParameterLength
    <3>3. DataToSend(c) = <<>> /\ Effect(c, shadow) = shadow
      BY <3>1, <3>2, DataIs DEF Effect
    <3>4. Effect(c, shadow)' = shadow
      BY <1>1, <3>1, <3>2 DEF Effect
    <3>5. MscDone(c)'
      BY <1>1, <1>2, <2>1, <2>3, <3>1, <3>4 DEF MscDone
    <3> QED
      BY <1>3, <3>3, <3>5
  <2> QED
    BY <2>2, <2>3
<1>6. CASE do_cbw_In(c)
  <2>1. /\ state_' = "DataIn" /\ staging_offset_' = 0 /\ c.op \in {"info", "read"}
        /\ command_failed_' = command_failed_ /\ data_out_unmap_' = data_out_unmap_
    BY <1>6 DEF do_cbw_In, Staged, mscPlan
  <2>2. DataToSend(c) = <<>>
    BY <2>1, DataIs
  <2>3. CASE c.op = "info"
    <3> DEFINE k == IF c.len < InfoLength THEN c.len ELSE InfoLength
    <3>1. k \in Nat
      BY CommandIs DEF InfoLength
    <3>2. staging_data_' = [i \in 1 .. k |-> InfoUnit]
      BY <1>6, <2>3 DEF do_cbw_In, Staged
    <3> HIDE DEF k
    <3>3. staging_data_' \in Seq(Nat)
      BY <3>1, <3>2 DEF InfoUnit
    <3>4. Prefix(<<>>, staging_data_')
      BY <3>3 DEF Prefix
    <3>5. MscGives(c)'
      BY <1>1, <1>2, <1>3, <2>1, <2>3, <3>3, <3>4 DEF MscGives
    <3> QED
      BY <1>3, <2>2, <3>5
  <2>4. CASE c.op = "read"
    <3>1. InRange(c) /\ staging_data_' = ReadData(c)
      BY <1>6, <2>4 DEF do_cbw_In, Staged, ReadData
    <3>2. staging_data_' \in Seq(Nat)
      BY <1>2, <3>1, ReadIs
    <3>3. Prefix(<<>>, staging_data_')
      BY <3>2 DEF Prefix
    <3>4. InRange(c)' /\ ReadData(c)' = ReadData(c)
      BY <1>1, <3>1 DEF InRange, ReadData, backend_read, BlockCount
    <3>5. MscGives(c)'
      BY <1>1, <1>2, <1>3, <2>1, <2>4, <3>1, <3>2, <3>3, <3>4 DEF MscGives
    <3> QED
      BY <1>3, <2>2, <3>5
  <2> QED
    BY <2>1, <2>3, <2>4
<1>7. CASE do_cbw_Out(c)
  <2>1. /\ state_' = "DataOut" /\ staging_data_' = <<>> /\ command_failed_' = command_failed_
        /\ c.op \in {"write", "unmap"}
    BY <1>7 DEF do_cbw_Out, Collect
  <2>2. /\ \/ c.op = "write" /\ InRange(c)' /\ ~data_out_unmap_'
              /\ write_lba_' = c.lba /\ write_count_' = BlockCount(c)'
           \/ c.op = "unmap" /\ c.count = 1 /\ data_out_unmap_' /\ write_count_' = 3
        /\ DataToSend(c) # <<>>
    <3>1. CASE c.op = "write"
      <4>1. InRange(c) /\ write_lba_' = c.lba /\ write_count_' = BlockCount(c)
            /\ data_out_unmap_' = data_out_unmap_
        BY <1>7, <3>1 DEF do_cbw_Out
      <4>2. BlockCount(c) * BlockSize > 0
        <5>1. BlockCount(c) \in Nat \ {0} /\ BlockSize \in Nat \ {0}
          BY CommandIs, MscConstants
        <5> QED
          BY <5>1
      <4>3. DataToSend(c) # <<>>
        BY <3>1, <4>2, DataIs
      <4> QED
        BY <1>2, <3>1, <4>1, <4>3 DEF InRange, BlockCount
    <3>2. CASE c.op = "unmap"
      <4>1. ParameterLength(c) > 0 /\ write_count_' = ParameterLength(c) /\ data_out_unmap_'
        BY <1>7, <3>2 DEF do_cbw_Out
      <4>2. c.count = 1 /\ ParameterLength(c) = 3
        BY <3>2, <4>1, CommandIs DEF ParameterLength
      <4>3. DataToSend(c) # <<>>
        <5>1. Len(DataToSend(c)) = 3
          BY <3>2, <4>2, DataIs
        <5> QED
          BY <5>1
      <4> QED
        BY <3>2, <4>1, <4>2, <4>3
    <3> QED
      BY <2>1, <3>1, <3>2
  <2>3. DataToSend(c) \in Seq(Nat) /\ DataToSend(c)' = DataToSend(c)
    BY DataIs DEF DataToSend, BlockCount
  <2>4. <<>> \in Seq(Nat) /\ Prefix(<<>>, DataToSend(c)) /\ Rest(DataToSend(c), <<>>, DataToSend(c))
    BY <2>3 DEF Prefix, Rest
  <2>5. MscCollects(c)'
    BY <1>1, <1>2, <1>3, <2>1, <2>2, <2>3, <2>4 DEF MscCollects
  <2> QED
    BY <1>3, <2>2, <2>5
<1> QED
  BY <1>5, <1>6, <1>7 DEF bulk_out_Idle

\* The device counts what it collected as complete exactly when the host has nothing left.
LEMMA MscCompletes ==
  ASSUME MscGood, host.phase = "out", MscCollects(host.cmd[1]),
         NEW data \in Seq(Nat), NEW rest \in Seq(Nat), Rest(rest, data, DataToSend(host.cmd[1]))
  PROVE  Complete(data) <=> rest = <<>>
<1> DEFINE c == host.cmd[1]
<1>1. c \in ScsiCommands
  BY HostIs
<1>2. Len(data) \in Nat /\ Len(rest) \in Nat /\ Len(data) + Len(rest) = Len(DataToSend(c))
      /\ (rest = <<>> <=> Len(rest) = 0)
  BY DEF Rest
<1>3. CASE c.op = "write"
  <2>1. ~data_out_unmap_ /\ write_count_ = BlockCount(c)
    BY <1>3 DEF MscCollects
  <2>2. Len(DataToSend(c)) = BlockCount(c) * BlockSize
    BY <1>1, <1>3, DataIs
  <2>3. Complete(data) <=> Len(data) >= BlockCount(c) * BlockSize
    BY <2>1 DEF Complete
  <2>4. BlockCount(c) * BlockSize \in Nat
    BY <1>1, CommandIs, MscConstants
  <2> QED
    BY <1>2, <2>2, <2>3, <2>4
<1>4. CASE c.op # "write"
  <2>1. c.op = "unmap" /\ c.count = 1 /\ data_out_unmap_ /\ write_count_ = 3
    BY <1>4 DEF MscCollects
  <2>2. Len(DataToSend(c)) = 3
    BY <1>1, <2>1, DataIs
  <2>3. Complete(data) <=> Len(data) >= 3
    BY <2>1 DEF Complete
  <2> QED
    BY <1>2, <2>2, <2>3
<1> QED
  BY <1>3, <1>4

\* handle_bulk_transfer OUT in DataOut: the last unit makes the change, and it is the change
\* the command asks for.
LEMMA MscReceives ==
  ASSUME MscGood, NEW n \in Nat, 1 <= n, bulk_out_Data(n)
  PROVE  MscGood'
<1> DEFINE c == host.cmd[1]
           todo == host.todo
           data == staging_data_ \o SubSeq(todo, 1, n)
           rest == SubSeq(todo, n + 1, Len(todo))
<1>1. /\ msc_session /\ host.phase = "out" /\ state_ = "DataOut" /\ n <= Len(todo)
      /\ host' = [host EXCEPT !.todo = SubSeq(@, n + 1, Len(@)),
                              !.phase = IF n = Len(host.todo) THEN "in" ELSE "out"]
      /\ current_tag' = current_tag /\ msc_session' = msc_session /\ shadow' = shadow
      /\ command_failed_' = command_failed_ /\ write_lba_' = write_lba_
      /\ write_count_' = write_count_
  BY DEF bulk_out_Data, bulk_out_DataOut, mscLink
<1>2. c \in ScsiCommands /\ todo \in Seq(Nat) /\ host.cmd # <<>> /\ host \in Hosts
      /\ DataToSend(c) \in Seq(Nat)
  BY <1>1, HostIs, DataIs DEF MscGood
<1>3. MscCollects(c) /\ current_tag = host.tag /\ disk \in Disks
  BY <1>1 DEF MscGood, MscRefused
<1>4. /\ ~command_failed_ /\ disk = shadow /\ staging_data_ \in Seq(Nat)
      /\ Prefix(staging_data_, DataToSend(c)) /\ Rest(todo, staging_data_, DataToSend(c))
      /\ c.op \in {"write", "unmap"}
  BY <1>3 DEF MscCollects
<1>5. /\ data \in Seq(Nat) /\ rest \in Seq(Nat) /\ Len(data) = Len(staging_data_) + n
      /\ Prefix(data, DataToSend(c)) /\ Rest(rest, data, DataToSend(c))
      /\ n = Len(todo) => data = DataToSend(c)
      /\ n # Len(todo) => rest # <<>>
  <2>1. todo \in Seq(Nat) /\ staging_data_ \in Seq(Nat) /\ n <= Len(todo)
    BY <1>1, <1>2, <1>4
  <2> HIDE DEF todo, c
  <2> QED
    BY <1>2, <1>4, <2>1, DataCollected
<1>6. Complete(data) <=> rest = <<>>
  BY <1>1, <1>2, <1>3, <1>5, MscCompletes
<1>7. n = Len(todo) => rest = <<>>
  <2>1. Len(todo) \in Nat
    BY <1>2
  <2> QED
    BY <2>1, SubSeqEmpty
<1>8. /\ Complete(data) =>
           /\ disk' = IF ~data_out_unmap_
                      THEN backend_write(disk, write_lba_, write_count_, data)
                      ELSE IF Len(data) >= 3 /\ data[2] + data[3] <= Blocks
                           THEN punch_hole(disk, data[2], data[3]) ELSE disk
           /\ staging_data_' = <<>> /\ data_out_unmap_' = FALSE /\ state_' = "Status"
      /\ ~Complete(data) =>
           /\ staging_data_' = data
           /\ disk' = disk /\ data_out_unmap_' = data_out_unmap_ /\ state_' = state_
  BY DEF bulk_out_Data, bulk_out_DataOut
<1>9. host'.todo = rest /\ host'.phase = (IF n = Len(todo) THEN "in" ELSE "out")
      /\ host'.cmd = host.cmd /\ host'.tag = host.tag
  BY <1>1, <1>2 DEF Hosts
<1>10. host' \in Hosts
  BY <1>1, <1>2, <1>5 DEF Hosts
<1> HIDE DEF data, rest
<1>11. CASE n = Len(todo)
  <2>1. Complete(data) /\ data = DataToSend(c)
    BY <1>5, <1>6, <1>7, <1>11
  <2>2. disk' = Effect(c, shadow)
    <3>1. CASE c.op = "write"
      <4>1. ~data_out_unmap_ /\ write_lba_ = c.lba /\ write_count_ = BlockCount(c)
        BY <1>3, <3>1 DEF MscCollects
      <4>2. Effect(c, shadow) = backend_write(shadow, c.lba, BlockCount(c), DataToSend(c))
        BY <3>1 DEF Effect
      <4> QED
        BY <1>4, <1>8, <2>1, <4>1, <4>2
    <3>2. CASE c.op = "unmap"
      <4>1. data_out_unmap_ /\ c.count = 1
        BY <1>3, <3>2 DEF MscCollects
      <4>2. data = <<0, c.lba, 1>> /\ c.lba + 1 <= Blocks
        BY <1>2, <2>1, <3>2, <4>1, DataIs, CommandIs
      <4>3. Len(data) >= 3 /\ data[2] = c.lba /\ data[3] = 1
        BY <4>2
      <4>4. disk' = punch_hole(disk, c.lba, 1)
        BY <1>8, <2>1, <4>1, <4>2, <4>3
      <4>5. Effect(c, shadow) = punch_hole(shadow, c.lba, c.count)
        BY <3>2, <4>1 DEF Effect
      <4> QED
        BY <1>4, <4>1, <4>4, <4>5
    <3> QED
      BY <1>4, <3>1, <3>2
  <2>3. disk' \in Disks
    <3>1. c.op = "write" => InRange(c)
      BY <1>3 DEF MscCollects
    <3> QED
      BY <1>2, <1>3, <1>4, <2>2, <3>1, EffectIs
  <2>4. host'.cmd[1] = c /\ Effect(c, shadow)' = Effect(c, shadow)
    BY <1>1, <1>9 DEF Effect, backend_write, punch_hole, BlockCount, DataToSend
  <2>5. MscDone(host.cmd[1])'
    BY <1>1, <1>4, <1>8, <2>1, <2>2, <2>4, <1>9 DEF MscDone
  <2>6. host'.phase = "in"
    BY <1>9, <1>11
  <2> QED
    BY <1>1, <1>2, <1>3, <1>9, <1>10, <2>3, <2>5, <2>6 DEF MscGood
<1>12. CASE n # Len(todo)
  <2>1. ~Complete(data) /\ rest # <<>>
    BY <1>5, <1>6, <1>12
  <2>2. host'.phase = "out" /\ host'.cmd[1] = c /\ DataToSend(c)' = DataToSend(c)
    BY <1>9, <1>12 DEF DataToSend, BlockCount
  <2>3. /\ state_' = "DataOut" /\ ~command_failed_' /\ disk' = shadow' /\ disk' = disk
        /\ staging_data_' = data
    BY <1>1, <1>4, <1>8, <2>1
  <2>4. \/ c.op = "write" /\ InRange(c)' /\ ~data_out_unmap_'
           /\ write_lba_' = c.lba /\ write_count_' = BlockCount(c)'
        \/ c.op = "unmap" /\ c.count = 1 /\ data_out_unmap_' /\ write_count_' = 3
    BY <1>1, <1>3, <1>8, <2>1 DEF MscCollects, InRange, BlockCount
  <2>5. MscCollects(host.cmd[1])'
    <3>1. /\ Prefix(data, DataToSend(c)) /\ Rest(rest, data, DataToSend(c))
          /\ data \in Seq(Nat) /\ host'.todo = rest
      BY <1>5, <1>9
    <3> QED
      BY <2>1, <2>2, <2>3, <2>4, <3>1 DEF MscCollects
  <2> QED
    BY <1>1, <1>2, <1>3, <1>9, <1>10, <2>2, <2>3, <2>5 DEF MscGood
<1> QED
  BY <1>11, <1>12

\* A stalled data phase: only a refused command is stalled, and the host asks for its status.
LEMMA MscAsksStatus ==
  ASSUME MscGood, NEW c \in ScsiCommands, bulk_out_Stall(c)
  PROVE  MscGood'
<1>1. /\ state_ \in {"DataIn", "Status"} /\ msc_session
      /\ state_' = state_ /\ command_failed_' = command_failed_ /\ disk' = disk
      /\ data_out_unmap_' = data_out_unmap_ /\ shadow' = shadow /\ msc_session' = msc_session
      /\ current_tag' = current_tag
  BY DEF bulk_out_Stall, mscPlan, mscLink
<1>2. host.phase # "idle"
  BY <1>1 DEF MscGood, MscIdle
<1>3. host.phase = "out" /\ host' = [host EXCEPT !.phase = "in"]
  BY <1>2 DEF bulk_out_Stall, NewCommand
<1>4. MscRefused /\ host \in Hosts /\ disk \in Disks /\ host.cmd # <<>> /\ current_tag = host.tag
  BY <1>1, <1>3 DEF MscGood, MscCollects
<1>5. MscRefused'
  BY <1>1, <1>4 DEF MscRefused
<1>6. /\ host' \in Hosts /\ host'.phase = "in" /\ host'.cmd = host.cmd /\ host'.tag = host.tag
  BY <1>3, <1>4 DEF Hosts
<1> QED
  BY <1>1, <1>4, <1>5, <1>6 DEF MscGood

\* The device never takes a command block for data, nor stalls the read of data or status.
LEMMA MscNeverOutOfStep ==
  ASSUME MscGood
  PROVE  /\ \A c \in ScsiCommands : ~bulk_out_CbwAsData(c)
         /\ ~bulk_in_Stall
<1>1. \A c \in ScsiCommands : ~bulk_out_CbwAsData(c)
  BY DEF bulk_out_CbwAsData, NewCommand, bulk_out_DataOut, MscGood, MscIdle
<1>2. ~bulk_in_Stall
  BY DEF bulk_in_Stall, MscGood, MscRefused, MscGives, MscDone
<1> QED
  BY <1>1, <1>2

\* handle_bulk_transfer IN in DataIn: the last unit completes the data of the command.
LEMMA MscGivesData ==
  ASSUME MscGood, NEW n \in Nat, bulk_in_DataIn(n)
  PROVE  MscGood'
<1> DEFINE c == host.cmd[1]
           rest == Len(staging_data_) - staging_offset_
           len  == IF n < rest THEN n ELSE rest
           got == host.got \o SubSeq(staging_data_, staging_offset_ + 1, staging_offset_ + len)
<1>1. /\ msc_session /\ host.phase = "in" /\ state_ = "DataIn"
      /\ command_failed_' = command_failed_ /\ data_out_unmap_' = data_out_unmap_
      /\ disk' = disk /\ shadow' = shadow /\ current_tag' = current_tag
      /\ msc_session' = msc_session
  BY DEF bulk_in_DataIn, mscPlan, mscLink
<1>2. /\ host' = [host EXCEPT !.got = @ \o
                       SubSeq(staging_data_, staging_offset_ + 1, staging_offset_ + len)]
      /\ staging_offset_' = IF len = rest THEN 0 ELSE staging_offset_ + len
      /\ staging_data_' = IF len = rest THEN <<>> ELSE staging_data_
      /\ state_' = IF len = rest THEN "Status" ELSE state_
  BY DEF bulk_in_DataIn
<1>3. /\ c \in ScsiCommands /\ host.cmd # <<>> /\ host \in Hosts /\ host.got \in Seq(Nat)
      /\ current_tag = host.tag /\ disk \in Disks
  BY <1>1, HostIs DEF MscGood
<1>4. MscGives(c)
  BY <1>1 DEF MscGood, MscRefused, MscDone
<1>5. /\ ~command_failed_ /\ ~data_out_unmap_ /\ disk = shadow /\ c.op \in {"info", "read"}
      /\ staging_data_ \in Seq(Nat) /\ staging_offset_ = Len(host.got)
      /\ Prefix(host.got, staging_data_)
      /\ c.op = "read" => InRange(c) /\ staging_data_ = ReadData(c)
  BY <1>4 DEF MscGives
<1>6. /\ rest \in Nat /\ len \in Nat /\ staging_offset_ + len <= Len(staging_data_)
      /\ (len = rest <=> staging_offset_ + len = Len(staging_data_))
  <2>1. Len(staging_data_) \in Nat /\ Len(host.got) \in Nat /\ Len(host.got) <= Len(staging_data_)
    BY <1>3, <1>5 DEF Prefix
  <2>2. rest \in Nat
    BY <1>5, <2>1
  <2> HIDE DEF rest
  <2>3. len \in Nat /\ len <= rest
    BY <2>2
  <2>4. rest = Len(staging_data_) - staging_offset_
    BY DEF rest
  <2> HIDE DEF len
  <2>5. staging_offset_ \in Nat /\ staging_offset_ + rest = Len(staging_data_)
    BY <1>5, <2>1, <2>4
  <2> QED
    BY <2>1, <2>2, <2>3, <2>5
<1> HIDE DEF rest, len
<1>7. /\ got \in Seq(Nat) /\ Len(got) = staging_offset_ + len /\ Prefix(got, staging_data_)
      /\ staging_offset_ + len = Len(staging_data_) => got = staging_data_
  BY <1>3, <1>5, <1>6, DataGiven
<1>8. /\ host' \in Hosts /\ host'.got = got /\ host'.cmd = host.cmd /\ host'.tag = host.tag
      /\ host'.phase = "in"
  BY <1>1, <1>2, <1>3, <1>7 DEF Hosts
<1> HIDE DEF got
<1>9. c.op = "read" => InRange(c)' /\ ReadData(c)' = ReadData(c)
  BY <1>1, <1>5, <1>8 DEF InRange, ReadData, backend_read, BlockCount
<1>10. CASE len = rest
  <2>1. state_' = "Status" /\ got = staging_data_
    BY <1>2, <1>6, <1>7, <1>10
  <2>2. Effect(c, shadow)' = shadow'
    BY <1>1, <1>5, <1>8 DEF Effect
  <2>3. MscDone(host.cmd[1])'
    BY <1>1, <1>5, <1>8, <1>9, <2>1, <2>2 DEF MscDone
  <2> QED
    BY <1>1, <1>3, <1>8, <2>3 DEF MscGood
<1>11. CASE len # rest
  <2>1. state_' = "DataIn" /\ staging_data_' = staging_data_ /\ staging_offset_' = Len(got)
    BY <1>1, <1>2, <1>7, <1>11
  <2>2. MscGives(host.cmd[1])'
    BY <1>1, <1>5, <1>7, <1>8, <1>9, <2>1 DEF MscGives
  <2> QED
    BY <1>1, <1>3, <1>8, <2>2 DEF MscGood
<1> QED
  BY <1>10, <1>11

\* The CSW: a command reported as done has had its effect, a failed one has had none.
LEMMA MscAnswers ==
  ASSUME MscGood, bulk_in_Status
  PROVE  MscGood'
<1> DEFINE c == host.cmd[1]
           ok == ~command_failed_ /\ current_tag = host.tag
<1>1. /\ msc_session /\ host.phase = "in" /\ state_ = "Status"
      /\ state_' = "Idle" /\ command_failed_' = FALSE
      /\ data_out_unmap_' = data_out_unmap_ /\ disk' = disk /\ current_tag' = current_tag
      /\ msc_session' = msc_session
      /\ host' = [host EXCEPT !.phase = "idle", !.ok = ok, !.todo = <<>>]
      /\ shadow' = IF ok THEN Effect(c, shadow) ELSE shadow
  BY DEF bulk_in_Status, mscPlan, mscLink
<1>2. /\ host.cmd # <<>> /\ host \in Hosts /\ current_tag = host.tag /\ disk \in Disks
      /\ MscRefused \/ MscDone(c)
  BY <1>1 DEF MscGood, MscGives
<1>3. ok \in BOOLEAN
  OBVIOUS
<1> HIDE DEF ok
<1>4. /\ host' \in Hosts /\ host'.phase = "idle" /\ host'.ok = ok /\ host'.cmd = host.cmd
      /\ host'.got = host.got
  <2>1. <<>> \in Seq(Nat)
    OBVIOUS
  <2>2. host' \in Hosts
    BY <1>1, <1>2, <1>3, <2>1, Zenon DEF Hosts
  <2> QED
    BY <1>1, <1>2, <2>2 DEF Hosts
<1>5. CASE MscRefused
  <2>1. ~ok /\ disk = shadow /\ ~data_out_unmap_
    BY <1>5 DEF MscRefused, ok
  <2>2. disk' = shadow' /\ ~host'.ok
    BY <1>1, <1>4, <2>1
  <2>3. MscIdle'
    BY <1>1, <2>1, <2>2 DEF MscIdle
  <2> QED
    BY <1>1, <1>2, <1>4, <2>3 DEF MscGood
<1>6. CASE MscDone(c)
  <2>1. ok /\ ~data_out_unmap_ /\ disk = Effect(c, shadow)
        /\ (c.op = "read" => InRange(c) /\ host.got = ReadData(c))
    BY <1>2, <1>6 DEF MscDone, ok
  <2>2. disk' = shadow'
    BY <1>1, <2>1
  <2>3. c.op = "read" => InRange(c)' /\ host'.got = ReadData(c)'
    BY <1>1, <1>4, <2>1 DEF InRange, ReadData, backend_read, BlockCount
  <2>4. MscIdle'
    BY <1>1, <1>4, <2>1, <2>2, <2>3 DEF MscIdle
  <2> QED
    BY <1>1, <1>2, <1>4, <2>4 DEF MscGood
<1> QED
  BY <1>2, <1>5, <1>6

\* A session begins over a transport at rest.
LEMMA MscConnects ==
  ASSUME MscGood, msc_on_new_connection
  PROVE  MscGood'
<1>1. /\ ~msc_session /\ host' = [HostIdle EXCEPT !.tag = host.tag] /\ shadow' = disk
      /\ disk' = disk /\ state_' = state_ /\ command_failed_' = command_failed_
      /\ data_out_unmap_' = data_out_unmap_
  BY DEF msc_on_new_connection, mscPlan
<1>2. MscIdle /\ disk \in Disks /\ host.tag \in Nat
  BY <1>1, HostIs DEF MscGood
<1>3. host' \in Hosts /\ host'.phase = "idle" /\ host'.cmd = <<>>
  <2>1. host' = [phase |-> "idle", tag |-> host.tag, cmd |-> <<>>, todo |-> <<>>, got |-> <<>>,
                 ok |-> FALSE]
    BY <1>1 DEF HostIdle
  <2>2. <<>> \in Seq(Nat)
    OBVIOUS
  <2> QED
    BY <1>2, <2>1, <2>2 DEF Hosts
<1>4. MscIdle'
  BY <1>1, <1>2, <1>3 DEF MscIdle
<1> QED
  BY <1>1, <1>2, <1>3, <1>4 DEF MscGood

\* A session ends: between two commands, or the transport is torn.
LEMMA MscLeaves ==
  ASSUME MscGood, msc_on_disconnection
  PROVE  torn' \/ MscGood'
<1>1. /\ torn' = (torn \/ host.phase # "idle")
      /\ UNCHANGED <<state_, current_tag, command_failed_, disk, host, shadow, data_out_unmap_>>
  BY DEF msc_on_disconnection, mscPlan
<1>2. CASE host.phase # "idle"
  BY <1>1, <1>2
<1>3. CASE host.phase = "idle"
  <2>1. MscIdle'
    BY <1>1, <1>3 DEF MscGood, MscIdle, InRange, ReadData, backend_read, BlockCount
  <2> QED
    BY <1>1, <1>3, <2>1 DEF MscGood
<1> QED
  BY <1>2, <1>3

\* The image is blank and the transport at rest when the handler is constructed.
LEMMA MscStart == MscInit => MscInv
<1> SUFFICES ASSUME MscInit PROVE MscGood
  BY DEF MscInv
<1>1. disk \in Disks
  BY DEF MscInit, Disks
<1>2. host = [phase |-> "idle", tag |-> 0, cmd |-> <<>>, todo |-> <<>>, got |-> <<>>, ok |-> FALSE]
  BY DEF MscInit, HostIdle
<1>3. <<>> \in Seq(Nat)
  OBVIOUS
<1>4. host \in Hosts /\ host.phase = "idle" /\ host.cmd = <<>>
  BY <1>2, <1>3 DEF Hosts
<1>5. MscIdle
  BY <1>4 DEF MscInit, MscIdle
<1> QED
  BY <1>1, <1>4, <1>5 DEF MscGood

\* Every step of the disk preserves its invariant.
LEMMA MscStep == MscInv /\ [MscNext]_mscVars => MscInv'
<1> SUFFICES ASSUME MscInv, [MscNext]_mscVars PROVE MscInv'
  OBVIOUS
<1>1. CASE torn
  <2>1. torn'
    BY <1>1 DEF MscNext, mscVars, mscLink, bulk_out_Idle, bulk_out_CbwAsData, bulk_out_Stall,
                bulk_out_Data, bulk_out_DataOut, bulk_in_DataIn, bulk_in_Status, bulk_in_Stall,
                msc_on_new_connection, msc_on_disconnection
  <2> QED
    BY <2>1 DEF MscInv
<1>2. CASE MscGood
  <2>1. ASSUME NEW c \in ScsiCommands, bulk_out_Idle(c) PROVE MscGood'
    BY <1>2, <2>1, MscCommand
  <2>2. ASSUME NEW c \in ScsiCommands, bulk_out_CbwAsData(c) PROVE MscGood'
    BY <1>2, <2>2, MscNeverOutOfStep
  <2>3. ASSUME NEW c \in ScsiCommands, bulk_out_Stall(c) PROVE MscGood'
    BY <1>2, <2>3, MscAsksStatus
  <2>4. ASSUME NEW n \in 1 .. 2 * BlockSize, bulk_out_Data(n) PROVE MscGood'
    <3>1. n \in Nat /\ 1 <= n
      BY MscConstants
    <3> QED
      BY <1>2, <2>4, <3>1, MscReceives
  <2>5. ASSUME NEW n \in 1 .. 2 * BlockSize, bulk_in_DataIn(n) PROVE MscGood'
    <3>1. n \in Nat
      BY MscConstants
    <3> QED
      BY <1>2, <2>5, <3>1, MscGivesData
  <2>6. CASE bulk_in_Status
    BY <1>2, <2>6, MscAnswers DEF MscInv
  <2>7. CASE bulk_in_Stall
    BY <1>2, <2>7, MscNeverOutOfStep
  <2>8. CASE msc_on_new_connection
    BY <1>2, <2>8, MscConnects DEF MscInv
  <2>9. CASE msc_on_disconnection
    BY <1>2, <2>9, MscLeaves DEF MscInv
  <2>10. CASE UNCHANGED mscVars
    <3>1. /\ state_' = state_ /\ current_tag' = current_tag /\ command_failed_' = command_failed_
          /\ staging_data_' = staging_data_ /\ staging_offset_' = staging_offset_
          /\ data_out_unmap_' = data_out_unmap_ /\ write_lba_' = write_lba_
          /\ write_count_' = write_count_ /\ disk' = disk /\ shadow' = shadow /\ host' = host
          /\ msc_session' = msc_session
      BY <2>10 DEF mscVars, mscStage, mscPlan, mscLink
    <3> DEFINE c == host.cmd[1]
    <3>2. MscIdle => MscIdle'
      BY <3>1 DEF MscIdle, InRange, ReadData, backend_read, BlockCount
    <3>3. MscRefused => MscRefused'
      BY <3>1 DEF MscRefused
    <3>4. MscCollects(c) => MscCollects(c)'
      <4>1. DataToSend(c)' = DataToSend(c)
        BY <3>1 DEF DataToSend, BlockCount
      <4> QED
        BY <3>1, <4>1 DEF MscCollects, Rest, Prefix, InRange, BlockCount
    <3>5. MscGives(c) => MscGives(c)'
      BY <3>1 DEF MscGives, Prefix, InRange, ReadData, backend_read, BlockCount
    <3>6. MscDone(c) => MscDone(c)'
      <4>1. Effect(c, shadow)' = Effect(c, shadow)
        BY <3>1 DEF Effect, backend_write, punch_hole, BlockCount, DataToSend
      <4> QED
        BY <3>1, <4>1 DEF MscDone, InRange, ReadData, backend_read, BlockCount
    <3> QED
      BY <1>2, <3>1, <3>2, <3>3, <3>4, <3>5, <3>6 DEF MscInv, MscGood
  <2> QED
    BY <2>1, <2>2, <2>3, <2>4, <2>5, <2>6, <2>7, <2>8, <2>9, <2>10 DEF MscNext, MscInv
<1> QED
  BY <1>1, <1>2 DEF MscInv

\* A step of any device is a step of the disk or leaves it alone.
LEMMA MscProject == Next \/ UNCHANGED <<deviceVars, csVars>> => MscNext \/ UNCHANGED mscVars
BY DEF Next, deviceVars

\* As long as no session broke off in a command, device and host agree on where they are in it.
THEOREM MscInvariant == Spec => []MscInv
<1>1. Init => MscInv
  BY MscStart DEF Init
<1>2. MscInv /\ [Next]_<<deviceVars, csVars>> => MscInv'
  BY MscStep, MscProject
<1> QED
  BY <1>1, <1>2, PTL DEF Spec

\* The invariant says of image and phases what the runs check.
LEMMA MscInvFollows == MscInv => MscFollowsTransport
<1> SUFFICES ASSUME MscInv, ~torn PROVE MscFollowsTransport
  BY DEF MscFollowsTransport, MscDoesWhatItSays, MscInStep
<1>1. MscGood
  BY DEF MscInv
<1>2. MscDoesWhatItSays
  <2> SUFFICES ASSUME Answered
               PROVE  disk = shadow /\ (host.ok /\ host.cmd[1].op = "read" =>
                        InRange(host.cmd[1])
                        /\ host.got = backend_read(host.cmd[1].lba, BlockCount(host.cmd[1])))
    BY DEF MscDoesWhatItSays
  <2> QED
    BY <1>1 DEF Answered, MscGood, MscIdle, ReadData
<1>3. ASSUME msc_session PROVE state_ = "Idle" <=> host.phase = "idle"
  <2>1. host.phase \in {"idle", "out", "in"}
    BY <1>1, HostIs
  <2> QED
    BY <1>1, <2>1 DEF MscGood, MscIdle, MscRefused, MscCollects, MscGives, MscDone
<1>4. ASSUME state_ = "DataOut"
      PROVE  host.phase = "out" /\ Complete(staging_data_ \o host.todo) /\ ~Complete(staging_data_)
  <2> DEFINE c == host.cmd[1]
             data == staging_data_ \o host.todo
  <2>1. host.phase = "out" /\ MscCollects(c)
    BY <1>1, <1>4, HostIs DEF MscGood, MscIdle, MscRefused, MscGives, MscDone
  <2>2. /\ staging_data_ \in Seq(Nat) /\ host.todo \in Seq(Nat) /\ host.todo # <<>>
        /\ Rest(host.todo, staging_data_, DataToSend(c))
        /\ Prefix(staging_data_, DataToSend(c)) /\ DataToSend(c) \in Seq(Nat)
    BY <1>1, <2>1, HostIs, DataIs DEF MscCollects
  <2>3. ~Complete(staging_data_)
    BY <1>1, <2>1, <2>2, MscCompletes
  <2>4. data \in Seq(Nat) /\ data = DataToSend(c)
    <3>1. /\ Len(staging_data_) + Len(host.todo) = Len(DataToSend(c))
          /\ Len(DataToSend(c)) \in Nat
          /\ \A i \in 1 .. Len(host.todo) : host.todo[i] = DataToSend(c)[Len(staging_data_) + i]
      BY <2>2 DEF Rest
    <3>2. Len(staging_data_) + Len(host.todo) <= Len(DataToSend(c))
      BY <3>1
    <3> QED
      BY <2>2, <3>1, <3>2, JoinedIs
  <2>5. <<>> \in Seq(Nat) /\ Rest(<<>>, data, DataToSend(c))
    <3>1. Len(DataToSend(c)) \in Nat /\ Len(data) = Len(DataToSend(c))
      BY <2>2, <2>4
    <3> QED
      BY <3>1 DEF Rest
  <2>6. Complete(data)
    BY <1>1, <2>1, <2>4, <2>5, MscCompletes
  <2> QED
    BY <2>1, <2>3, <2>6
<1> QED
  BY <1>2, <1>3, <1>4 DEF MscFollowsTransport, MscInStep

\* As long as no session broke off in a command: a command reported as done has done to the
\* image exactly what its command block says, a failed one nothing, a READ returned the blocks
\* it named, and no legal host is stalled out of its command (MscBulkOnlyHandler.cpp).
THEOREM MscFollows == Spec => []MscFollowsTransport
BY MscInvariant, MscInvFollows, PTL

-----------------------------------------------------------------------------
(* The command stream *)

\* A command as the client sends it.
Legal(c) == c \in CommandRecords /\ (c.ep = Ep0 /\ ~is_out(c.setup) => c.in)
\* The responses there can be.
Responses == [kind : {"RET_SUBMIT", "RET_UNLINK"}, seqnum : Nat, status : {"OK", "EPIPE"},
              actual : Nat, packets : Nat, carried : BOOLEAN]
\* The units of the command being read: itself, its data, its packet descriptors.
CommandUnits == 1 + (IF Head(to_device).kind = "CMD_SUBMIT" THEN submit_from_socket(Head(to_device)) ELSE 0)
\* What was sent and what is left of it to read.
CommandsInv ==
  /\ commands \in Seq(CommandRecords)
  /\ \A n \in 1 .. Len(commands) : Legal(commands[n]) /\ commands[n].seqnum = n
  /\ to_device \in Seq(CommandRecords \cup {Byte, Packet})
  /\ phase = "op" => commands = <<>> /\ to_device = <<>>
  /\ to_device # <<>> => /\ commands # <<>> /\ Head(to_device) = commands[Len(commands)]
                         /\ Len(to_device) <= CommandUnits
\* A response in the making agrees with the command it answers.
Agrees(ret) ==
  /\ ret \in Responses
  /\ ret.kind = "RET_SUBMIT" =>
       /\ ret.seqnum \in 1 .. Len(commands)
       /\ ret.actual > 0 => (ret.carried <=> commands[ret.seqnum].in)
       /\ ~ret.carried => num_iso(ret.packets) = 0
\* What waits is a request for data.
WaitingInv ==
  /\ requests \in [Interfaces -> Seq(Nat)]
  /\ \A i \in Interfaces : \A k \in 1 .. Len(requests[i]) :
       requests[i][k] \in 1 .. Len(commands) /\ commands[requests[i][k]].in
  /\ write_buffer \in Seq(Responses) /\ \A k \in 1 .. Len(write_buffer) : Agrees(write_buffer[k])
  /\ phase = "receiving" => attached = on_new_connection
\* A command that needs no more than it has got.
TakenCareOf(n) ==
  \/ commands[n].kind # "CMD_SUBMIT" \/ n \in done \/ Unanswerable(commands[n])
  \/ \E i \in attached : \E k \in DOMAIN requests[i] : requests[i][k] = n
\* While the client is there, nothing but the command being read lacks care.
CareInv ==
  phase = "receiving" /\ ~peer_closed =>
    \A n \in 1 .. Len(commands) : TakenCareOf(n) \/ (to_device # <<>> /\ n = Len(commands))
\* The sender is at a header, or in the data and packets that the client reads next.
AtHeader ==
  /\ expect = [data |-> 0, packets |-> 0]
  /\ writing # <<>> /\ Agrees(Head(writing)) /\ writing = to_socket(Head(writing))
  /\ num_iso(Head(writing).packets) = 0 \/ Head(writing).actual > 0
InBody ==
  /\ expect \in [data : Nat, packets : Nat]
  /\ writing = units(Byte, expect.data) \o units(Packet, expect.packets)
\* Server and client are in step.
StepInv == mishaps = {} => in_step /\ (AtHeader \/ InBody)
\* The invariant of the session.
StreamInv == CommandsInv /\ WaitingInv /\ CareInv /\ StepInv

\* A run of equal units, element by element.
LEMMA UnitsAre ==
  ASSUME NEW S, NEW u \in S, NEW n \in Nat
  PROVE  /\ units(u, n) \in Seq(S) /\ Len(units(u, n)) = n
         /\ \A i \in 1 .. n : units(u, n)[i] = u
         /\ n = 0 => units(u, n) = <<>>
<1>1. units(u, n) = [i \in 1 .. n |-> u]
  BY DEF units
<1>2. units(u, n) \in Seq(S) /\ Len(units(u, n)) = n
  BY <1>1
<1>3. n = 0 => units(u, n) = <<>>
  BY <1>2
<1> QED
  BY <1>1, <1>2, <1>3

\* What is left of a run of units when its first one is taken.
LEMMA NextUnit ==
  ASSUME NEW S, NEW u \in S, NEW n \in Nat \ {0}, NEW s \in Seq(S)
  PROVE  /\ units(u, n) \o s # <<>> /\ Head(units(u, n) \o s) = u
         /\ Tail(units(u, n) \o s) = units(u, n - 1) \o s
<1> DEFINE a == units(u, n)
           b == units(u, n - 1)
<1>1. /\ a \in Seq(S) /\ Len(a) = n /\ \A i \in 1 .. n : a[i] = u
      /\ b \in Seq(S) /\ Len(b) = n - 1 /\ \A i \in 1 .. n - 1 : b[i] = u
  <2>1. n \in Nat /\ n - 1 \in Nat
    OBVIOUS
  <2> QED
    BY <2>1, UnitsAre
<1> HIDE DEF a, b
<1>2. /\ a \o s \in Seq(S) /\ Len(a \o s) = n + Len(s) /\ Len(s) \in Nat
      /\ \A i \in 1 .. n + Len(s) : (a \o s)[i] = IF i <= n THEN a[i] ELSE s[i - n]
  <2>1. /\ a \o s \in Seq(S) /\ Len(a \o s) = Len(a) + Len(s)
        /\ \A i \in 1 .. Len(a) + Len(s) :
             (a \o s)[i] = IF i <= Len(a) THEN a[i] ELSE s[i - Len(a)]
    BY <1>1, ConcatProperties
  <2>2. Len(s) \in Nat
    OBVIOUS
  <2> QED
    BY <1>1, <2>1, <2>2
<1>3. /\ b \o s \in Seq(S) /\ Len(b \o s) = n - 1 + Len(s)
      /\ \A i \in 1 .. n - 1 + Len(s) : (b \o s)[i] = IF i <= n - 1 THEN b[i] ELSE s[i - (n - 1)]
  <2>1. /\ b \o s \in Seq(S) /\ Len(b \o s) = Len(b) + Len(s)
        /\ \A i \in 1 .. Len(b) + Len(s) :
             (b \o s)[i] = IF i <= Len(b) THEN b[i] ELSE s[i - Len(b)]
    BY <1>1, ConcatProperties
  <2>2. Len(s) \in Nat
    OBVIOUS
  <2> QED
    BY <1>1, <2>1, <2>2
<1> DEFINE x == a \o s
           y == b \o s
<1> HIDE DEF x, y
<1>4. x \in Seq(S) /\ x # <<>> /\ Len(x) = n + Len(s) /\ x[1] = u
  <2>1. 1 \in 1 .. n + Len(s) /\ 1 <= n
    BY <1>2
  <2>2. x[1] = a[1] /\ a[1] = u
    BY <1>1, <1>2, <2>1 DEF x
  <2>3. x \in Seq(S) /\ Len(x) = n + Len(s)
    BY <1>2 DEF x
  <2>4. x # <<>>
    BY <1>2, <2>3
  <2> QED
    BY <2>2, <2>3, <2>4
<1>5. /\ Tail(x) \in Seq(S) /\ Len(Tail(x)) = Len(x) - 1 /\ Head(x) = x[1]
      /\ \A i \in 1 .. Len(x) - 1 : Tail(x)[i] = x[i + 1]
  BY <1>4, TailIs
<1>6. y \in Seq(S) /\ Len(y) = Len(Tail(x))
  <2>1. y \in Seq(S) /\ Len(y) = n - 1 + Len(s)
    BY <1>3 DEF y
  <2>2. n + Len(s) - 1 = n - 1 + Len(s)
    BY <1>2
  <2> QED
    BY <1>4, <1>5, <2>1, <2>2
<1>7. ASSUME NEW i \in 1 .. Len(Tail(x)) PROVE Tail(x)[i] = y[i]
  <2>1. i \in 1 .. n - 1 + Len(s) /\ i + 1 \in 1 .. n + Len(s)
    BY <1>2, <1>4, <1>5
  <2>2. Tail(x)[i] = x[i + 1]
    BY <1>5
  <2>3. CASE i <= n - 1
    <3>1. x[i + 1] = a[i + 1] /\ i + 1 \in 1 .. n
      BY <1>2, <2>1, <2>3 DEF x
    <3>2. y[i] = b[i] /\ i \in 1 .. n - 1
      BY <1>3, <2>1, <2>3 DEF y
    <3> QED
      BY <1>1, <2>2, <3>1, <3>2
  <2>4. CASE ~(i <= n - 1)
    <3>1. x[i + 1] = s[(i + 1) - n]
      BY <1>2, <2>1, <2>4 DEF x
    <3>2. y[i] = s[i - (n - 1)]
      BY <1>3, <2>1, <2>4 DEF y
    <3>3. (i + 1) - n = i - (n - 1)
      BY <2>1
    <3> QED
      BY <2>2, <3>1, <3>2, <3>3
  <2> QED
    BY <2>3, <2>4
<1>8. Tail(x) = y
  BY <1>5, <1>6, <1>7, SeqEqual
<1> QED
  BY <1>4, <1>5, <1>8 DEF x, y, a, b

\* A header in front of what follows it.
LEMMA HeaderFirst ==
  ASSUME NEW S, NEW u \in S, NEW s \in Seq(S)
  PROVE  <<u>> \o s # <<>> /\ Head(<<u>> \o s) = u /\ Tail(<<u>> \o s) = s /\ <<u>> \o s \in Seq(S)
         /\ Len(<<u>> \o s) = 1 + Len(s)
<1>1. <<u>> = units(u, 1) /\ units(u, 0) = <<>>
  BY DEF units
<1>2. units(u, 1) \o s # <<>> /\ Head(units(u, 1) \o s) = u /\ Tail(units(u, 1) \o s) = units(u, 1 - 1) \o s
  BY NextUnit
<1>3. units(u, 1 - 1) \o s = s
  BY <1>1, ConcatEmptySeq
<1>4. <<u>> \in Seq(S) /\ Len(<<u>>) = 1
  OBVIOUS
<1> QED
  BY <1>1, <1>2, <1>3, <1>4, ConcatProperties

\* An answer to a control request: data only where there is a data stage.
Plausible(a, setup) ==
  /\ a.status \in {"OK", "EPIPE"} /\ a.n \in Nat
  /\ a.how \in {"data", "no_data"}
  /\ a.how = "data" => ~is_out(setup)
  /\ a.how = "no_data" => a.n = 0

\* The answers the handlers are made of are plausible ones.
LEMMA PlainAnswers ==
  /\ \A setup : Plausible(epipe, setup) /\ Plausible(broken, setup)
  /\ \A setup, status : status \in {"OK", "EPIPE"} => Plausible(no_data(status), setup)
  /\ \A setup, status, n : status \in {"OK", "EPIPE"} /\ n \in Nat /\ ~is_out(setup)
                             => Plausible(with_data(status, n), setup)
BY DEF Plausible, epipe, broken, no_data, with_data, answer

\* Every descriptor has a length, and it is cut to wLength.
LEMMA DescriptorsAre ==
  ASSUME NEW setup \in SetupPackets
  PROVE  /\ device_descriptor(setup) \in Nat
         /\ \A n \in Nat : upTo(setup.length, n) \in Nat
<1>1. \A kind : number_of(kind) \in Nat
  <2>1. ASSUME NEW kind PROVE number_of(kind) \in Nat
    <3>1. Len(InterfaceHandlers) \in Nat
      BY DeviceAssumption
    <3>2. IsFiniteSet(Interfaces)
      BY <3>1, FS_Interval DEF Interfaces
    <3>3. IsFiniteSet({i \in Interfaces : InterfaceHandlers[i] = kind})
      BY <3>2, FS_Subset
    <3> QED
      BY <3>3, FS_CardinalityType DEF number_of
  <2> QED
    BY <2>1
<1>2. get_configuration_descriptor \in Nat
  <2>1. Len(InterfaceHandlers) \in Nat /\ Len(Endpoints) \in Nat
    BY DeviceAssumption
  <2>2. number_of("hid") \in Nat /\ number_of("cdc_comm") \in Nat
    BY <1>1
  <2>3. class_specific_descriptor("hid") = 9 /\ class_specific_descriptor("cdc_comm") = 19
    BY DEF class_specific_descriptor
  <2> QED
    BY <2>1, <2>2, <2>3 DEF get_configuration_descriptor
<1>3. \A index : get_string_descriptor(index) \in Nat
  <2>1. \A index \in DOMAIN Strings : Strings[index] \in Nat
    BY DeviceAssumption
  <2>2. \A index \in DOMAIN Strings : 2 * (Strings[index] + 1) \in Nat
    BY <2>1
  <2> QED
    BY <2>2 DEF get_string_descriptor
<1>4. device_descriptor(setup) \in Nat
  BY <1>2, <1>3 DEF device_descriptor, get_device_descriptor, get_device_qualifier_descriptor,
     get_bos_descriptor
<1>5. setup.length \in Nat
  BY DEF SetupPackets
<1> QED
  BY <1>4, <1>5 DEF upTo

\* handle_control_urb: a plausible answer, or none to an endpoint that is neither
\* endpoint 0 nor one of an interface.
LEMMA ControlAnswers ==
  ASSUME NEW setup \in SetupPackets
  PROVE  \/ Plausible(handle_control_urb(setup), setup)
         \/ /\ handle_control_urb(setup) = none
            /\ setup.type = "standard" /\ setup.recipient = "endpoint"
            /\ ~Known(setup.index)
<1> DEFINE Good(a) == Plausible(a, setup)
<1>1. /\ Good(epipe) /\ Good(broken)
      /\ \A status \in {"OK", "EPIPE"} : Good(no_data(status))
      /\ ~is_out(setup) =>
           \A status \in {"OK", "EPIPE"} : \A n \in Nat : Good(with_data(status, n))
  BY PlainAnswers
<1> HIDE DEF Good
<1>2. device_descriptor(setup) \in Nat /\ \A n \in Nat : upTo(setup.length, n) \in Nat
  BY DescriptorsAre
<1>3. \A kind : request_status(kind, setup) \in {"OK", "EPIPE"}
  BY DEF request_status
<1>4. is_out(setup) => Good(device_request_out(setup))
  BY <1>1 DEF device_request_out
<1>5. ~is_out(setup) => Good(device_request_in(setup))
  <2>1. (CASE setup.request = "get_configuration" -> 1
           [] setup.request = "get_descriptor" -> upTo(setup.length, device_descriptor(setup))
           [] setup.request = "get_status" -> 2
           [] OTHER -> 0) \in Nat
    BY <1>2
  <2> QED
    BY <1>1, <2>1 DEF device_request_in
<1>6. \A kind : ~is_out(setup) => Good(interface_request_in(kind, setup))
  <2>1. ASSUME NEW kind
        PROVE  (CASE setup.request = "get_interface" -> 1
                  [] setup.request = "get_status" -> 2
                  [] setup.request = "get_descriptor" /\ kind = "hid" /\ setup.descriptor = "report" ->
                       upTo(setup.length, ReportDescriptor)
                  [] OTHER -> 0) \in Nat
    BY <1>2, DeviceAssumption
  <2> QED
    BY <1>1, <2>1 DEF interface_request_in
<1>7. Good(interface_request(setup))
  BY <1>1, <1>3, <1>6 DEF interface_request
<1>8. Known(setup.index) => Good(endpoint_request(setup))
  BY <1>1, <1>3 DEF endpoint_request, Known
<1>9. Good(hid_class_request(setup))
  BY <1>1 DEF hid_class_request
<1>10. Good(cdc_comm_class_request(setup))
  BY <1>1, <1>2 DEF cdc_comm_class_request
<1>11. Good(non_standard_interface_request(setup))
  BY <1>1, <1>9, <1>10 DEF non_standard_interface_request
<1>12. Good(non_standard_endpoint_request(setup))
  BY <1>1 DEF non_standard_endpoint_request
<1>13. ~Known(setup.index) => endpoint_request(setup) = none
  BY DEF endpoint_request, Known
<1>14. /\ setup.type \in {"standard", "class", "vendor"}
       /\ setup.recipient \in {"device", "interface", "endpoint", "other"}
  BY DEF SetupPackets
<1>15. CASE setup.recipient = "other"
  BY <1>1, <1>15 DEF handle_control_urb, Good
<1>16. CASE setup.recipient = "device"
  BY <1>1, <1>4, <1>5, <1>16 DEF handle_control_urb, Good
<1>17. CASE setup.recipient = "interface"
  BY <1>7, <1>11, <1>17 DEF handle_control_urb, Good
<1>18. CASE setup.recipient = "endpoint"
  BY <1>8, <1>12, <1>13, <1>18 DEF handle_control_urb, Good
<1> QED
  BY <1>14, <1>15, <1>16, <1>17, <1>18

\* An element of a sequence, by its index.
LEMMA ElementIs ==
  ASSUME NEW S, NEW s \in Seq(S), NEW i \in DOMAIN s PROVE s[i] \in S
OBVIOUS

\* dispatch_urb: data only for a request for data, a length without data only for one that
\* sent some, a queue only at an interface with a handler.
LEMMA UrbAnswers ==
  ASSUME NEW cmd, Legal(cmd), Known(cmd.ep)
  PROVE  LET a == dispatch_urb(cmd)
         IN  /\ a.how \in {"data", "no_data", "keep", "none"}
             /\ a.status \in {"OK", "EPIPE"} /\ a.n \in Nat
             /\ a.how = "none" => Unanswerable(cmd)
             /\ a.how = "keep" => /\ cmd.in /\ Endpoints[cmd.ep].interface \in Interfaces
                                  /\ HasHandler(Endpoints[cmd.ep].interface)
             /\ a.how = "data" => cmd.in
             /\ a.how = "no_data" /\ a.n > 0 => ~cmd.in
<1>1. cmd \in CommandRecords /\ cmd.setup \in SetupPackets /\ cmd.length \in Nat /\ cmd.in \in BOOLEAN
  BY DEF Legal, CommandRecords
<1>2. CASE cmd.ep = Ep0
  <2>1. ~is_out(cmd.setup) => cmd.in
    BY <1>2 DEF Legal
  <2>2. dispatch_urb(cmd) = handle_control_urb(cmd.setup)
    BY <1>2 DEF dispatch_urb
  <2>3. CASE Plausible(handle_control_urb(cmd.setup), cmd.setup)
    BY <2>1, <2>2, <2>3 DEF Plausible
  <2>4. CASE /\ handle_control_urb(cmd.setup) = none
             /\ cmd.setup.type = "standard" /\ cmd.setup.recipient = "endpoint"
             /\ ~Known(cmd.setup.index)
    BY <1>2, <2>2, <2>4 DEF none, answer, Unanswerable
  <2> QED
    BY <1>1, <2>3, <2>4, ControlAnswers
<1>3. CASE cmd.ep # Ep0
  <2> DEFINE ep == Endpoints[cmd.ep]
             kind == InterfaceHandlers[ep.interface]
  <2>1. cmd.ep \in DOMAIN Endpoints
    BY <1>3 DEF Known
  <2>2. ep.type \in {"bulk", "interrupt", "isochronous"} /\ ep.interface \in Interfaces
    <3>1. ep \in [type : {"bulk", "interrupt", "isochronous"}, interface : Interfaces]
      BY <2>1, DeviceAssumption, ElementIs
    <3> QED
      BY <3>1
  <2>3. dispatch_urb(cmd) = CASE ep.type = "bulk" -> handle_bulk_transfer(kind, cmd)
                              [] ep.type = "interrupt" -> handle_interrupt_transfer(kind, cmd)
                              [] ep.type = "isochronous" -> handle_isochronous_transfer(kind, cmd)
    BY <1>3 DEF dispatch_urb
  <2> DEFINE Good(a) ==
        /\ a.how \in {"no_data", "keep"} /\ a.status \in {"OK", "EPIPE"} /\ a.n \in Nat
        /\ a.how = "keep" => cmd.in /\ kind # "none"
        /\ a.how = "no_data" /\ a.n > 0 => ~cmd.in
  <2>4. Good(epipe)
    BY DEF epipe, no_data, answer
  <2>5. ~cmd.in => Good(answer("no_data", "OK", cmd.length, FALSE))
    BY <1>1 DEF answer
  <2>6. cmd.in /\ kind # "none" => Good(keep)
    BY DEF keep, answer
  <2> HIDE DEF Good
  <2>7. Good(handle_bulk_transfer(kind, cmd))
    BY <1>1, <2>4, <2>5, <2>6 DEF handle_bulk_transfer
  <2>8. Good(handle_interrupt_transfer(kind, cmd))
    BY <1>1, <2>4, <2>5, <2>6 DEF handle_interrupt_transfer
  <2>9. Good(handle_isochronous_transfer(kind, cmd))
    BY <1>1, <2>4, <2>6 DEF handle_isochronous_transfer
  <2>10. Good(dispatch_urb(cmd))
    BY <2>2, <2>3, <2>7, <2>8, <2>9
  <2> QED
    BY <2>2, <2>10 DEF Good, HasHandler
<1> QED
  BY <1>2, <1>3

\* Where the client looks for the next device, in the definition of ClientReadsOp.
NextDevice(reply, k) == IF k > Len(reply) THEN k ELSE k + 1 + reply[k].interfaces
\* FlattenSeq of two sequences is the one and then the other.
LEMMA FlattenPair ==
  ASSUME NEW a, NEW b
  PROVE  FlattenSeq(<<a, b>>) = a \o b
<1> DEFINE s == <<a, b>>
           F(f) == f = [i \in 1 .. Len(s) |-> IF i = 1 THEN s[i] ELSE f[i - 1] \o s[i]]
           w == [i \in 1 .. Len(s) |-> IF i = 1 THEN a ELSE a \o b]
           g == CHOOSE f : F(f)
<1>0. Len(s) = 2 /\ s[1] = a /\ s[2] = b
  OBVIOUS
<1>1. FlattenSeq(s) = g[Len(s)]
  BY <1>0 DEF FlattenSeq
<1> HIDE DEF s
<1>2. F(w)
  <2>1. ASSUME NEW i \in 1 .. Len(s)
        PROVE  w[i] = IF i = 1 THEN s[i] ELSE w[i - 1] \o s[i]
    <3>1. i \in {1, 2}
      BY <1>0
    <3>2. w[1] = a /\ w[2] = a \o b
      BY <1>0
    <3> QED
      BY <1>0, <3>1, <3>2
  <2> QED
    BY <2>1
<1>3. F(g)
  BY <1>2
<1> HIDE DEF g
<1>4. g[1] = a /\ g[2] = g[1] \o b
  <2> DEFINE e(i) == IF i = 1 THEN s[i] ELSE g[i - 1] \o s[i]
  <2>1. g = [i \in 1 .. 2 |-> e(i)]
    BY <1>0, <1>3
  <2>2. e(1) = a /\ e(2) = g[1] \o b
    BY <1>0
  <2> HIDE DEF e
  <2>3. g[1] = e(1) /\ g[2] = e(2)
    BY <2>1
  <2> QED
    BY <2>2, <2>3
<1> QED
  BY <1>0, <1>1, <1>4 DEF s, g
\* Where the client has got to after the devices its list announces.
LEMMA ClientSkips ==
  ASSUME NEW reply, Head(reply).kind = "OP_REP_DEVLIST", NEW w,
         w = [n \in Nat |-> IF n = 0 THEN 2 ELSE NextDevice(reply, w[n - 1])]
  PROVE  /\ Head(reply).count = 0 => ClientReadsOp(reply) = 1
         /\ Head(reply).count = 2 =>
              ClientReadsOp(reply) = NextDevice(reply, NextDevice(reply, 2)) - 1
<1> DEFINE F(f) == f = [n \in Nat |-> IF n = 0 THEN 2 ELSE NextDevice(reply, f[n - 1])]
           g == CHOOSE f : F(f)
           e(n) == IF n = 0 THEN 2 ELSE NextDevice(reply, g[n - 1])
<1>1. ClientReadsOp(reply) = g[Head(reply).count] - 1
  BY DEF ClientReadsOp, NextDevice
<1>2. F(g)
  BY Zenon
<1>3. g = [n \in Nat |-> e(n)]
  BY <1>2
<1> HIDE DEF g
<1>4. e(0) = 2 /\ e(1) = NextDevice(reply, g[0]) /\ e(2) = NextDevice(reply, g[1])
  OBVIOUS
<1> HIDE DEF e
<1>5. g[0] = e(0) /\ g[1] = e(1) /\ g[2] = e(2)
  BY <1>3
<1>6. g[0] = 2 /\ g[2] = NextDevice(reply, NextDevice(reply, 2))
  BY <1>4, <1>5
<1> QED
  BY <1>1, <1>6

\* OP_REP_DEVLIST without devices is read to its end.
LEMMA EmptyListIsRead == ClientReadsOp(OpRepDevlist(<<>>)) = Len(OpRepDevlist(<<>>))
<1> DEFINE header == [kind |-> "OP_REP_DEVLIST", count |-> 0]
           reply == OpRepDevlist(<<>>)
           w == [n \in Nat |-> 2]
<1>1. reply = <<header>>
  <2>1. FlattenSeq(<<>>) = <<>>
    BY DEF FlattenSeq
  <2>2. [k \in DOMAIN <<>> |-> to_bytes_with_interfaces(<<>>[k])] = <<>>
    OBVIOUS
  <2> QED
    <3>1. reply = <<[kind |-> "OP_REP_DEVLIST", count |-> Len(<<>>)]>> \o <<>>
      BY <2>1, <2>2 DEF OpRepDevlist
    <3>2. Len(<<>>) = 0
      OBVIOUS
    <3> QED
      BY <3>1, <3>2
<1>2. Len(reply) = 1 /\ Head(reply) = header
  BY <1>1
<1> HIDE DEF reply
<1>3. w = [n \in Nat |-> IF n = 0 THEN 2 ELSE NextDevice(reply, w[n - 1])]
  <2>1. ASSUME NEW n \in Nat PROVE w[n] = IF n = 0 THEN 2 ELSE NextDevice(reply, w[n - 1])
    <3>1. NextDevice(reply, 2) = 2
      BY <1>2 DEF NextDevice
    <3>2. n # 0 => w[n - 1] = 2
      OBVIOUS
    <3> QED
      BY <3>1, <3>2
  <2> QED
    BY <2>1
<1>4. header.kind = "OP_REP_DEVLIST" /\ header.count = 0
  OBVIOUS
<1> HIDE DEF w
<1> QED
  BY <1>2, <1>3, <1>4, ClientSkips DEF reply

\* OP_REP_DEVLIST with two devices and their interfaces is read to its end.
LEMMA ListIsRead ==
  ASSUME NEW L \in Nat
  PROVE  ClientReadsOp(OpRepDevlist(<<L, 1>>)) = Len(OpRepDevlist(<<L, 1>>))
<1> DEFINE header == [kind |-> "OP_REP_DEVLIST", count |-> 2]
           iface == [kind |-> "interface"]
           S == {header, Device(L), Device(1), iface}
           one == units(iface, L)
           first == to_bytes_with_interfaces(L)
           second == to_bytes_with_interfaces(1)
           devices == first \o second
           reply == OpRepDevlist(<<L, 1>>)
<1>1. reply = <<header>> \o devices
  <2>1. [k \in DOMAIN <<L, 1>> |-> to_bytes_with_interfaces(<<L, 1>>[k])] = <<first, second>>
    OBVIOUS
  <2>2. Len(<<L, 1>>) = 2
    OBVIOUS
  <2> QED
    BY <2>1, <2>2, FlattenPair DEF OpRepDevlist
<1>2. first \in Seq(S) /\ Len(first) = 1 + L /\ first[1] = Device(L)
  <2>1. one \in Seq(S) /\ Len(one) = L
    BY UnitsAre
  <2>2. first = <<Device(L)>> \o one
    BY DEF to_bytes_with_interfaces
  <2>3. Device(L) \in S
    OBVIOUS
  <2> HIDE DEF S, first, one
  <2>4. first # <<>> /\ Head(first) = Device(L) /\ first \in Seq(S) /\ Len(first) = 1 + Len(one)
    BY <2>1, <2>2, <2>3, HeaderFirst
  <2> QED
    BY <2>1, <2>4
<1>3. second \in Seq(S) /\ Len(second) = 2 /\ second[1] = Device(1)
  <2>1. units(iface, 1) \in Seq(S) /\ Len(units(iface, 1)) = 1
    BY UnitsAre
  <2>2. second = <<Device(1)>> \o units(iface, 1)
    BY DEF to_bytes_with_interfaces
  <2>3. Device(1) \in S
    OBVIOUS
  <2> HIDE DEF S, second
  <2>4. second # <<>> /\ Head(second) = Device(1) /\ second \in Seq(S)
        /\ Len(second) = 1 + Len(units(iface, 1))
    BY <2>1, <2>2, <2>3, HeaderFirst
  <2> QED
    <3>1. Len(second) = 2
      <4> DEFINE n == Len(units(iface, 1))
      <4>1. n = 1 /\ Len(second) = 1 + n
        BY <2>1, <2>4
      <4> HIDE DEF n
      <4> QED
        BY <4>1
    <3>2. second[1] = Head(second)
      BY <2>4, <3>1
    <3> QED
      BY <2>4, <3>1, <3>2
<1>4. header \in S
  OBVIOUS
<1> HIDE DEF S, first, second
<1>5. /\ devices \in Seq(S) /\ Len(devices) = Len(first) + Len(second)
      /\ \A i \in 1 .. Len(first) + Len(second) :
           devices[i] = IF i <= Len(first) THEN first[i] ELSE second[i - Len(first)]
  BY <1>2, <1>3, ConcatProperties
<1>6. Len(devices) = L + 3 /\ devices[1] = Device(L) /\ devices[L + 2] = Device(1)
  <2>1. Len(devices) = L + 3
    BY <1>2, <1>3, <1>5
  <2>2. devices[1] = first[1]
    BY <1>2, <1>3, <1>5
  <2>3. devices[L + 2] = second[1]
    BY <1>2, <1>3, <1>5
  <2> QED
    BY <1>2, <1>3, <2>1, <2>2, <2>3
<1> HIDE DEF devices, reply
<1>7. reply # <<>> /\ Head(reply) = header /\ Tail(reply) = devices /\ reply \in Seq(S)
      /\ Len(reply) = 1 + Len(devices)
  BY <1>1, <1>4, <1>5, HeaderFirst
<1>8. \A i \in 1 .. Len(reply) - 1 : Tail(reply)[i] = reply[i + 1]
  BY <1>7, TailIs
<1>9. Len(reply) = L + 4 /\ reply[2] = Device(L) /\ reply[L + 3] = Device(1)
  <2>1. Len(reply) = L + 4
    BY <1>6, <1>7
  <2>2. 1 \in 1 .. Len(reply) - 1 /\ L + 2 \in 1 .. Len(reply) - 1
    BY <2>1
  <2>3. devices[1] = reply[1 + 1] /\ devices[L + 2] = reply[(L + 2) + 1]
    BY <1>7, <1>8, <2>2
  <2>4. (L + 2) + 1 = L + 3
    OBVIOUS
  <2> QED
    BY <1>6, <2>1, <2>3, <2>4
<1>10. NextDevice(reply, 2) = L + 3 /\ NextDevice(reply, L + 3) = L + 5
       /\ NextDevice(reply, L + 5) = L + 5
  BY <1>9 DEF NextDevice, Device
<1> DEFINE w == [n \in Nat |-> IF n = 0 THEN 2 ELSE IF n = 1 THEN L + 3 ELSE L + 5]
<1>11. w = [n \in Nat |-> IF n = 0 THEN 2 ELSE NextDevice(reply, w[n - 1])]
  <2>1. ASSUME NEW n \in Nat PROVE w[n] = IF n = 0 THEN 2 ELSE NextDevice(reply, w[n - 1])
    <3>1. w[0] = 2 /\ w[1] = L + 3
      OBVIOUS
    <3>2. CASE n = 0 \/ n = 1
      BY <1>10, <3>1, <3>2
    <3>3. CASE n = 2
      BY <1>10, <3>1, <3>3
    <3>4. CASE n > 2
      <4>1. w[n] = L + 5 /\ w[n - 1] = L + 5 /\ n # 0
        BY <3>4
      <4> QED
        BY <1>10, <4>1
    <3> QED
      BY <3>2, <3>3, <3>4
  <2> QED
    BY <2>1
<1>12. header.kind = "OP_REP_DEVLIST" /\ header.count = 2
  OBVIOUS
<1> HIDE DEF w, header
<1>13. ClientReadsOp(reply) = NextDevice(reply, NextDevice(reply, 2)) - 1
  BY <1>7, <1>11, <1>12, ClientSkips
<1> QED
  BY <1>9, <1>10, <1>13 DEF reply

\* usbip's tools read exactly the reply to OP_REQ_IMPORT and OP_REQ_DEVLIST.
LEMMA RepliesAreRead ==
  ASSUME NEW req, NEW reply \in Replies(req), reply # <<>>
  PROVE  ClientReadsOp(reply) = Len(reply)
<1> DEFINE L == Len(InterfaceHandlers)
<1>1. L \in Nat
  BY DeviceAssumption
<1>2. \/ reply = OpRepDevlist(<<>>) \/ reply = OpRepDevlist(<<L, 1>>)
      \/ \E status \in {"OK", "NA", "NoDev"} : reply = OpRepImport(status, L)
  BY DEF Replies
<1>3. ASSUME NEW status \in {"OK", "NA", "NoDev"}, reply = OpRepImport(status, L)
      PROVE  ClientReadsOp(reply) = Len(reply)
  <2> DEFINE header == [kind |-> "OP_REP_IMPORT", status |-> status]
  <2>1. CASE status = "OK"
    <3>1. reply = <<header>> \o <<Device(L)>>
      BY <1>3, <2>1 DEF OpRepImport
    <3>2. Len(reply) = 2 /\ Head(reply) = header
      BY <3>1
    <3> QED
      BY <2>1, <3>2 DEF ClientReadsOp
  <2>2. CASE status # "OK"
    <3>1. reply = <<header>> \o <<>>
      BY <1>3, <2>2 DEF OpRepImport
    <3>2. Len(reply) = 1 /\ Head(reply) = header
      BY <3>1
    <3> QED
      BY <2>2, <3>2 DEF ClientReadsOp
  <2> QED
    BY <2>1, <2>2
<1> QED
  BY <1>1, <1>2, <1>3, EmptyListIsRead, ListIsRead

\* Steps that send nothing, and leave of what was sent all or nothing to read.
LEMMA SameCommands ==
  ASSUME CommandsInv, commands' = commands, to_device' \in {to_device, <<>>},
         phase' = "op" => phase = "op"
  PROVE  CommandsInv' /\ (\A ret : Agrees(ret)' <=> Agrees(ret))
<1>1. CASE to_device' = to_device
  BY <1>1 DEF CommandsInv, CommandUnits, Agrees
<1>2. CASE to_device' = <<>>
  <2>1. <<>> \in Seq(CommandRecords \cup {Byte, Packet})
    OBVIOUS
  <2> QED
    BY <1>2, <2>1 DEF CommandsInv, Agrees
<1> QED
  BY <1>1, <1>2

\* Steps that put nothing on the stream and take nothing off it.
LEMMA SameSteps ==
  ASSUME StepInv, \A ret : Agrees(ret) => Agrees(ret)', UNCHANGED <<writing, in_step, expect, mishaps>>
  PROVE  StepInv'
BY DEF StepInv, AtHeader, InBody

\* get_cmd_from_socket returns a CMD_SUBMIT only with all of its data and descriptors.
LEMMA SubmitIsRead ==
  ASSUME NEW stream, NEW closed, stream # <<>>, Head(stream).kind = "CMD_SUBMIT",
         Head(stream).length \in Nat,
         get_cmd_from_socket(stream, closed).result \in {"submit", "unlink"}
  PROVE  LET needs == 1 + submit_from_socket(Head(stream))
         IN  get_cmd_from_socket(stream, closed) =
               [result |-> "submit", rest |-> SubSeq(stream, needs + 1, Len(stream)),
                allocated |-> TRUE]
<1> DEFINE read == get_cmd_from_socket(stream, closed)
           needs == 1 + submit_from_socket(Head(stream))
           short == [result |-> IF closed THEN "SOCKET_EOF" ELSE "wait", rest |-> stream, allocated |-> TRUE]
           all == [result |-> "submit", rest |-> SubSeq(stream, needs + 1, Len(stream)), allocated |-> TRUE]
<1>1. Head(stream).length > MaxTransfer \/ Head(stream).length <= MaxTransfer
  BY ProtocolAssumption
<1>2. CASE Head(stream).length > MaxTransfer
  <2>1. ~(Head(stream).length <= MaxTransfer)
    BY <1>2, ProtocolAssumption
  <2>2. read = [result |-> "SOCKET_ERR", rest |-> <<>>, allocated |-> FALSE]
    BY <1>2, <2>1 DEF get_cmd_from_socket
  <2> QED
    BY <2>2
<1>3. CASE Head(stream).length <= MaxTransfer
  <2>1. ~(Head(stream).length > MaxTransfer)
    BY <1>3, ProtocolAssumption
  <2>2. read = IF Len(stream) < needs THEN short ELSE all
    BY <1>3, <2>1 DEF get_cmd_from_socket
  <2>3. short.result \notin {"submit", "unlink"}
    OBVIOUS
  <2> HIDE DEF all, short, read
  <2>4. read = all
    BY <2>2, <2>3 DEF read
  <2> QED
    BY <2>4 DEF read, all
<1> QED
  BY <1>1, <1>2, <1>3

\* The command the receiver has read is the last one sent, and nothing of it is left over.
LEMMA CommandRead ==
  ASSUME CommandsInv, Read.result \in {"submit", "unlink"}
  PROVE  /\ Len(commands) \in Nat \ {0} /\ Submitted = commands[Len(commands)]
         /\ Legal(Submitted) /\ Submitted.seqnum = Len(commands)
         /\ to_device # <<>> /\ Read.rest = <<>>
         /\ Read.result = "submit" => Submitted.kind = "CMD_SUBMIT"
         /\ Read.result = "unlink" => Submitted.kind = "CMD_UNLINK"
<1>1. to_device # <<>>
  BY DEF Read, get_cmd_from_socket
<1>2. /\ commands \in Seq(CommandRecords) /\ commands # <<>>
      /\ Submitted = commands[Len(commands)] /\ Len(to_device) <= CommandUnits
      /\ to_device \in Seq(CommandRecords \cup {Byte, Packet})
  BY <1>1 DEF CommandsInv, Submitted
<1>3. Len(commands) \in Nat \ {0} /\ Legal(Submitted) /\ Submitted.seqnum = Len(commands)
  BY <1>2 DEF CommandsInv
<1>4. Submitted.kind \in {"CMD_SUBMIT", "CMD_UNLINK", "CMD_OTHER"} /\ submit_from_socket(Submitted) \in Nat
  BY <1>3 DEF Legal, CommandRecords, submit_from_socket, num_iso
<1>5. CASE Submitted.kind = "CMD_UNLINK"
  <2>1. Read.result = "unlink" /\ Read.rest = Tail(to_device)
    BY <1>1, <1>5 DEF Read, get_cmd_from_socket, Submitted
  <2>2. CommandUnits = 1
    BY <1>5 DEF CommandUnits, Submitted
  <2>3. Len(to_device) \in Nat /\ Len(to_device) <= 1 /\ Len(to_device) # 0
    BY <1>1, <1>2, <2>2
  <2>4. /\ Tail(to_device) \in Seq(CommandRecords \cup {Byte, Packet})
        /\ Len(Tail(to_device)) = Len(to_device) - 1
    BY <1>1, <1>2, TailIs
  <2>5. Len(Tail(to_device)) = 0
    BY <2>3, <2>4
  <2>6. Tail(to_device) = <<>>
    BY <2>4, <2>5, EmptySeq
  <2> QED
    BY <1>1, <1>2, <1>3, <1>5, <2>1, <2>6
<1>6. CASE Submitted.kind = "CMD_SUBMIT"
  <2> DEFINE needs == 1 + submit_from_socket(Submitted)
  <2>0. Submitted.length \in Nat
    BY <1>3 DEF Legal, CommandRecords
  <2>1. Read.result = "submit" /\ Read.rest = SubSeq(to_device, needs + 1, Len(to_device))
    <3>1. Read = [result |-> "submit", rest |-> SubSeq(to_device, needs + 1, Len(to_device)),
                  allocated |-> TRUE]
      BY <1>1, <1>6, <2>0, SubmitIsRead DEF Read, Submitted
    <3> QED
      BY <3>1
  <2>2. CommandUnits = needs
    BY <1>6 DEF CommandUnits, Submitted
  <2>3. Len(to_device) \in Nat /\ needs \in Nat /\ Len(to_device) < needs + 1
    BY <1>2, <1>4, <2>2
  <2>4. Read.rest = <<>>
    BY <2>1, <2>3, SubSeqEmpty
  <2> QED
    BY <1>1, <1>2, <1>3, <1>6, <2>1, <2>4
<1>7. CASE Submitted.kind = "CMD_OTHER"
  BY <1>1, <1>7 DEF Read, get_cmd_from_socket, Submitted
<1> QED
  BY <1>4, <1>5, <1>6, <1>7

\* A session in which nothing was sent yet.
LEMMA StreamStart == StreamInit => StreamInv
<1> SUFFICES ASSUME StreamInit PROVE StreamInv
  OBVIOUS
<1> USE DEF StreamInit
<1>1. CommandsInv
  <2>1. <<>> \in Seq(CommandRecords) /\ <<>> \in Seq(CommandRecords \cup {Byte, Packet}) /\ Len(<<>>) = 0
    OBVIOUS
  <2> QED
    BY <2>1 DEF CommandsInv
<1>2. WaitingInv
  <2>1. <<>> \in Seq(Nat) /\ <<>> \in Seq(Responses) /\ Len(<<>>) = 0
    OBVIOUS
  <2> QED
    BY <2>1 DEF WaitingInv
<1>3. CareInv
  BY DEF CareInv
<1>4. StepInv
  <2>1. units(Byte, 0) = <<>> /\ units(Packet, 0) = <<>> /\ <<>> \o <<>> = <<>>
    BY DEF units
  <2>2. InBody
    BY <2>1 DEF InBody
  <2> QED
    BY <2>2 DEF StepInv
<1> QED
  BY <1>1, <1>2, <1>3, <1>4 DEF StreamInv

\* parse_op: nothing was sent, and the reply is read to its end.
LEMMA StreamOp ==
  ASSUME StreamInv, NEW req, parse_op(req)
  PROVE  StreamInv'
<1> USE DEF StreamInv
<1>1. PICK reply \in Replies(req) :
         /\ phase' = IF reply # <<>> /\ reply = OpRepImport("OK", Len(InterfaceHandlers))
                     THEN "receiving" ELSE "closed"
         /\ in_step' = (reply = <<>> \/ ClientReadsOp(reply) = Len(reply))
  BY DEF parse_op
<1>2. /\ phase = "op" /\ phase' \in {"receiving", "closed"}
      /\ attached' = IF phase' = "receiving" THEN on_new_connection ELSE {}
      /\ UNCHANGED <<csHost, requests, write_buffer, writing, expect, mishaps>>
  BY <1>1 DEF parse_op, csSender
<1>3. in_step'
  <2>1. reply # <<>> => ClientReadsOp(reply) = Len(reply)
    BY <1>1, RepliesAreRead
  <2> QED
    BY <1>1, <2>1
<1>4. commands = <<>> /\ to_device = <<>>
  BY <1>2 DEF CommandsInv
<1>5. CommandsInv' /\ (\A ret : Agrees(ret)' <=> Agrees(ret))
  BY <1>2, SameCommands DEF csHost
<1>6. WaitingInv'
  BY <1>2, <1>5 DEF WaitingInv, csHost, on_new_connection
<1>7. CareInv'
  BY <1>2, <1>4 DEF CareInv, csHost
<1>8. StepInv'
  BY <1>2, <1>3, <1>5 DEF StepInv, AtHeader, InBody
<1> QED
  BY <1>5, <1>6, <1>7, <1>8

\* to_bytes: the command, then as many units as from_socket reads after it.
LEMMA CommandBytes ==
  ASSUME NEW cmd \in CommandRecords
  PROVE  /\ to_bytes(cmd) \in Seq(CommandRecords \cup {Byte, Packet})
         /\ to_bytes(cmd) # <<>> /\ Head(to_bytes(cmd)) = cmd
         /\ Len(to_bytes(cmd)) = 1 + (IF cmd.kind = "CMD_SUBMIT" THEN submit_from_socket(cmd) ELSE 0)
<1> DEFINE S == CommandRecords \cup {Byte, Packet}
           n == IF cmd.in THEN 0 ELSE cmd.length
           p == num_iso(cmd.packets)
           b == units(Byte, n)
           q == units(Packet, p)
<1>1. n \in Nat /\ p \in Nat
  BY DEF CommandRecords, num_iso
<1>2. Byte \in S /\ Packet \in S /\ cmd \in S
  OBVIOUS
<1> HIDE DEF S, n, p
<1>3. b \in Seq(S) /\ Len(b) = n /\ q \in Seq(S) /\ Len(q) = p
  BY <1>1, <1>2, UnitsAre
<1> HIDE DEF b, q
<1>4. b \o q \in Seq(S) /\ Len(b \o q) = n + p
  BY <1>3, ConcatProperties
<1>5. CASE cmd.kind = "CMD_SUBMIT"
  <2>1. <<cmd>> \in Seq(S)
    BY <1>2
  <2>2. to_bytes(cmd) = <<cmd>> \o b \o q
    BY <1>5 DEF to_bytes, cmd_submit_to_bytes, b, q, n, p
  <2>3. to_bytes(cmd) = <<cmd>> \o (b \o q)
    BY <1>3, <2>1, <2>2, ConcatAssociative
  <2>4. submit_from_socket(cmd) = n + p
    BY DEF submit_from_socket, n, p
  <2> QED
    BY <1>2, <1>4, <1>5, <2>3, <2>4, HeaderFirst DEF S
<1>6. CASE cmd.kind # "CMD_SUBMIT"
  <2>1. to_bytes(cmd) = <<cmd>>
    BY <1>6 DEF to_bytes, cmd_unlink_to_bytes
  <2> QED
    BY <1>2, <1>6, <2>1 DEF S
<1> QED
  BY <1>5, <1>6

\* The client sends a command: the others keep their numbers.
LEMMA StreamHost ==
  ASSUME StreamInv, NEW c \in Commands, HostSends(c)
  PROVE  StreamInv'
<1> USE DEF StreamInv
<1> DEFINE N == Len(commands)
           cmd == [c EXCEPT !.seqnum = N + 1]
<1>1. /\ commands' = Append(commands, cmd) /\ to_device' = to_bytes(cmd) /\ to_device = <<>>
      /\ phase = "receiving" /\ phase' = phase
      /\ UNCHANGED <<peer_closed, csDevice, write_buffer, done, writing, expect, in_step, mishaps>>
  BY DEF HostSends, csSender, csClient
<1>2. commands \in Seq(CommandRecords) /\ N \in Nat
  BY DEF CommandsInv
<1>3. Legal(c)
  BY StreamAssumption DEF Legal
<1>4. cmd \in CommandRecords /\ cmd.ep = c.ep /\ cmd.setup = c.setup /\ cmd.in = c.in /\ cmd.seqnum = N + 1
  <2>1. c \in CommandRecords /\ N + 1 \in Nat
    BY <1>2, <1>3 DEF Legal
  <2>2. cmd \in CommandRecords
    BY <2>1, Zenon DEF CommandRecords
  <2>3. DOMAIN c = {"kind", "seqnum", "ep", "in", "length", "packets", "setup", "target"}
    BY <2>1 DEF CommandRecords
  <2>4. cmd.ep = c.ep /\ cmd.setup = c.setup /\ cmd.in = c.in /\ cmd.seqnum = N + 1
    BY <2>3
  <2> QED
    BY <2>2, <2>4
<1> HIDE DEF cmd
<1>5. Legal(cmd)
  BY <1>3, <1>4 DEF Legal
<1>6. /\ commands' \in Seq(CommandRecords) /\ Len(commands') = N + 1
      /\ \A k \in 1 .. N : commands'[k] = commands[k]
      /\ commands'[N + 1] = cmd
  BY <1>1, <1>2, <1>4, AppendIs
<1> HIDE DEF N
<1>7. CommandsInv'
  <2>1. \A n \in 1 .. Len(commands') : Legal(commands'[n]) /\ commands'[n].seqnum = n
    <3>1. ASSUME NEW n \in 1 .. Len(commands')
          PROVE  Legal(commands'[n]) /\ commands'[n].seqnum = n
      <4>1. CASE n \in 1 .. N
        <5>1. Legal(commands[n]) /\ commands[n].seqnum = n
          BY <4>1 DEF CommandsInv, N
        <5> QED
          BY <1>6, <4>1, <5>1
      <4>2. CASE n = N + 1
        BY <1>4, <1>5, <1>6, <4>2
      <4> QED
        BY <1>2, <1>6, <3>1, <4>1, <4>2
    <3> QED
      BY <3>1
  <2>2. /\ to_device' \in Seq(CommandRecords \cup {Byte, Packet}) /\ Head(to_device') = cmd
        /\ Len(to_device') = 1 + (IF cmd.kind = "CMD_SUBMIT" THEN submit_from_socket(cmd) ELSE 0)
    BY <1>1, <1>4, CommandBytes
  <2>3. Len(to_device') = CommandUnits' /\ Len(to_device') <= CommandUnits'
    BY <2>2 DEF CommandUnits
  <2>4. commands' # <<>> /\ Head(to_device') = commands'[Len(commands')]
    BY <1>2, <1>6, <2>2
  <2>5. phase' # "op"
    BY <1>1
  <2> QED
    BY <1>6, <2>1, <2>2, <2>3, <2>4, <2>5 DEF CommandsInv, Legal
<1>8. \A ret : Agrees(ret) => Agrees(ret)'
  <2> SUFFICES ASSUME NEW ret, Agrees(ret), ret.kind = "RET_SUBMIT"
               PROVE  Agrees(ret)'
    BY DEF Agrees, Responses
  <2>1. ret.seqnum \in 1 .. N
    BY DEF Agrees, N
  <2>2. ret.seqnum \in 1 .. N + 1 /\ commands'[ret.seqnum] = commands[ret.seqnum]
    BY <1>2, <1>6, <2>1
  <2> QED
    BY <1>6, <2>2 DEF Agrees, Responses
<1>9. WaitingInv'
  <2>1. \A i \in Interfaces : \A k \in 1 .. Len(requests[i]) :
          requests[i][k] \in 1 .. N + 1 /\ commands'[requests[i][k]].in
    <3>1. ASSUME NEW i \in Interfaces, NEW k \in 1 .. Len(requests[i])
          PROVE  requests[i][k] \in 1 .. N + 1 /\ commands'[requests[i][k]].in
      <4>1. requests[i][k] \in 1 .. N /\ commands[requests[i][k]].in
        BY DEF WaitingInv, N
      <4> QED
        BY <1>2, <1>6, <4>1
    <3> QED
      BY <3>1
  <2> QED
    BY <1>1, <1>6, <1>8, <2>1 DEF WaitingInv, csDevice, on_new_connection
<1>10. CareInv'
  <2> SUFFICES ASSUME ~peer_closed, NEW n \in 1 .. N, n # N + 1
               PROVE  TakenCareOf(n)'
    <3>1. \A n \in 1 .. N + 1 : n \in 1 .. N \/ n = N + 1
      BY <1>2
    <3>2. to_device' # <<>>
      BY <1>1, <1>4, CommandBytes
    <3> QED
      BY <1>1, <1>2, <1>6, <3>1, <3>2 DEF CareInv
  <2>1. TakenCareOf(n)
    BY <1>1 DEF CareInv, N
  <2>2. commands'[n] = commands[n]
    BY <1>6
  <2> QED
    BY <1>1, <2>1, <2>2 DEF TakenCareOf, csDevice, Unanswerable
<1>11. StepInv'
  BY <1>1, <1>8, SameSteps
<1> QED
  BY <1>7, <1>9, <1>10, <1>11

\* The client closes: the receiver finds the first part of the last command.
LEMMA StreamCloses ==
  ASSUME StreamInv, PeerCloses
  PROVE  StreamInv'
<1> USE DEF StreamInv
<1>1. /\ peer_closed' /\ phase = "receiving" /\ phase' = phase
      /\ UNCHANGED <<commands, csDevice, write_buffer, writing, expect, in_step, mishaps>>
  BY DEF PeerCloses, csSender, csClient
<1>2. PICK n \in 0 .. Len(to_device) : to_device' = SubSeq(to_device, 1, n)
  BY DEF PeerCloses
<1> DEFINE S == CommandRecords \cup {Byte, Packet}
<1>3. to_device \in Seq(S) /\ Len(to_device) \in Nat
  BY DEF CommandsInv
<1> HIDE DEF S
<1>4. /\ to_device' \in Seq(S) /\ Len(to_device') = n
      /\ \A k \in 1 .. n : to_device'[k] = to_device[k]
  <2>1. n \in Nat /\ n <= Len(to_device)
    BY <1>3
  <2> QED
    BY <1>2, <1>3, <2>1, SubSeqProperties
<1>5. CommandsInv'
  <2>1. to_device' # <<>> =>
          /\ commands' # <<>> /\ Head(to_device') = commands'[Len(commands')]
          /\ Len(to_device') <= CommandUnits'
    <3> SUFFICES ASSUME to_device' # <<>>
                 PROVE  /\ commands' # <<>> /\ Head(to_device') = commands'[Len(commands')]
                        /\ Len(to_device') <= CommandUnits'
      OBVIOUS
    <3>1. n \in Nat \ {0}
      BY <1>4
    <3>2. to_device # <<>> /\ Head(to_device') = Head(to_device)
      <4>1. Len(to_device) # 0 /\ 1 \in 1 .. n
        BY <1>3, <3>1
      <4>2. to_device # <<>>
        BY <1>3, <4>1
      <4>3. Head(to_device) = to_device[1] /\ Head(to_device') = to_device'[1]
        BY <1>3, <1>4, <4>2
      <4> QED
        BY <1>4, <4>1, <4>2, <4>3
    <3>3. /\ commands # <<>> /\ Head(to_device) = commands[Len(commands)]
          /\ Len(to_device) <= CommandUnits /\ Legal(Head(to_device))
      <4>1. /\ commands # <<>> /\ Head(to_device) = commands[Len(commands)]
            /\ Len(to_device) <= CommandUnits
        BY <3>2 DEF CommandsInv
      <4>2. Len(commands) \in 1 .. Len(commands)
        BY <4>1 DEF CommandsInv
      <4> QED
        BY <4>1, <4>2 DEF CommandsInv
    <3>4. CommandUnits' = CommandUnits /\ CommandUnits \in Nat
      BY <3>2, <3>3 DEF CommandUnits, Legal, CommandRecords, submit_from_socket, num_iso
    <3>5. Len(to_device') <= CommandUnits
      BY <1>3, <1>4, <3>3, <3>4
    <3> QED
      BY <1>1, <3>2, <3>3, <3>4, <3>5
  <2> QED
    BY <1>1, <1>4, <2>1 DEF CommandsInv, S
<1>6. WaitingInv'
  BY <1>1 DEF WaitingInv, Agrees, csDevice, on_new_connection
<1>7. CareInv'
  BY <1>1 DEF CareInv
<1>8. StepInv'
  BY <1>1 DEF StepInv, AtHeader, InBody, Agrees
<1> QED
  BY <1>5, <1>6, <1>7, <1>8

\* receiver: an error, or a command it does not know, ends the session.
LEMMA StreamError ==
  ASSUME StreamInv, receiver_Error
  PROVE  StreamInv'
<1> USE DEF StreamInv
<1>1. /\ to_device' = <<>> /\ phase' = "disconnecting"
      /\ UNCHANGED <<commands, csDevice, write_buffer, writing, expect, in_step, mishaps>>
  BY DEF receiver_Error, Receiving, Leave, csSender, csClient
<1>2. CommandsInv' /\ (\A ret : Agrees(ret)' <=> Agrees(ret))
  BY <1>1, SameCommands
<1>3. WaitingInv'
  BY <1>1, <1>2 DEF WaitingInv, csDevice
<1>4. CareInv'
  BY <1>1 DEF CareInv
<1>5. StepInv'
  BY <1>1, <1>2, SameSteps
<1> QED
  BY <1>2, <1>3, <1>4, <1>5

\* The types of the responses.
LEMMA RetsAreResponses ==
  ASSUME NEW seqnum \in Nat, NEW status \in {"OK", "EPIPE"}, NEW n \in Nat
  PROVE  /\ create_ret_submit_no_iso(seqnum, status, n) \in Responses
         /\ \A length : create_ret_submit_no_data(seqnum, status, n, length) \in Responses
         /\ create_ret_unlink(seqnum) \in Responses
BY DEF Responses, create_ret_submit_no_iso, create_ret_submit_no_data, create_ret_unlink

\* Whether a response agrees depends on the commands only.
LEMMA AgreesWithSame ==
  ASSUME UNCHANGED commands PROVE \A ret : Agrees(ret)' <=> Agrees(ret)
BY DEF Agrees, Responses

\* submit_ret_submit with a response that agrees.
LEMMA BufferGrows ==
  ASSUME WaitingInv, UNCHANGED commands, NEW ret, Agrees(ret), write_buffer' = Append(write_buffer, ret)
  PROVE  /\ write_buffer' \in Seq(Responses)
         /\ (\A k \in 1 .. Len(write_buffer) : Agrees(write_buffer[k]))'
<1>1. /\ write_buffer \in Seq(Responses) /\ ret \in Responses
      /\ \A k \in 1 .. Len(write_buffer) : Agrees(write_buffer[k])
  BY DEF WaitingInv, Agrees
<1>2. /\ write_buffer' \in Seq(Responses) /\ Len(write_buffer') = Len(write_buffer) + 1
      /\ Len(write_buffer) \in Nat
      /\ \A k \in 1 .. Len(write_buffer) : write_buffer'[k] = write_buffer[k]
      /\ write_buffer'[Len(write_buffer) + 1] = ret
  BY <1>1, AppendIs
<1>3. ASSUME NEW k \in 1 .. Len(write_buffer') PROVE Agrees(write_buffer'[k])
  <2>1. k \in 1 .. Len(write_buffer) \/ k = Len(write_buffer) + 1
    BY <1>2
  <2> QED
    BY <1>1, <1>2, <2>1
<1> QED
  BY <1>2, <1>3, AgreesWithSame

\* What a command being read leaves to prove: the others were taken care of.
LEMMA OnlyTheLast ==
  ASSUME CareInv, CommandsInv, phase = "receiving", to_device # <<>>, UNCHANGED <<commands, peer_closed>>,
         \A n \in 1 .. Len(commands) : TakenCareOf(n) => TakenCareOf(n)',
         TakenCareOf(Len(commands))'
  PROVE  CareInv'
<1>1. ~peer_closed => \A n \in 1 .. Len(commands) : TakenCareOf(n) \/ n = Len(commands)
  BY DEF CareInv
<1>2. ~peer_closed => \A n \in 1 .. Len(commands) : TakenCareOf(n)'
  BY <1>1
<1> QED
  BY <1>2 DEF CareInv

\* receive_urb, answered on the spot.
LEMMA StreamAnswer ==
  ASSUME StreamInv, receive_urb_Answer
  PROVE  StreamInv'
<1> USE DEF StreamInv
<1> DEFINE a == dispatch_urb(Submitted)
           N == Len(commands)
<1>1. /\ phase = "receiving" /\ Read.result = "submit" /\ to_device' = Read.rest
      /\ Known(Submitted.ep) /\ a.how \in {"data", "no_data"} /\ Replied(Submitted, a)
      /\ done' = done \cup {Submitted.seqnum} /\ phase' \in {"receiving", "disconnecting"}
      /\ UNCHANGED <<commands, peer_closed, attached, requests, writing, expect, in_step, mishaps>>
  BY DEF receive_urb_Answer, receiver_Submit, Receiving, Leave, Stay, csSender, csClient
<1>2. /\ N \in Nat \ {0} /\ Submitted = commands[N] /\ Legal(Submitted) /\ Submitted.seqnum = N
      /\ to_device # <<>> /\ Read.rest = <<>>
  BY <1>1, CommandRead
<1>3. /\ a.status \in {"OK", "EPIPE"} /\ a.n \in Nat
      /\ a.how = "data" => Submitted.in
      /\ a.how = "no_data" /\ a.n > 0 => ~Submitted.in
  BY <1>1, <1>2, UrbAnswers
<1> HIDE DEF a
<1>4. CommandsInv' /\ (\A ret : Agrees(ret)' <=> Agrees(ret))
  BY <1>1, <1>2, SameCommands
<1> DEFINE ret == IF a.how = "data" THEN create_ret_submit_no_iso(N, a.status, a.n)
                  ELSE create_ret_submit_no_data(N, a.status, a.n, Submitted.length)
<1>5. write_buffer' = Append(write_buffer, ret)
  BY <1>1, <1>2 DEF Replied
<1>6. Agrees(ret)
  <2>1. ret \in Responses
    BY <1>2, <1>3, RetsAreResponses
  <2>2. Submitted.in \in BOOLEAN
    BY <1>2 DEF Legal, CommandRecords
  <2>3. /\ ret.seqnum = N /\ ret.actual = a.n /\ ret.packets = 0
        /\ ret.carried = (a.how = "data")
    <3>1. CASE a.how = "data"
      BY <3>1 DEF create_ret_submit_no_iso
    <3>2. CASE a.how # "data"
      BY <3>2 DEF create_ret_submit_no_data
    <3> QED
      BY <3>1, <3>2
  <2>4. num_iso(ret.packets) = 0
    BY <2>3 DEF num_iso, NonIso
  <2>5. N \in 1 .. Len(commands)
    BY <1>2
  <2> HIDE DEF ret, N
  <2>6. ret.actual > 0 => (ret.carried <=> commands[ret.seqnum].in)
    BY <1>1, <1>2, <1>3, <2>2, <2>3
  <2> QED
    BY <2>1, <2>3, <2>4, <2>5, <2>6 DEF Agrees
<1> HIDE DEF ret
<1>7. WaitingInv'
  <2>1. /\ write_buffer' \in Seq(Responses)
        /\ (\A k \in 1 .. Len(write_buffer) : Agrees(write_buffer[k]))'
    BY <1>1, <1>5, <1>6, BufferGrows
  <2> QED
    BY <1>1, <2>1 DEF WaitingInv, on_new_connection
<1>8. CareInv'
  <2>1. \A n \in 1 .. Len(commands) : TakenCareOf(n) => TakenCareOf(n)'
    BY <1>1 DEF TakenCareOf, Unanswerable
  <2>2. TakenCareOf(Len(commands))'
    BY <1>1, <1>2 DEF TakenCareOf
  <2> QED
    BY <1>1, <1>2, <2>1, <2>2, OnlyTheLast
<1>9. StepInv'
  BY <1>1, <1>4, SameSteps
<1> QED
  BY <1>4, <1>7, <1>8, <1>9

\* receive_urb, left without an answer: an endpoint that does not exist.
LEMMA StreamNone ==
  ASSUME StreamInv, receive_urb_None
  PROVE  StreamInv'
<1> USE DEF StreamInv
<1>1. /\ phase = "receiving" /\ Read.result = "submit" /\ to_device' = Read.rest
      /\ Known(Submitted.ep) /\ dispatch_urb(Submitted).how = "none"
      /\ UNCHANGED <<phase, commands, peer_closed, attached, requests, write_buffer, done,
                     writing, expect, in_step, mishaps>>
  BY DEF receive_urb_None, receiver_Submit, Receiving, Stay, csSender, csClient
<1>2. /\ Submitted = commands[Len(commands)] /\ Legal(Submitted)
      /\ to_device # <<>> /\ Read.rest = <<>>
  BY <1>1, CommandRead
<1>3. Unanswerable(Submitted)
  BY <1>1, <1>2, UrbAnswers
<1>4. CommandsInv' /\ (\A ret : Agrees(ret)' <=> Agrees(ret))
  BY <1>1, <1>2, SameCommands
<1>5. WaitingInv'
  BY <1>1, <1>4 DEF WaitingInv, on_new_connection
<1>6. CareInv'
  <2>1. \A n \in 1 .. Len(commands) : TakenCareOf(n) => TakenCareOf(n)'
    BY <1>1 DEF TakenCareOf, Unanswerable
  <2>2. TakenCareOf(Len(commands))'
    BY <1>1, <1>2, <1>3 DEF TakenCareOf, Unanswerable
  <2> QED
    BY <1>1, <1>2, <2>1, <2>2, OnlyTheLast
<1>7. StepInv'
  BY <1>1, <1>4, SameSteps
<1> QED
  BY <1>4, <1>5, <1>6, <1>7

\* receive_urb, queued at its interface, which is attached.
LEMMA StreamKeep ==
  ASSUME StreamInv, receive_urb_Keep
  PROVE  StreamInv'
<1> USE DEF StreamInv
<1> DEFINE N == Len(commands)
           f == Endpoints[Submitted.ep].interface
<1>1. /\ phase = "receiving" /\ Read.result = "submit" /\ to_device' = Read.rest
      /\ Known(Submitted.ep) /\ dispatch_urb(Submitted).how = "keep"
      /\ requests' = [requests EXCEPT ![f] = Append(@, Submitted.seqnum)]
      /\ UNCHANGED <<phase, commands, peer_closed, attached, write_buffer, done,
                     writing, expect, in_step, mishaps>>
  BY DEF receive_urb_Keep, receiver_Submit, Receiving, Stay, csSender, csClient
<1>2. /\ N \in Nat \ {0} /\ Submitted = commands[N] /\ Legal(Submitted) /\ Submitted.seqnum = N
      /\ to_device # <<>> /\ Read.rest = <<>>
  BY <1>1, CommandRead
<1>3. Submitted.in /\ f \in Interfaces /\ HasHandler(f)
  BY <1>1, <1>2, UrbAnswers
<1> HIDE DEF f
<1>4. CommandsInv' /\ (\A ret : Agrees(ret)' <=> Agrees(ret))
  BY <1>1, <1>2, SameCommands
<1>5. requests \in [Interfaces -> Seq(Nat)] /\ N \in Nat /\ f \in attached
  BY <1>1, <1>2, <1>3 DEF WaitingInv, on_new_connection
<1>6. requests[f] \in Seq(Nat)
  BY <1>3, <1>5
<1>7. /\ Append(requests[f], N) \in Seq(Nat) /\ Len(Append(requests[f], N)) = Len(requests[f]) + 1
      /\ Len(requests[f]) \in Nat
      /\ \A k \in 1 .. Len(requests[f]) : Append(requests[f], N)[k] = requests[f][k]
      /\ Append(requests[f], N)[Len(requests[f]) + 1] = N
  BY <1>5, <1>6, AppendIs
<1>8. /\ requests' \in [Interfaces -> Seq(Nat)] /\ requests'[f] = Append(requests[f], N)
      /\ \A i \in Interfaces : i # f => requests'[i] = requests[i]
  BY <1>1, <1>2, <1>3, <1>5, <1>7
<1>9. WaitingInv'
  <2>1. ASSUME NEW i \in Interfaces, NEW k \in 1 .. Len(requests'[i])
        PROVE  requests'[i][k] \in 1 .. N /\ commands[requests'[i][k]].in
    <3>1. CASE i = f /\ k = Len(requests[f]) + 1
      BY <1>2, <1>3, <1>7, <1>8, <3>1
    <3>2. CASE i # f \/ k \in 1 .. Len(requests[f])
      <4>1. k \in 1 .. Len(requests[i]) /\ requests'[i][k] = requests[i][k]
        BY <1>7, <1>8, <3>2
      <4> QED
        BY <4>1 DEF WaitingInv
    <3>3. i = f => k = Len(requests[f]) + 1 \/ k \in 1 .. Len(requests[f])
      BY <1>7, <1>8
    <3> QED
      BY <3>1, <3>2, <3>3
  <2> QED
    BY <1>1, <1>4, <1>8, <2>1 DEF WaitingInv, on_new_connection
<1>10. CareInv'
  <2>1. ASSUME NEW n \in 1 .. Len(commands), TakenCareOf(n) PROVE TakenCareOf(n)'
    <3>1. ASSUME NEW i \in attached, NEW k \in DOMAIN requests[i], requests[i][k] = n
          PROVE  TakenCareOf(n)'
      <4>1. i \in Interfaces
        BY <1>1 DEF WaitingInv, on_new_connection
      <4>2. k \in DOMAIN requests'[i] /\ requests'[i][k] = n
        <5>1. CASE i = f
          <6>1. k \in 1 .. Len(requests[f]) /\ requests[f][k] = n
            BY <1>6, <3>1, <5>1
          <6>2. k \in 1 .. Len(requests[f]) + 1 /\ DOMAIN requests'[f] = 1 .. Len(requests[f]) + 1
            BY <1>7, <1>8, <6>1
          <6> QED
            BY <1>7, <1>8, <5>1, <6>1, <6>2
        <5>2. CASE i # f
          BY <1>8, <3>1, <4>1, <5>2
        <5> QED
          BY <5>1, <5>2
      <4> QED
        BY <1>1, <4>2 DEF TakenCareOf
    <3> QED
      BY <1>1, <2>1, <3>1 DEF TakenCareOf, Unanswerable
  <2>2. TakenCareOf(Len(commands))'
    <3>1. Len(requests[f]) + 1 \in DOMAIN requests'[f] /\ requests'[f][Len(requests[f]) + 1] = N
      BY <1>7, <1>8
    <3> QED
      BY <1>1, <1>5, <3>1 DEF TakenCareOf
  <2> QED
    BY <1>1, <1>2, <2>1, <2>2, OnlyTheLast
<1>11. StepInv'
  BY <1>1, <1>4, SameSteps
<1> QED
  BY <1>4, <1>9, <1>10, <1>11

\* What the client does with a unit, one case at a time.
LEMMA TakesIs ==
  ASSUME NEW unit, Takes(unit), in_step
  PROVE  /\ expect.data = 0 /\ expect.packets = 0 /\ unit \notin {Byte, Packet}
              => in_step' /\ expect' = ClientReads(unit, commands[unit.seqnum].in)
         /\ expect.data > 0 /\ expect.data # 0 /\ unit = Byte
              => in_step' /\ expect' = [expect EXCEPT !.data = @ - 1]
         /\ ~(expect.data > 0) /\ expect.packets # 0 /\ unit = Packet
              => in_step' /\ expect' = [expect EXCEPT !.packets = @ - 1]
<1> DEFINE header == expect.data = 0 /\ expect.packets = 0
           fits == CASE header -> unit \notin {Byte, Packet}
                     [] expect.data > 0 -> unit = Byte
                     [] OTHER -> unit = Packet
<1>1. /\ in_step' = (in_step /\ fits)
      /\ expect' = IF ~in_step \/ ~fits THEN expect
                   ELSE IF header THEN ClientReads(unit, commands[unit.seqnum].in)
                   ELSE IF expect.data > 0 THEN [expect EXCEPT !.data = @ - 1]
                   ELSE [expect EXCEPT !.packets = @ - 1]
  BY DEF Takes
<1>2. header /\ ~(expect.data > 0) /\ unit \notin {Byte, Packet} => fits
  OBVIOUS
<1>3. ~header /\ expect.data > 0 /\ unit = Byte => fits
  OBVIOUS
<1>4. ~header /\ ~(expect.data > 0) /\ unit = Packet => fits
  OBVIOUS
<1>5. expect.data = 0 => ~(expect.data > 0)
  OBVIOUS
<1> HIDE DEF fits
<1>6. in_step' <=> (in_step /\ fits)
  BY <1>1, Zenon
<1> QED
  BY <1>1, <1>2, <1>3, <1>4, <1>5, <1>6

\* receiver: an endpoint the device does not have; written by the receiver itself.
LEMMA StreamUnknown ==
  ASSUME StreamInv, receiver_UnknownEndpoint
  PROVE  StreamInv'
<1> USE DEF StreamInv
<1> DEFINE N == Len(commands)
           unit == create_ret_submit_epipe_without_data(Submitted.seqnum, Submitted.length)
<1>1. /\ phase = "receiving" /\ Read.result = "submit" /\ to_device' = Read.rest
      /\ Takes(unit)
      /\ mishaps' = IF expect.data = 0 /\ expect.packets = 0 THEN mishaps ELSE mishaps \cup {"direct"}
      /\ done' = done \cup {Submitted.seqnum}
      /\ UNCHANGED <<phase, commands, peer_closed, attached, requests, write_buffer, writing>>
  BY DEF receiver_UnknownEndpoint, Receiving, Stay, csSender, csDevice
<1>2. /\ N \in Nat \ {0} /\ Submitted = commands[N] /\ Legal(Submitted) /\ Submitted.seqnum = N
      /\ to_device # <<>> /\ Read.rest = <<>>
  BY <1>1, CommandRead
<1>3. CommandsInv' /\ (\A ret : Agrees(ret)' <=> Agrees(ret))
  BY <1>1, <1>2, SameCommands
<1>4. WaitingInv'
  BY <1>1, <1>3 DEF WaitingInv, on_new_connection
<1>5. CareInv'
  <2>1. \A n \in 1 .. Len(commands) : TakenCareOf(n) => TakenCareOf(n)'
    BY <1>1 DEF TakenCareOf, Unanswerable
  <2>2. TakenCareOf(Len(commands))'
    BY <1>1, <1>2 DEF TakenCareOf
  <2> QED
    BY <1>1, <1>2, <2>1, <2>2, OnlyTheLast
<1>6. StepInv'
  <2> SUFFICES ASSUME mishaps' = {} PROVE in_step' /\ (AtHeader' \/ InBody')
    BY DEF StepInv
  <2>1. mishaps = {} /\ expect.data = 0 /\ expect.packets = 0
    <3>1. CASE expect.data = 0 /\ expect.packets = 0
      BY <1>1, <3>1
    <3>2. CASE ~(expect.data = 0 /\ expect.packets = 0)
      <4>1. "direct" \in mishaps'
        BY <1>1, <3>2
      <4> QED
        BY <4>1
    <3> QED
      BY <3>1, <3>2
  <2>2. in_step /\ (AtHeader \/ InBody)
    BY <2>1 DEF StepInv
  <2>3. expect = [data |-> 0, packets |-> 0]
    BY <2>1, <2>2 DEF AtHeader, InBody
  <2>4. unit.kind = "RET_SUBMIT" /\ unit.actual = 0 /\ unit.packets = 0
    BY DEF create_ret_submit_epipe_without_data, create_ret_submit_no_data
  <2>5. unit \notin {Byte, Packet}
    BY <2>4 DEF Byte, Packet
  <2>6. \A isIn : ClientReads(unit, isIn) = [data |-> 0, packets |-> 0]
    BY <2>4 DEF ClientReads, num_iso, NonIso
  <2> HIDE DEF unit
  <2>7. in_step' /\ expect' = ClientReads(unit, commands[unit.seqnum].in)
    BY <1>1, <2>1, <2>2, <2>5, TakesIs
  <2>8. expect' = expect
    BY <2>3, <2>6, <2>7
  <2> QED
    BY <1>1, <1>3, <2>2, <2>7, <2>8 DEF AtHeader, InBody
<1> QED
  BY <1>3, <1>4, <1>5, <1>6

\* s holds nothing that q does not, and of q it lacks nothing but e.
SameBut(s, q, e) ==
  /\ \A i \in 1 .. Len(s) : \E k \in 1 .. Len(q) : s[i] = q[k]
  /\ \A k \in 1 .. Len(q) : q[k] # e => \E i \in 1 .. Len(s) : s[i] = q[k]
\* Unlinking a request leaves the others.
LEMMA RemoveFirstKeeps ==
  ASSUME NEW S, NEW q \in Seq(S), NEW e
  PROVE  RemoveFirst(q, e) \in Seq(S) /\ SameBut(RemoveFirst(q, e), q, e)
<1> DEFINE r == RemoveFirst(q, e)
<1>0. Len(q) \in Nat /\ DOMAIN q = 1 .. Len(q)
  OBVIOUS
<1>1. CASE r = q
  BY <1>1 DEF SameBut
<1>2. CASE r # q
  <2>1. PICK k \in DOMAIN q :
          /\ q[k] = e /\ r \in Seq(S) /\ Len(r) = Len(q) - 1
          /\ \A i \in 1 .. Len(q) - 1 : r[i] = IF i < k THEN q[i] ELSE q[i + 1]
    BY <1>2, RemoveFirstIs
  <2> HIDE DEF r
  <2>2. ASSUME NEW i \in 1 .. Len(r) PROVE \E j \in 1 .. Len(q) : r[i] = q[j]
    <3>1. i \in 1 .. Len(q) /\ i + 1 \in 1 .. Len(q) /\ i \in 1 .. Len(q) - 1
      BY <1>0, <2>1
    <3>2. r[i] = q[i] \/ r[i] = q[i + 1]
      BY <2>1, <3>1
    <3> QED
      BY <3>1, <3>2
  <2>3. ASSUME NEW j \in 1 .. Len(q), q[j] # e PROVE \E i \in 1 .. Len(r) : r[i] = q[j]
    <3>1. j # k /\ k \in 1 .. Len(q)
      BY <1>0, <2>1, <2>3
    <3>2. CASE j < k
      <4>1. j \in 1 .. Len(q) - 1
        BY <1>0, <3>1, <3>2
      <4> QED
        BY <2>1, <3>2, <4>1
    <3>3. CASE ~(j < k)
      <4>1. j - 1 \in 1 .. Len(q) - 1 /\ ~(j - 1 < k) /\ (j - 1) + 1 = j
        BY <1>0, <3>1, <3>3
      <4>2. r[j - 1] = q[(j - 1) + 1]
        BY <2>1, <4>1
      <4> QED
        BY <2>1, <4>1, <4>2
    <3> QED
      BY <3>2, <3>3
  <2> QED
    BY <2>1, <2>2, <2>3 DEF r, SameBut
<1> QED
  BY <1>1, <1>2

\* handle_unlink_seqnum: the target is taken out, every other request stays.
LEMMA StreamUnlink ==
  ASSUME StreamInv, receiver_Unlink
  PROVE  StreamInv'
<1> USE DEF StreamInv
<1> DEFINE N == Len(commands)
           t == Submitted.target
           H == {i \in Interfaces : HasHandler(i)}
           ret == create_ret_unlink(Submitted.seqnum)
<1>1. /\ phase = "receiving" /\ Read.result = "unlink" /\ to_device' = Read.rest
      /\ requests' = [i \in Interfaces |-> RemoveFirst(requests[i], t)]
      /\ write_buffer' = write_buffer \o units(ret, Cardinality(H))
      /\ done' = done \cup {t}
      /\ UNCHANGED <<phase, commands, peer_closed, attached, writing, expect, in_step, mishaps>>
  BY DEF receiver_Unlink, handle_unlink_seqnum, Receiving, Stay, csSender, csClient
<1>2. /\ N \in Nat \ {0} /\ Submitted = commands[N] /\ Legal(Submitted) /\ Submitted.seqnum = N
      /\ to_device # <<>> /\ Read.rest = <<>> /\ Submitted.kind = "CMD_UNLINK"
  BY <1>1, CommandRead
<1>3. CommandsInv' /\ (\A r : Agrees(r)' <=> Agrees(r))
  BY <1>1, <1>2, SameCommands
<1>4. requests \in [Interfaces -> Seq(Nat)] /\ write_buffer \in Seq(Responses)
  BY DEF WaitingInv
<1>5. ASSUME NEW i \in Interfaces
      PROVE  requests'[i] \in Seq(Nat) /\ SameBut(requests'[i], requests[i], t)
  <2>1. requests[i] \in Seq(Nat) /\ requests'[i] = RemoveFirst(requests[i], t)
    BY <1>1, <1>4
  <2> QED
    BY <2>1, RemoveFirstKeeps
<1>6. /\ write_buffer' \in Seq(Responses)
      /\ \A k \in 1 .. Len(write_buffer') : Agrees(write_buffer'[k])
  <2>1. Cardinality(H) \in Nat
    <3>1. Len(InterfaceHandlers) \in Nat
      BY DeviceAssumption
    <3>2. IsFiniteSet(Interfaces)
      BY <3>1, FS_Interval DEF Interfaces
    <3>3. IsFiniteSet(H)
      BY <3>2, FS_Subset
    <3> QED
      BY <3>3, FS_CardinalityType
  <2>2. ret \in Responses /\ Agrees(ret)
    <3>1. ret \in Responses
      BY <1>2, RetsAreResponses
    <3> QED
      BY <3>1 DEF Agrees, create_ret_unlink
  <2> DEFINE m == Cardinality(H)
             b == units(ret, m)
  <2> HIDE DEF m, ret
  <2>3. b \in Seq(Responses) /\ Len(b) = m /\ \A i \in 1 .. m : b[i] = ret
    BY <2>1, <2>2, UnitsAre DEF m
  <2> HIDE DEF b
  <2>4. write_buffer' = write_buffer \o b
    BY <1>1 DEF b, m, ret
  <2>5. /\ write_buffer' \in Seq(Responses) /\ Len(write_buffer') = Len(write_buffer) + m
        /\ \A k \in 1 .. Len(write_buffer) + m :
             write_buffer'[k] = IF k <= Len(write_buffer) THEN write_buffer[k]
                                                         ELSE b[k - Len(write_buffer)]
    BY <1>4, <2>3, <2>4, ConcatProperties
  <2>6. ASSUME NEW k \in 1 .. Len(write_buffer') PROVE Agrees(write_buffer'[k])
    <3>0. Len(write_buffer) \in Nat /\ m \in Nat
      BY <1>4, <2>1 DEF m
    <3>1. CASE k <= Len(write_buffer)
      <4>1. k \in 1 .. Len(write_buffer) /\ write_buffer'[k] = write_buffer[k]
        BY <2>5, <3>0, <3>1
      <4> QED
        BY <4>1 DEF WaitingInv
    <3>2. CASE ~(k <= Len(write_buffer))
      <4>1. k - Len(write_buffer) \in 1 .. m
        BY <2>5, <3>0, <3>2
      <4>2. write_buffer'[k] = b[k - Len(write_buffer)]
        BY <2>5, <3>2
      <4> QED
        BY <2>2, <2>3, <4>1, <4>2
    <3> QED
      BY <3>1, <3>2
  <2> QED
    BY <2>5, <2>6
<1>7. WaitingInv'
  <2>1. requests' \in [Interfaces -> Seq(Nat)]
    BY <1>1, <1>5
  <2>2. ASSUME NEW i \in Interfaces, NEW j \in 1 .. Len(requests'[i])
        PROVE  requests'[i][j] \in 1 .. N /\ commands[requests'[i][j]].in
    <3>1. PICK k \in 1 .. Len(requests[i]) : requests'[i][j] = requests[i][k]
      BY <1>5 DEF SameBut
    <3> QED
      BY <3>1 DEF WaitingInv
  <2> QED
    BY <1>1, <1>3, <1>6, <2>1, <2>2 DEF WaitingInv, on_new_connection
<1>8. CareInv'
  <2>1. ASSUME NEW n \in 1 .. Len(commands), TakenCareOf(n) PROVE TakenCareOf(n)'
    <3>1. ASSUME NEW i \in attached, NEW k \in DOMAIN requests[i], requests[i][k] = n
          PROVE  TakenCareOf(n)'
      <4>1. i \in Interfaces
        BY <1>1 DEF WaitingInv, on_new_connection
      <4>2. CASE n = t
        BY <1>1, <4>2 DEF TakenCareOf
      <4>3. CASE n # t
        <5>1. k \in 1 .. Len(requests[i]) /\ requests[i][k] # t
          BY <1>4, <3>1, <4>1, <4>3
        <5>2. PICK j \in 1 .. Len(requests'[i]) : requests'[i][j] = n
          BY <1>5, <3>1, <4>1, <5>1 DEF SameBut
        <5>3. j \in DOMAIN requests'[i]
          BY <1>5, <4>1
        <5> QED
          BY <1>1, <5>2, <5>3 DEF TakenCareOf
      <4> QED
        BY <4>2, <4>3
    <3> QED
      BY <1>1, <2>1, <3>1 DEF TakenCareOf, Unanswerable
  <2>2. TakenCareOf(Len(commands))'
    BY <1>1, <1>2 DEF TakenCareOf
  <2> QED
    BY <1>1, <1>2, <2>1, <2>2, OnlyTheLast
<1>9. StepInv'
  BY <1>1, <1>3, SameSteps
<1> QED
  BY <1>3, <1>7, <1>8, <1>9

\* A response to a command whose request was for data.
LEMMA DataAgrees ==
  ASSUME NEW n \in 1 .. Len(commands), Len(commands) \in Nat, commands[n].in, commands[n].seqnum = n,
         NEW actual \in Nat
  PROVE  /\ Agrees(create_ret_submit_no_iso(commands[n].seqnum, "OK", actual))
         /\ \A lengths : Len(lengths) \in Nat =>
              Agrees(create_ret_submit(commands[n].seqnum, "OK", actual, lengths))
<1>1. n \in Nat
  OBVIOUS
<1>2. Agrees(create_ret_submit_no_iso(commands[n].seqnum, "OK", actual))
  <2> DEFINE ret == create_ret_submit_no_iso(commands[n].seqnum, "OK", actual)
  <2>1. ret \in Responses
    BY <1>1, RetsAreResponses
  <2>2. ret.seqnum = n /\ ret.carried
    BY DEF create_ret_submit_no_iso
  <2> HIDE DEF ret
  <2>3. Agrees(ret)
    BY <2>1, <2>2 DEF Agrees
  <2> QED
    BY <2>3 DEF ret
<1>3. ASSUME NEW lengths, Len(lengths) \in Nat
      PROVE  Agrees(create_ret_submit(commands[n].seqnum, "OK", actual, lengths))
  <2> DEFINE ret == create_ret_submit(commands[n].seqnum, "OK", actual, lengths)
  <2>1. ret \in Responses
    BY <1>1, <1>3 DEF create_ret_submit, Responses
  <2>2. ret.seqnum = n /\ ret.carried
    BY DEF create_ret_submit
  <2> HIDE DEF ret
  <2>3. Agrees(ret)
    BY <2>1, <2>2 DEF Agrees
  <2> QED
    BY <2>3 DEF ret
<1> QED
  BY <1>2, <1>3

\* The lengths of an isochronous transfer's packets.
LEMMA PacketsCounted ==
  ASSUME NEW m \in Nat, NEW lengths \in [1 .. m -> 0 .. 1]
  PROVE  Len(lengths) = m /\ Cardinality({k \in DOMAIN lengths : lengths[k] = 1}) \in Nat
<1>1. Len(lengths) = m /\ DOMAIN lengths = 1 .. m
  BY LenProperties
<1>2. IsFiniteSet(1 .. m)
  BY FS_Interval
<1>3. IsFiniteSet({k \in DOMAIN lengths : lengths[k] = 1})
  BY <1>1, <1>2, FS_Subset
<1> QED
  BY <1>1, <1>3, FS_CardinalityType

\* A device thread answers the oldest request of an interface.
LEMMA StreamDevice ==
  ASSUME StreamInv, NEW i \in Interfaces, DeviceAnswers(i)
  PROVE  StreamInv'
<1> USE DEF StreamInv
<1> DEFINE N == Len(commands)
           h == Head(requests[i])
           cmd == commands[h]
           q == requests[i]
<1>1. PICK ret :
        /\ Enqueued(i, ret)
        /\ \/ \E n \in 0 .. cmd.length : ret = create_ret_submit_no_iso(cmd.seqnum, "OK", n)
           \/ \E lengths \in [1 .. num_iso(cmd.packets) -> 0 .. 1] :
                ret = create_ret_submit(cmd.seqnum, "OK",
                        Cardinality({k \in DOMAIN lengths : lengths[k] = 1}), lengths)
  BY DEF DeviceAnswers
<1>2. /\ requests' = [requests EXCEPT ![i] = Tail(@)] /\ done' = done \cup {h}
      /\ write_buffer' = Append(write_buffer, ret)
      /\ UNCHANGED <<phase, commands, to_device, peer_closed, attached, writing, expect, in_step, mishaps>>
  BY <1>1 DEF Enqueued, csHost, csSender, csClient
<1>3. q \in Seq(Nat) /\ q # <<>> /\ requests \in [Interfaces -> Seq(Nat)]
  BY DEF WaitingInv, DeviceAnswers, CanReport
<1>4. /\ Tail(q) \in Seq(Nat) /\ Len(Tail(q)) = Len(q) - 1 /\ Len(q) \in Nat \ {0}
      /\ h = q[1] /\ \A k \in 1 .. Len(q) - 1 : Tail(q)[k] = q[k + 1]
  BY <1>3, TailIs
<1>5. h \in 1 .. N /\ cmd.in
  <2>1. 1 \in 1 .. Len(requests[i])
    BY <1>4
  <2> QED
    BY <1>4, <2>1 DEF WaitingInv
<1>6. N \in Nat /\ cmd.seqnum = h /\ Legal(cmd)
  BY <1>5 DEF CommandsInv
<1>7. Agrees(ret)
  <2>1. ASSUME NEW n \in 0 .. cmd.length, ret = create_ret_submit_no_iso(cmd.seqnum, "OK", n)
        PROVE  Agrees(ret)
    <3>1. n \in Nat
      BY <1>6 DEF Legal, CommandRecords
    <3> QED
      BY <1>5, <1>6, <2>1, <3>1, DataAgrees
  <2>2. ASSUME NEW lengths \in [1 .. num_iso(cmd.packets) -> 0 .. 1],
               ret = create_ret_submit(cmd.seqnum, "OK",
                       Cardinality({k \in DOMAIN lengths : lengths[k] = 1}), lengths)
        PROVE  Agrees(ret)
    <3>1. num_iso(cmd.packets) \in Nat
      BY <1>6 DEF Legal, CommandRecords, num_iso
    <3>2. Len(lengths) \in Nat /\ Cardinality({k \in DOMAIN lengths : lengths[k] = 1}) \in Nat
      BY <3>1, PacketsCounted
    <3> QED
      BY <1>5, <1>6, <2>2, <3>2, DataAgrees
  <2> QED
    BY <1>1, <2>1, <2>2
<1> HIDE DEF h, q, cmd
<1>8. CommandsInv' /\ (\A r : Agrees(r)' <=> Agrees(r))
  BY <1>2, SameCommands
<1>9. /\ requests' \in [Interfaces -> Seq(Nat)] /\ requests'[i] = Tail(q)
      /\ \A j \in Interfaces : j # i => requests'[j] = requests[j]
  BY <1>2, <1>3, <1>4 DEF q
<1>10. WaitingInv'
  <2>1. ASSUME NEW j \in Interfaces, NEW k \in 1 .. Len(requests'[j])
        PROVE  requests'[j][k] \in 1 .. N /\ commands[requests'[j][k]].in
    <3>1. \E x \in 1 .. Len(requests[j]) : requests'[j][k] = requests[j][x]
      <4>1. CASE j = i
        <5>1. k \in 1 .. Len(q) - 1 /\ k + 1 \in 1 .. Len(q)
          BY <1>4, <1>9, <4>1
        <5>2. Tail(q)[k] = q[k + 1]
          BY <1>4, <5>1
        <5> QED
          BY <1>9, <4>1, <5>1, <5>2 DEF q
      <4>2. CASE j # i
        BY <1>9, <4>2
      <4> QED
        BY <4>1, <4>2
    <3> QED
      BY <3>1 DEF WaitingInv
  <2>2. /\ write_buffer' \in Seq(Responses)
        /\ (\A k \in 1 .. Len(write_buffer) : Agrees(write_buffer[k]))'
    BY <1>2, <1>7, BufferGrows
  <2> QED
    BY <1>2, <1>9, <2>1, <2>2 DEF WaitingInv, on_new_connection
<1>11. CareInv'
  <2>1. ASSUME NEW n \in 1 .. Len(commands), TakenCareOf(n), phase = "receiving" PROVE TakenCareOf(n)'
    <3>1. ASSUME NEW j \in attached, NEW k \in DOMAIN requests[j], requests[j][k] = n
          PROVE  TakenCareOf(n)'
      <4>1. j \in Interfaces
        BY <2>1 DEF WaitingInv, on_new_connection
      <4>2. CASE n = h
        BY <1>2, <4>2 DEF TakenCareOf
      <4>3. CASE n # h
        <5>1. CASE j # i
          BY <1>2, <1>9, <3>1, <4>1, <5>1 DEF TakenCareOf
        <5>2. CASE j = i
          <6>1. k \in 1 .. Len(q) /\ q[k] = n
            BY <1>3, <3>1, <5>2 DEF q
          <6>2. k # 1
            BY <1>4, <4>3, <6>1
          <6>3. k - 1 \in 1 .. Len(q) - 1 /\ (k - 1) + 1 = k
            BY <1>4, <6>1, <6>2
          <6>4. Tail(q)[k - 1] = q[(k - 1) + 1]
            BY <1>4, <6>3
          <6>5. k - 1 \in DOMAIN requests'[j] /\ requests'[j][k - 1] = n
            BY <1>4, <1>9, <5>2, <6>1, <6>3, <6>4
          <6> QED
            BY <1>2, <6>5 DEF TakenCareOf
        <5> QED
          BY <5>1, <5>2
      <4> QED
        BY <4>2, <4>3
    <3> QED
      BY <1>2, <2>1, <3>1 DEF TakenCareOf, Unanswerable
  <2> QED
    BY <1>2, <2>1 DEF CareInv
<1>12. StepInv'
  BY <1>2, <1>8, SameSteps
<1> QED
  BY <1>8, <1>10, <1>11, <1>12

\* on_disconnection, one interface at a time.
LEMMA StreamDetaches ==
  ASSUME StreamInv, on_disconnection
  PROVE  StreamInv'
<1> USE DEF StreamInv
<1>1. /\ phase # "receiving" /\ phase' \in {"disconnecting", "stopping"}
      /\ requests' = requests \/ requests' = [requests EXCEPT ![detaching] = <<>>]
      /\ UNCHANGED <<commands, to_device, write_buffer, writing, expect, in_step, mishaps>>
  BY DEF on_disconnection, interface_on_disconnection, csHost, csSender, csClient, csDevice
<1>2. CommandsInv' /\ (\A ret : Agrees(ret)' <=> Agrees(ret))
  BY <1>1, SameCommands
<1>3. requests \in [Interfaces -> Seq(Nat)]
  BY DEF WaitingInv
<1>4. /\ requests' \in [Interfaces -> Seq(Nat)]
      /\ \A i \in Interfaces : requests'[i] \in {requests[i], <<>>}
  <2>1. <<>> \in Seq(Nat)
    OBVIOUS
  <2> QED
    BY <1>1, <1>3, <2>1
<1>5. WaitingInv'
  <2>1. ASSUME NEW i \in Interfaces, NEW k \in 1 .. Len(requests'[i])
        PROVE  requests'[i][k] \in 1 .. Len(commands) /\ commands[requests'[i][k]].in
    <3>1. requests'[i] # <<>>
      OBVIOUS
    <3>2. requests'[i] = requests[i]
      BY <1>4, <3>1
    <3> QED
      BY <3>2 DEF WaitingInv
  <2>2. phase' # "receiving"
    BY <1>1
  <2> QED
    BY <1>1, <1>2, <1>4, <2>1, <2>2 DEF WaitingInv
<1>6. CareInv'
  BY <1>1 DEF CareInv
<1>7. StepInv'
  BY <1>1, <1>2, SameSteps
<1> QED
  BY <1>2, <1>5, <1>6, <1>7

\* transfer_loop clears the buffers.
LEMMA StreamEnds ==
  ASSUME StreamInv, transfer_loop_End
  PROVE  StreamInv'
<1> USE DEF StreamInv
<1>1. /\ phase' = "closed" /\ write_buffer' = <<>>
      /\ UNCHANGED <<commands, to_device, requests, writing, expect, in_step, mishaps>>
  BY DEF transfer_loop_End, csHost, csSender, csClient, csDevice
<1>2. CommandsInv' /\ (\A ret : Agrees(ret)' <=> Agrees(ret))
  BY <1>1, SameCommands
<1>3. WaitingInv'
  <2>1. <<>> \in Seq(Responses) /\ Len(<<>>) = 0
    OBVIOUS
  <2> QED
    BY <1>1, <1>2, <2>1 DEF WaitingInv
<1>4. CareInv'
  BY <1>1 DEF CareInv
<1>5. StepInv'
  BY <1>1, <1>2, SameSteps
<1> QED
  BY <1>2, <1>3, <1>4, <1>5

\* to_socket: the response, and data and packets only if it carries data.
LEMMA SocketUnits ==
  ASSUME NEW ret, Agrees(ret)
  PROVE  /\ to_socket(ret) # <<>> /\ Head(to_socket(ret)) = ret
         /\ IF ret.kind = "RET_SUBMIT" /\ ret.carried /\ ret.actual > 0
            THEN Tail(to_socket(ret)) = units(Byte, ret.actual) \o units(Packet, num_iso(ret.packets))
            ELSE Tail(to_socket(ret)) = <<>>
<1> DEFINE S == Responses \cup {Byte, Packet}
           b == units(Byte, ret.actual)
           p == units(Packet, num_iso(ret.packets))
<1>1. /\ ret \in S /\ ret.actual \in Nat /\ num_iso(ret.packets) \in Nat /\ ret.carried \in BOOLEAN
      /\ ret.kind \in {"RET_SUBMIT", "RET_UNLINK"} /\ Byte \in S /\ Packet \in S
  BY DEF Agrees, Responses, num_iso
<1> HIDE DEF S
<1>2. b \in Seq(S) /\ p \in Seq(S)
  BY <1>1, UnitsAre
<1> HIDE DEF b, p
<1>3. CASE ret.kind = "RET_SUBMIT" /\ ret.carried /\ ret.actual > 0
  <2>1. to_socket(ret) = <<ret>> \o b \o p
    BY <1>3 DEF to_socket, ret_submit_to_socket, b, p
  <2>2. <<ret>> \in Seq(S) /\ b \o p \in Seq(S)
    BY <1>1, <1>2, ConcatProperties
  <2>3. to_socket(ret) = <<ret>> \o (b \o p)
    BY <1>2, <2>1, <2>2, ConcatAssociative
  <2> QED
    BY <1>1, <1>3, <2>2, <2>3, HeaderFirst DEF b, p
<1>4. CASE ~(ret.kind = "RET_SUBMIT" /\ ret.carried /\ ret.actual > 0)
  <2>1. to_socket(ret) = <<ret>>
    BY <1>1, <1>4 DEF to_socket, ret_submit_to_socket, ret_unlink_to_socket
  <2> QED
    BY <1>4, <2>1
<1> QED
  BY <1>3, <1>4

\* The next unit of what is left of a response.
LEMMA BodyUnits ==
  ASSUME NEW d \in Nat, NEW p \in Nat
  PROVE  /\ d > 0 => /\ units(Byte, d) \o units(Packet, p) # <<>>
                     /\ Head(units(Byte, d) \o units(Packet, p)) = Byte
                     /\ Tail(units(Byte, d) \o units(Packet, p)) = units(Byte, d - 1) \o units(Packet, p)
         /\ d = 0 /\ p > 0 => /\ units(Byte, d) \o units(Packet, p) # <<>>
                              /\ Head(units(Byte, d) \o units(Packet, p)) = Packet
                              /\ Tail(units(Byte, d) \o units(Packet, p))
                                   = units(Byte, d) \o units(Packet, p - 1)
         /\ d = 0 /\ p = 0 => units(Byte, d) \o units(Packet, p) = <<>>
<1> DEFINE S == {Byte, Packet}
<1>1. Byte \in S /\ Packet \in S
  OBVIOUS
<1>2. \A n \in Nat : units(Packet, n) \in Seq(S) /\ (n = 0 => units(Packet, n) = <<>>)
  BY <1>1, UnitsAre
<1>3. units(Byte, 0) = <<>>
  BY <1>1, UnitsAre
<1> HIDE DEF S
<1>4. CASE d > 0
  <2>1. d \in Nat \ {0} /\ units(Packet, p) \in Seq(S)
    BY <1>2, <1>4
  <2> QED
    BY <1>1, <1>4, <2>1, NextUnit
<1>5. CASE d = 0 /\ p > 0
  <2>1. p \in Nat \ {0} /\ <<>> \in Seq(S) /\ p - 1 \in Nat
    BY <1>5
  <2> DEFINE a == units(Packet, p)
             c == units(Packet, p - 1)
  <2>2. a \in Seq(S) /\ c \in Seq(S)
    BY <1>2, <2>1
  <2>3. a \o <<>> # <<>> /\ Head(a \o <<>>) = Packet /\ Tail(a \o <<>>) = c \o <<>>
    BY <1>1, <2>1, NextUnit
  <2> HIDE DEF a, c
  <2>4. a \o <<>> = a /\ c \o <<>> = c /\ <<>> \o a = a /\ <<>> \o c = c
    BY <2>2, ConcatEmptySeq
  <2>5. a # <<>> /\ Head(a) = Packet /\ Tail(a) = c
    BY <2>3, <2>4
  <2>6. units(Byte, d) \o a = a /\ units(Byte, d) \o c = c
    BY <1>3, <1>5, <2>4
  <2>7. /\ units(Byte, d) \o a # <<>> /\ Head(units(Byte, d) \o a) = Packet
        /\ Tail(units(Byte, d) \o a) = units(Byte, d) \o c
    BY <2>5, <2>6
  <2>8. ~(d > 0)
    BY <1>5
  <2>9. ~(d = 0 /\ p = 0)
    BY <1>5
  <2> QED
    BY <2>7, <2>8, <2>9 DEF a, c
<1>6. CASE d = 0 /\ p = 0
  <2>1. units(Byte, d) = <<>> /\ units(Packet, p) = <<>>
    BY <1>2, <1>3, <1>6
  <2>2. <<>> \o <<>> = <<>>
    OBVIOUS
  <2> QED
    BY <1>6, <2>1, <2>2
<1> QED
  BY <1>4, <1>5, <1>6

\* The sender takes a response when nothing is left of the one before.
LEMMA StreamTake ==
  ASSUME StreamInv, sender_Take
  PROVE  StreamInv'
<1> USE DEF StreamInv
<1> DEFINE ret == Head(write_buffer)
<1>1. /\ writing = <<>> /\ write_buffer # <<>> /\ writing' = to_socket(ret)
      /\ write_buffer' = Tail(write_buffer)
      /\ mishaps' = IF num_iso(ret.packets) > 0 /\ ret.actual = 0
                    THEN mishaps \cup {"empty"} ELSE mishaps
      /\ UNCHANGED <<phase, commands, to_device, peer_closed, attached, requests, done, expect, in_step>>
  BY DEF sender_Take, csHost, csDevice
<1>2. /\ write_buffer \in Seq(Responses)
      /\ \A k \in 1 .. Len(write_buffer) : Agrees(write_buffer[k])
  BY DEF WaitingInv
<1>3. /\ write_buffer' \in Seq(Responses) /\ Len(write_buffer') = Len(write_buffer) - 1
      /\ Len(write_buffer) \in Nat \ {0} /\ ret = write_buffer[1]
      /\ \A k \in 1 .. Len(write_buffer) - 1 : write_buffer'[k] = write_buffer[k + 1]
  BY <1>1, <1>2, TailIs
<1>4. Agrees(ret)
  <2>1. 1 \in 1 .. Len(write_buffer)
    BY <1>3
  <2> QED
    BY <1>2, <1>3, <2>1
<1> HIDE DEF ret
<1>5. CommandsInv' /\ (\A r : Agrees(r)' <=> Agrees(r))
  BY <1>1, SameCommands
<1>6. WaitingInv'
  <2>1. ASSUME NEW k \in 1 .. Len(write_buffer') PROVE Agrees(write_buffer'[k])
    <3>1. k + 1 \in 1 .. Len(write_buffer) /\ k \in 1 .. Len(write_buffer) - 1
      BY <1>3
    <3> QED
      BY <1>2, <1>3, <3>1
  <2> QED
    BY <1>1, <1>3, <1>5, <2>1 DEF WaitingInv, on_new_connection
<1>7. CareInv'
  BY <1>1 DEF CareInv, TakenCareOf, Unanswerable
<1>8. StepInv'
  <2> SUFFICES ASSUME mishaps' = {} PROVE in_step' /\ AtHeader'
    BY DEF StepInv
  <2>1. mishaps = {} /\ ~(num_iso(ret.packets) > 0 /\ ret.actual = 0)
    <3>1. "empty" \notin mishaps'
      OBVIOUS
    <3> QED
      BY <1>1, <3>1
  <2>2. in_step /\ InBody
    BY <1>1, <2>1 DEF StepInv, AtHeader
  <2>3. expect = [data |-> 0, packets |-> 0]
    <3> DEFINE d == expect.data
               p == expect.packets
    <3>1. d \in Nat /\ p \in Nat /\ expect = [data |-> d, packets |-> p]
      BY <2>2 DEF InBody
    <3>2. units(Byte, d) \o units(Packet, p) = <<>>
      BY <1>1, <2>2 DEF InBody
    <3> HIDE DEF d, p
    <3>3. ~(d > 0) /\ ~(d = 0 /\ p > 0)
      BY <3>1, <3>2, BodyUnits
    <3>4. d = 0 /\ p = 0
      BY <3>1, <3>3
    <3> QED
      BY <3>1, <3>4
  <2>4. num_iso(ret.packets) = 0 \/ ret.actual > 0
    BY <1>4, <2>1 DEF Agrees, Responses, num_iso
  <2>5. writing' # <<>> /\ Head(writing') = ret
    BY <1>1, <1>4, SocketUnits
  <2> QED
    BY <1>1, <1>4, <1>5, <2>2, <2>3, <2>4, <2>5 DEF AtHeader
<1> QED
  BY <1>5, <1>6, <1>7, <1>8

\* The client takes a unit off the stream: a header, a byte it waits for, or a packet.
LEMMA StreamWrite ==
  ASSUME StreamInv, sender_Write
  PROVE  StreamInv'
<1> USE DEF StreamInv
<1>1. /\ writing # <<>> /\ Takes(Head(writing)) /\ writing' = Tail(writing)
      /\ UNCHANGED <<phase, commands, to_device, peer_closed, attached, requests, write_buffer, done,
                     mishaps>>
  BY DEF sender_Write, csHost, csDevice
<1>2. CommandsInv' /\ (\A r : Agrees(r)' <=> Agrees(r))
  BY <1>1, SameCommands
<1>3. WaitingInv'
  BY <1>1, <1>2 DEF WaitingInv, on_new_connection
<1>4. CareInv'
  BY <1>1 DEF CareInv, TakenCareOf, Unanswerable
<1>5. StepInv'
  <2> SUFFICES ASSUME mishaps = {} PROVE in_step' /\ InBody'
    BY <1>1 DEF StepInv
  <2>1. in_step /\ (AtHeader \/ InBody)
    BY DEF StepInv
  <2>2. CASE AtHeader
    <3> DEFINE ret == Head(writing)
               isIn == commands[ret.seqnum].in
    <3>1. /\ expect.data = 0 /\ expect.packets = 0 /\ Agrees(ret) /\ writing = to_socket(ret)
          /\ num_iso(ret.packets) = 0 \/ ret.actual > 0
      BY <2>2 DEF AtHeader
    <3>2. /\ ret.kind \in {"RET_SUBMIT", "RET_UNLINK"} /\ ret.actual \in Nat
          /\ num_iso(ret.packets) \in Nat /\ ret.carried \in BOOLEAN
      BY <3>1 DEF Agrees, Responses, num_iso
    <3>3. ret \notin {Byte, Packet}
      BY <3>2 DEF Byte, Packet
    <3>4. in_step' /\ expect' = ClientReads(ret, isIn)
      BY <1>1, <2>1, <3>1, <3>3, TakesIs
    <3>5. IF ret.kind = "RET_SUBMIT" /\ ret.carried /\ ret.actual > 0
          THEN writing' = units(Byte, ret.actual) \o units(Packet, num_iso(ret.packets))
          ELSE writing' = <<>>
      BY <1>1, <3>1, SocketUnits
    <3>6. ret.kind = "RET_SUBMIT" => /\ ret.actual > 0 => (ret.carried <=> isIn)
                                     /\ ~ret.carried => num_iso(ret.packets) = 0
      BY <3>1 DEF Agrees
    <3> HIDE DEF ret, isIn
    <3>7. CASE ret.kind = "RET_SUBMIT" /\ ret.carried /\ ret.actual > 0
      <4>1. isIn
        BY <3>6, <3>7
      <4>2. expect' = [data |-> ret.actual, packets |-> num_iso(ret.packets)]
        BY <3>4, <3>7, <4>1 DEF ClientReads
      <4> QED
        BY <3>2, <3>4, <3>5, <3>7, <4>2 DEF InBody
    <3>8. CASE ~(ret.kind = "RET_SUBMIT" /\ ret.carried /\ ret.actual > 0)
      <4>1. ret.kind = "RET_SUBMIT" /\ isIn => ret.actual = 0
        BY <3>2, <3>6, <3>8
      <4>2. ret.kind = "RET_SUBMIT" => num_iso(ret.packets) = 0
        BY <3>1, <3>2, <3>6, <3>8
      <4>3. expect' = [data |-> 0, packets |-> 0]
        BY <3>4, <4>1, <4>2 DEF ClientReads
      <4>4. units(Byte, 0) \o units(Packet, 0) = <<>>
        BY BodyUnits
      <4>5. writing' = <<>>
        BY <3>5, <3>8
      <4>6. expect' \in [data : Nat, packets : Nat] /\ expect'.data = 0 /\ expect'.packets = 0
        BY <4>3
      <4> QED
        BY <3>4, <4>4, <4>5, <4>6 DEF InBody
    <3> QED
      BY <3>7, <3>8
  <2>3. CASE InBody
    <3> DEFINE d == expect.data
               p == expect.packets
    <3>1. d \in Nat /\ p \in Nat /\ expect = [data |-> d, packets |-> p]
          /\ writing = units(Byte, d) \o units(Packet, p)
      BY <2>3 DEF InBody
    <3>2. CASE d > 0
      <4>1. Head(writing) = Byte /\ writing' = units(Byte, d - 1) \o units(Packet, p)
        BY <1>1, <3>1, <3>2, BodyUnits
      <4>2. in_step' /\ expect' = [expect EXCEPT !.data = @ - 1]
        BY <1>1, <2>1, <3>1, <3>2, <4>1, TakesIs
      <4>3. expect' = [data |-> d - 1, packets |-> p]
        BY <3>1, <4>2
      <4>4. d - 1 \in Nat
        BY <3>1, <3>2
      <4> HIDE DEF d, p
      <4> QED
        BY <3>1, <4>1, <4>2, <4>3, <4>4 DEF InBody
    <3>3. CASE d = 0 /\ p > 0
      <4>1. Head(writing) = Packet /\ writing' = units(Byte, d) \o units(Packet, p - 1)
        BY <1>1, <3>1, <3>3, BodyUnits
      <4>2. in_step' /\ expect' = [expect EXCEPT !.packets = @ - 1]
        BY <1>1, <2>1, <3>1, <3>3, <4>1, TakesIs
      <4>3. expect' = [data |-> d, packets |-> p - 1]
        BY <3>1, <4>2
      <4>4. p - 1 \in Nat
        BY <3>1, <3>3
      <4> HIDE DEF d, p
      <4> QED
        BY <3>1, <4>1, <4>2, <4>3, <4>4 DEF InBody
    <3>4. CASE d = 0 /\ p = 0
      <4>1. writing = <<>>
        BY <3>1, <3>4, BodyUnits
      <4> QED
        BY <1>1, <4>1
    <3> HIDE DEF d, p
    <3> QED
      BY <3>1, <3>2, <3>3, <3>4
  <2> QED
    BY <2>1, <2>2, <2>3
<1> QED
  BY <1>2, <1>3, <1>4, <1>5

\* A step of another device.
LEMMA StreamStill == StreamInv /\ UNCHANGED csVars => StreamInv'
<1> SUFFICES ASSUME StreamInv, UNCHANGED csVars PROVE StreamInv'
  OBVIOUS
<1> USE DEF StreamInv
<1>1. UNCHANGED <<phase, commands, to_device, peer_closed, attached, requests, write_buffer, writing, done,
                  expect, in_step, mishaps>>
  BY DEF csVars, csHost, csDevice, csSender, csClient
<1>2. CommandsInv' /\ (\A r : Agrees(r)' <=> Agrees(r))
  BY <1>1, SameCommands
<1>3. WaitingInv'
  BY <1>1, <1>2 DEF WaitingInv, on_new_connection
<1>4. CareInv'
  BY <1>1 DEF CareInv, TakenCareOf, Unanswerable
<1>5. StepInv'
  BY <1>1, <1>2, SameSteps
<1> QED
  BY <1>2, <1>3, <1>4, <1>5

\* Every step of the session preserves its invariant.
LEMMA StreamStep == StreamInv /\ (StreamNext \/ UNCHANGED csVars) => StreamInv'
<1> SUFFICES ASSUME StreamInv, StreamNext \/ UNCHANGED csVars PROVE StreamInv'
  OBVIOUS
<1>1. ASSUME NEW req \in OpRequests, parse_op(req) PROVE StreamInv'
  BY <1>1, StreamOp
<1>2. ASSUME NEW c \in Commands, HostSends(c) PROVE StreamInv'
  BY <1>2, StreamHost
<1>3. CASE PeerCloses
  BY <1>3, StreamCloses
<1>4. CASE receiver_Error
  BY <1>4, StreamError
<1>5. CASE receiver_UnknownEndpoint
  BY <1>5, StreamUnknown
<1>6. CASE receiver_Unlink
  BY <1>6, StreamUnlink
<1>7. CASE receive_urb_Answer
  BY <1>7, StreamAnswer
<1>8. CASE receive_urb_Keep
  BY <1>8, StreamKeep
<1>9. CASE receive_urb_None
  BY <1>9, StreamNone
<1>10. ASSUME NEW i \in Interfaces, DeviceAnswers(i) PROVE StreamInv'
  BY <1>10, StreamDevice
<1>11. CASE on_disconnection
  BY <1>11, StreamDetaches
<1>12. CASE sender_Take
  BY <1>12, StreamTake
<1>13. CASE sender_Write
  BY <1>13, StreamWrite
<1>14. CASE transfer_loop_End
  BY <1>14, StreamEnds
<1>15. CASE UNCHANGED csVars
  BY <1>15, StreamStill
<1> QED
  BY <1>1, <1>2, <1>3, <1>4, <1>5, <1>6, <1>7, <1>8, <1>9, <1>10, <1>11, <1>12, <1>13, <1>14, <1>15
     DEF StreamNext

\* A step of any device is a step of the session or leaves it alone.
LEMMA StreamProject == [Next]_<<deviceVars, csVars>> => StreamNext \/ UNCHANGED csVars
BY DEF Next

\* The numbers of the commands are their positions, responses agree with the commands they
\* answer, and what is left of a response is what the client reads next.
THEOREM StreamInvariant == Spec => []StreamInv
<1>1. Init => StreamInv
  BY StreamStart DEF Init
<1>2. StreamInv /\ [Next]_<<deviceVars, csVars>> => StreamInv'
  BY StreamStep, StreamProject
<1> QED
  BY <1>1, <1>2, PTL DEF Spec

\* Where the client expects a header there is one, unless the receiver wrote
\* into another response or a response announced packets it does not carry.
THEOREM StreamStaysInStep == Spec => []StreamInStep
<1>1. StreamInv => StreamInStep
  BY DEF StreamInv, StepInv, StreamInStep
<1> QED
  BY <1>1, StreamInvariant, PTL

\* Every submit the receiver took is answered, unlinked or waits at an attached
\* interface; but for standard requests to an endpoint, other than endpoint 0, that
\* the device does not have, which get no response.
THEOREM SubmitsAreAnswered == Spec => []EverySubmitAnswered
<1>1. StreamInv => EverySubmitAnswered
  <2> SUFFICES ASSUME StreamInv, phase = "receiving", to_device = <<>>, ~peer_closed,
                      NEW n \in DOMAIN commands
               PROVE  TakenCareOf(n)
    BY DEF EverySubmitAnswered, TakenCareOf
  <2>1. n \in 1 .. Len(commands)
    BY DEF StreamInv, CommandsInv
  <2> QED
    BY <2>1 DEF StreamInv, CareInv
<1> QED
  BY <1>1, StreamInvariant, PTL
=============================================================================

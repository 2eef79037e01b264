-------------------------- MODULE ContainersProofs --------------------------
(***************************************************************************)
(* Proofs about ObjectPool and RingBuffer, for every size and any bytes.   *)
(*                                                                         *)
(* The pool: PoolTypeOK and StackIsFree are inductive together: free       *)
(* pushes an index that no stack entry has, so by the pigeonhole principle *)
(* the stack has room for it, and every other call keeps the stack and the *)
(* flags apart.                                                            *)
(*                                                                         *)
(* The ring buffer: no position is ever more than once around the end, so  *)
(* every remainder the code takes is at most one subtraction (Wrapped).    *)
(* RingInv keeps head, tail and count together; with it the bytes from the *)
(* head on are known one by one, and each call does to that sequence what  *)
(* ByteQueue says.                                                         *)
(***************************************************************************)
EXTENDS ObjectPool, RingBuffer, FiniteSetTheorems, SequenceTheorems, TLAPS

-----------------------------------------------------------------------------
(* The object pool.                                                        *)

PoolInv == PoolTypeOK /\ StackIsFree

\* The pool starts with every index on the stack.
LEMMA PoolInitInv == PoolInit => PoolInv
<1> SUFFICES ASSUME PoolInit PROVE PoolInv
    OBVIOUS
<1> USE PoolAssumption DEF PoolAssumption, PoolInit, Index
<1>1. PoolTypeOK
  <2>1. free_top \in 0 .. PoolSize
    BY PoolSize \in Nat
  <2>2. free_stack \in [Index -> Index] /\ used \in [Index -> BOOLEAN]
    OBVIOUS
  <2> QED BY <2>1, <2>2 DEF PoolTypeOK
<1>2. StackIsFree
  <2>1. Stack = Index
    BY DEF Stack
  <2> QED BY <2>1 DEF StackIsFree
<1> QED BY <1>1, <1>2 DEF PoolInv

\* Pushing and popping change the positions in use by the one at the top.
LEMMA Push == ASSUME NEW n \in Nat PROVE 0 .. n = (0 .. n - 1) \cup {n}
OBVIOUS
LEMMA Pop ==
  ASSUME NEW n \in Nat, n # 0 PROVE 0 .. n - 1 - 1 = (0 .. n - 1) \ {n - 1}
OBVIOUS

\* There is room on the stack while an object is lent out.
LEMMA RoomForLent ==
  ASSUME PoolInv, NEW o \in Index, used[o] PROVE free_top < PoolSize
<1> SUFFICES ASSUME free_top = PoolSize PROVE FALSE
  BY PoolAssumption DEF PoolInv, PoolTypeOK, PoolAssumption
<1>1. free_stack \in [Index -> Index \ {o}]
  BY PoolAssumption DEF PoolInv, PoolTypeOK, StackIsFree, Stack, Index, PoolAssumption
<1>2. IsFiniteSet(Index) /\ Cardinality(Index) = PoolSize
  BY FS_Interval, PoolAssumption DEF Index, PoolAssumption
<1>3. IsFiniteSet(Index \ {o}) /\ Cardinality(Index \ {o}) = PoolSize - 1
  BY <1>2, FS_RemoveElement
<1>4. PICK k, l \in Index : k # l /\ free_stack[k] = free_stack[l]
  <2>1. Cardinality(Index \ {o}) < Cardinality(Index)
    BY <1>2, <1>3, PoolAssumption DEF PoolAssumption
  <2> QED BY <1>1, <1>2, <1>3, <2>1, FS_PigeonHole
<1>5. Stack = Index
  BY DEF Stack, Index
<1> QED
  BY <1>4, <1>5 DEF PoolInv, StackIsFree

\* Every call keeps the invariant.
LEMMA PoolStepInv == PoolInv /\ [PoolNext]_poolVars => PoolInv'
<1> SUFFICES ASSUME PoolInv, [PoolNext]_poolVars PROVE PoolInv'
    OBVIOUS
<1> USE PoolAssumption DEF PoolAssumption, PoolInv, PoolTypeOK, Index
<1>1. CASE alloc_impl
  <2>1. PoolTypeOK'
    BY <1>1 DEF alloc_impl
  <2>2. free_top \in Nat /\ free_top' = free_top - 1 /\ free_top - 1 \in Stack
    BY <1>1 DEF alloc_impl, Stack
  <2>3. Stack' = Stack \ {free_top - 1}
    <3>1. free_top # 0
      BY <1>1 DEF alloc_impl
    <3>2. Stack' = 0 .. free_top - 1 - 1
      BY <2>2 DEF Stack
    <3> QED BY <2>2, <3>1, <3>2, Pop DEF Stack
  <2>4. \A k \in Stack : free_stack[k] \in Index
    BY DEF Stack
  <2>5. StackIsFree'
    BY <1>1, <2>2, <2>3, <2>4 DEF alloc_impl, StackIsFree
  <2> QED BY <2>1, <2>5
<1>2. CASE alloc_Empty
  BY <1>2 DEF alloc_Empty, StackIsFree, Stack
<1>3. CASE clear_impl
  BY <1>3 DEF clear_impl, StackIsFree, Stack
<1>4. CASE reset_impl
  BY <1>4 DEF reset_impl, StackIsFree, Stack
<1>5. ASSUME NEW o \in Index \cup {Foreign}, free_impl(o) PROVE PoolInv'
  <2>1. o \in Index /\ used[o] /\ free_top < PoolSize
    BY <1>5, RoomForLent DEF free_impl, Owned
  <2>2. PoolTypeOK'
    BY <1>5, <2>1 DEF free_impl
  <2>3. Stack' = Stack \cup {free_top} /\ free_top \notin Stack
    <3>1. free_top \in Nat /\ free_top' = free_top + 1
      BY <1>5 DEF free_impl
    <3>2. Stack' = 0 .. free_top
      BY <3>1 DEF Stack
    <3> QED BY <3>1, <3>2, Push DEF Stack
  <2>4. \A k \in Stack : k \in Index /\ free_stack[k] \in Index /\ free_stack[k] # o
    BY <2>1 DEF StackIsFree, Stack
  <2>5. \A k \in Stack : free_stack'[k] = free_stack[k]
    BY <1>5, <2>3, <2>4 DEF free_impl
  <2>6. free_stack'[free_top] = o
    BY <1>5, <2>1 DEF free_impl
  <2>7. StackIsFree'
    <3> DEFINE fs == free_stack  fs2 == free_stack'  top == free_top
    <3> HIDE DEF fs, fs2, top
    <3>1. /\ Stack' = Stack \cup {top} /\ top \notin Stack
          /\ \A k \in Stack : fs2[k] = fs[k] /\ fs[k] # o /\ fs[k] \in Index
          /\ fs2[top] = o
      BY <2>3, <2>4, <2>5, <2>6 DEF fs, fs2, top
    <3>2. /\ \A k, l \in Stack : fs[k] = fs[l] => k = l
          /\ \A k \in Stack : ~used[fs[k]]
      BY DEF StackIsFree, fs
    <3>3. \A i \in Index : used'[i] = (IF i = o THEN FALSE ELSE used[i])
      BY <1>5, <2>1 DEF free_impl
    <3>4. \A k, l \in Stack' : fs2[k] = fs2[l] => k = l
      BY <3>1, <3>2, Zenon
    <3>5. \A k \in Stack' : ~used'[fs2[k]]
      BY <2>1, <3>1, <3>2, <3>3, Zenon
    <3>6. \A i \in Index : ~used[i] => \E k \in Stack : fs[k] = i
      BY <1>5 DEF free_impl, Owned, StackIsFree, fs
    <3>7. \A i \in Index : ~used'[i] => \E k \in Stack' : fs2[k] = i
      BY <3>1, <3>3, <3>6, Zenon
    <3> QED BY <3>4, <3>5, <3>7 DEF StackIsFree, fs2
  <2> QED BY <2>2, <2>7
<1>6. ASSUME NEW o \in Index \cup {Foreign}, free_Rejected(o) PROVE PoolInv'
  BY <1>6 DEF free_Rejected, StackIsFree, Stack
<1>7. CASE UNCHANGED poolVars
  BY <1>7 DEF poolVars, StackIsFree, Stack
<1> QED BY <1>1, <1>2, <1>3, <1>4, <1>5, <1>6, <1>7 DEF PoolNext

\* Every reachable state of a pool satisfies the invariant.
THEOREM PoolInvariance == PoolSpec => []PoolInv
BY PoolInitInv, PoolStepInv, PTL DEF PoolSpec

\* The stack holds every free object once, in a pool of any size.
THEOREM PoolStackCorrect == PoolSpec => []StackIsFree
<1>1. PoolInv => StackIsFree
  BY DEF PoolInv
<1> QED BY <1>1, PoolInvariance, PTL

\* A pool starts as an allocator with nothing lent out.
LEMMA PoolInitRefines == PoolInit => Abstract!Init
BY PoolAssumption DEF PoolAssumption, PoolInit, Abstract!Init, Index

\* Every call is a call of the allocator, or changes nothing it can tell.
LEMMA PoolStepRefines ==
  PoolInv /\ [PoolNext]_poolVars => [Abstract!Next]_(Abstract!vars)
<1> SUFFICES ASSUME PoolInv, [PoolNext]_poolVars PROVE [Abstract!Next]_(Abstract!vars)
    OBVIOUS
<1> DEFINE Lent == IF deleted THEN {} ELSE {i \in Index : used[i]}
<1> USE PoolAssumption DEF PoolAssumption, PoolInv, PoolTypeOK
<1>1. CASE alloc_impl
  <2> DEFINE o == free_stack[free_top - 1]
  <2>1. o \in Index /\ ~used[o]
    BY <1>1 DEF alloc_impl, StackIsFree, Stack, Index
  <2>2. CASE deleted
    BY <1>1, <2>2 DEF alloc_impl, Abstract!Next, Abstract!Alloc
  <2>3. CASE ~deleted
    <3>1. o \in Index \ Lent
      BY <2>1, <2>3
    <3>2. Lent' = Lent \cup {o}
      BY <1>1, <2>1, <2>3 DEF alloc_impl
    <3>3. ret' = "object" /\ deleted' = deleted
      BY <1>1, <2>3 DEF alloc_impl
    <3> QED BY <2>3, <3>1, <3>2, <3>3 DEF Abstract!Next, Abstract!Alloc
  <2> QED BY <2>2, <2>3
<1>2. CASE alloc_Empty
  <2>1. deleted \/ Lent = Index
    <3>1. Stack = {}
      BY <1>2 DEF alloc_Empty, Stack
    <3>2. CASE ~deleted
      <4>1. \A i \in Index : used[i]
        BY <3>1, <3>2 DEF StackIsFree
      <4> QED BY <3>2, <4>1
    <3> QED BY <3>2
  <2>2. Lent' = Lent /\ deleted' = deleted /\ ret' = "nullptr"
    BY <1>2 DEF alloc_Empty
  <2> QED BY <2>1, <2>2 DEF Abstract!Next, Abstract!Alloc
<1>3. CASE clear_impl
  BY <1>3 DEF clear_impl, Abstract!Next, Abstract!Clear
<1>4. CASE reset_impl
  <2>1. Lent' = {} /\ ret' = "none" /\ deleted' = deleted
    BY <1>4 DEF reset_impl
  <2> QED BY <2>1 DEF Abstract!Next, Abstract!Reset
<1>5. ASSUME NEW o \in Index \cup {Foreign}, free_impl(o)
      PROVE [Abstract!Next]_(Abstract!vars)
  <2>1. ~deleted /\ ~deleted' /\ o \in Lent /\ Lent' = Lent \ {o} /\ ret' = "true"
    BY <1>5 DEF free_impl, Owned
  <2> QED BY <1>5, <2>1 DEF Abstract!Next, Abstract!Free
<1>6. ASSUME NEW o \in Index \cup {Foreign}, free_Rejected(o)
      PROVE [Abstract!Next]_(Abstract!vars)
  <2>1. (deleted \/ o \notin Lent) /\ Lent' = Lent /\ deleted' = deleted
        /\ ret' = "false"
    BY <1>6 DEF free_Rejected, Owned
  <2> QED BY <1>6, <2>1 DEF Abstract!Next, Abstract!Free
<1>7. CASE UNCHANGED poolVars
  BY <1>7 DEF poolVars, Abstract!vars
<1> QED BY <1>1, <1>2, <1>3, <1>4, <1>5, <1>6, <1>7 DEF PoolNext

\* A pool of any size implements the allocator.
THEOREM PoolRefines == PoolSpec => ImplementsAllocator
BY PoolInitRefines, PoolStepRefines, PoolInvariance, PTL
   DEF PoolSpec, ImplementsAllocator, Abstract!Spec

-----------------------------------------------------------------------------
(* The ring buffer.                                                        *)

\* A position that is at most once around the end.
Wrapped(x, n) == IF x < n THEN x ELSE x - n

\* It is what the code's remainder gives.
LEMMA AroundTheEnd ==
  ASSUME NEW n \in Nat \ {0}, NEW x \in 0 .. 2 * n - 1
  PROVE  x % n = Wrapped(x, n) /\ Wrapped(x, n) \in 0 .. n - 1
<1>1. x \in Int /\ n \in Int /\ n > 0
  OBVIOUS
<1>2. x = n * (x \div n) + (x % n) /\ x % n \in 0 .. n - 1 /\ x \div n \in Int
  BY <1>1
<1> DEFINE q == x \div n
           r == x % n
<1> HIDE DEF q, r
<1>3. x = n * q + r /\ r \in 0 .. n - 1 /\ q \in Int
  BY <1>2 DEF q, r
<1>4. q = 0 \/ q = 1
  <2>1. CASE q < 0
    <3>1. n * q <= n * (0 - 1)
      BY <2>1, <1>3
    <3> QED
      BY <1>3, <3>1
  <2>2. CASE q > 1
    <3>1. n * q >= n * 2
      BY <2>2, <1>3
    <3> QED
      BY <1>3, <3>1
  <2> QED
    BY <1>3, <2>1, <2>2
<1>5. r = Wrapped(x, n)
  BY <1>3, <1>4 DEF Wrapped
<1> QED
  BY <1>3, <1>5 DEF r

\* Positions are inside the buffer, and tail is count after head; a buffer is
\* there, of the right size, as soon as it holds something.
RingInv ==
  /\ capacity_ \in 0 .. MaxCapacity /\ count_ \in 0 .. capacity_
  /\ head_ \in Nat /\ tail_ \in Nat
  /\ buffer_ \in [0 .. capacity_ - 1 -> Bytes] \/ (DOMAIN buffer_ = {} /\ count_ = 0)
  /\ capacity_ = 0 => head_ = 0 /\ tail_ = 0
  /\ capacity_ # 0 => /\ head_ < capacity_ /\ tail_ < capacity_
                      /\ tail_ = Wrapped(head_ + count_, capacity_)

\* What RingInv says of the sizes.
LEMMA Sizes == RingInv => /\ capacity_ \in Nat /\ count_ \in Nat /\ count_ <= capacity_
                          /\ MaxCapacity \in Nat /\ Bytes # {}
BY RingAssumption DEF RingInv

\* A new vector has a byte at each position.
LEMMA FreshIs == ASSUME NEW n \in Nat PROVE Fresh(n) \in [0 .. n - 1 -> Bytes]
BY RingAssumption DEF Fresh

\* The bytes from the head on, one by one.
LEMMA ContentIs ==
  ASSUME RingInv, NEW n \in 0 .. count_
  PROVE  /\ FromHead(n) \in Seq(Bytes) /\ Len(FromHead(n)) = n
         /\ \A i \in 1 .. n : /\ Wrapped(head_ + i - 1, capacity_) \in 0 .. capacity_ - 1
                              /\ FromHead(n)[i] = buffer_[Wrapped(head_ + i - 1, capacity_)]
<1>1. n \in Nat
  BY Sizes
<1>2. ASSUME NEW i \in 1 .. n
      PROVE  /\ (head_ + i - 1) % capacity_ = Wrapped(head_ + i - 1, capacity_)
             /\ Wrapped(head_ + i - 1, capacity_) \in 0 .. capacity_ - 1
             /\ buffer_[Wrapped(head_ + i - 1, capacity_)] \in Bytes
  <2>1. capacity_ \in Nat \ {0} /\ count_ # 0
    BY <1>1, Sizes
  <2>2. head_ + i - 1 \in 0 .. 2 * capacity_ - 1
    BY <1>1, <2>1, Sizes DEF RingInv
  <2>3. /\ (head_ + i - 1) % capacity_ = Wrapped(head_ + i - 1, capacity_)
        /\ Wrapped(head_ + i - 1, capacity_) \in 0 .. capacity_ - 1
    BY <2>1, <2>2, AroundTheEnd
  <2>4. buffer_ \in [0 .. capacity_ - 1 -> Bytes]
    BY <2>1 DEF RingInv
  <2> QED
    BY <2>3, <2>4
<1> DEFINE e(i) == buffer_[(head_ + i - 1) % capacity_]
<1>3. FromHead(n) = [i \in 1 .. n |-> e(i)]
  BY DEF FromHead
<1>4. \A i \in 1 .. n : e(i) \in Bytes /\ e(i) = buffer_[Wrapped(head_ + i - 1, capacity_)]
  BY <1>2
<1> HIDE DEF e
<1>5. FromHead(n) \in Seq(Bytes) /\ Len(FromHead(n)) = n /\ \A i \in 1 .. n : FromHead(n)[i] = e(i)
  BY <1>1, <1>3, <1>4
<1> QED
  BY <1>2, <1>4, <1>5

\* The whole content, in a form that can be primed.
AllContent ==
  /\ FromHead(count_) \in Seq(Bytes) /\ Len(FromHead(count_)) = count_
  /\ \A i \in 1 .. count_ : /\ Wrapped(head_ + i - 1, capacity_) \in 0 .. capacity_ - 1
                            /\ FromHead(count_)[i] = buffer_[Wrapped(head_ + i - 1, capacity_)]

\* It holds wherever the invariant does.
LEMMA ContentAll == RingInv => AllContent
<1> SUFFICES ASSUME RingInv PROVE AllContent
  OBVIOUS
<1>1. count_ \in 0 .. count_
  BY Sizes
<1> QED
  BY <1>1, ContentIs DEF AllContent

\* Storing changes the positions behind the tail, around the end, and no others.
LEMMA StoredIs ==
  ASSUME NEW n \in Nat \ {0}, NEW t \in 0 .. n - 1, NEW buf \in [0 .. n - 1 -> Bytes],
         NEW data \in Seq(Bytes), Len(data) <= n
  PROVE  /\ Stored(buf, n, t, data) \in [0 .. n - 1 -> Bytes]
         /\ \A p \in 0 .. n - 1 :
              Stored(buf, n, t, data)[p] = IF Wrapped(p + n - t, n) < Len(data)
                                           THEN data[Wrapped(p + n - t, n) + 1] ELSE buf[p]
<1> DEFINE e(p) == LET i == (p + n - t) % n IN IF i < Len(data) THEN data[i + 1] ELSE buf[p]
<1>1. Stored(buf, n, t, data) = [p \in 0 .. n - 1 |-> e(p)]
  BY DEF Stored
<1>2. ASSUME NEW p \in 0 .. n - 1
      PROVE  /\ e(p) \in Bytes
             /\ e(p) = IF Wrapped(p + n - t, n) < Len(data)
                       THEN data[Wrapped(p + n - t, n) + 1] ELSE buf[p]
  <2>1. p + n - t \in 0 .. 2 * n - 1
    OBVIOUS
  <2>2. (p + n - t) % n = Wrapped(p + n - t, n) /\ Wrapped(p + n - t, n) \in 0 .. n - 1
    BY <2>1, AroundTheEnd
  <2> DEFINE i == Wrapped(p + n - t, n)
  <2> HIDE DEF i
  <2>3. e(p) = IF i < Len(data) THEN data[i + 1] ELSE buf[p]
    BY <2>2 DEF i
  <2>4. i < Len(data) => data[i + 1] \in Bytes
    <3>1. i < Len(data) => i + 1 \in 1 .. Len(data)
      BY <2>2 DEF i
    <3> QED
      BY <3>1
  <2> QED
    BY <2>3, <2>4 DEF i
<1> HIDE DEF e
<1> QED
  BY <1>1, <1>2

\* Data blocks are finite sequences, the empty one among them.
LEMMA DataIs ==
  /\ <<>> \in Data
  /\ \A data \in Data : data \in Seq(Bytes) /\ Len(data) \in Nat
<1>1. <<>> \in [1 .. 0 -> Bytes] /\ 0 \in 0 .. MaxCapacity
  BY RingAssumption
<1>2. ASSUME NEW n \in 0 .. MaxCapacity, NEW data \in [1 .. n -> Bytes]
      PROVE  data \in Seq(Bytes) /\ Len(data) \in Nat
  <2>1. n \in Nat
    BY RingAssumption
  <2> QED
    BY <2>1
<1> QED
  BY <1>1, <1>2 DEF Data

\* The beginning of a sequence.
LEMMA FrontIs ==
  ASSUME NEW S, NEW s \in Seq(S), NEW n \in 0 .. Len(s)
  PROVE  /\ SubSeq(s, 1, n) \in Seq(S) /\ Len(SubSeq(s, 1, n)) = n
         /\ \A i \in 1 .. n : SubSeq(s, 1, n)[i] = s[i]
<1>1. Len(s) \in Nat /\ n \in Nat /\ n <= Len(s)
  OBVIOUS
<1> QED
  BY <1>1, SubSeqProperties

\* Sequences with the same elements are the same.
LEMMA SameElements ==
  ASSUME NEW S, NEW s \in Seq(S), NEW t \in Seq(S), Len(s) = Len(t),
         \A i \in 1 .. Len(s) : s[i] = t[i]
  PROVE  s = t
BY SeqEqual

\* write: the bytes go behind the ones that are there.
LEMMA Written ==
  ASSUME RingInv, NEW data \in Data, write(data)
  PROVE  RingInv' /\ Queue!Write(data)
<1> DEFINE c == capacity_
           k == Smaller(Len(data), c - count_)
           d == SubSeq(data, 1, k)
           buf == IF DOMAIN buffer_ = {} THEN Fresh(c) ELSE buffer_
<1>1. /\ c # 0 /\ out' = d /\ buffer_' = Stored(buf, c, tail_, d)
      /\ tail_' = (tail_ + Len(d)) % c /\ count_' = count_ + Len(d)
      /\ capacity_' = c /\ head_' = head_
  BY DEF write
<1>2. /\ c \in Nat \ {0} /\ count_ \in 0 .. c /\ head_ \in 0 .. c - 1 /\ tail_ \in 0 .. c - 1
      /\ tail_ = Wrapped(head_ + count_, c) /\ c \in 0 .. MaxCapacity
  BY <1>1, Sizes DEF RingInv
<1>3. data \in Seq(Bytes) /\ Len(data) \in Nat
  BY DataIs
<1>4. k \in 0 .. Len(data) /\ k \in 0 .. c - count_
  BY <1>2, <1>3 DEF Smaller
<1>5. d \in Seq(Bytes) /\ Len(d) = k /\ \A i \in 1 .. k : d[i] = data[i]
  BY <1>3, <1>4, FrontIs
<1>6. buf \in [0 .. c - 1 -> Bytes] /\ (count_ # 0 => buf = buffer_)
  <2>1. CASE DOMAIN buffer_ = {}
    <3>1. count_ = 0
      <4>1. 0 \in 0 .. c - 1
        BY <1>2
      <4>2. buffer_ \notin [0 .. capacity_ - 1 -> Bytes]
        BY <2>1, <4>1
      <4> QED
        BY <4>2 DEF RingInv
    <3> QED
      BY <1>2, <2>1, <3>1, FreshIs
  <2>2. CASE DOMAIN buffer_ # {}
    BY <2>2 DEF RingInv
  <2> QED
    BY <2>1, <2>2
<1>c. c = capacity_
  OBVIOUS
<1> HIDE DEF c, k, d, buf
<1>7. /\ buffer_' \in [0 .. c - 1 -> Bytes]
      /\ \A p \in 0 .. c - 1 :
           buffer_'[p] = IF Wrapped(p + c - tail_, c) < k
                         THEN d[Wrapped(p + c - tail_, c) + 1] ELSE buf[p]
  <2>1. Len(d) <= c /\ Len(d) = k
    BY <1>2, <1>4, <1>5
  <2> DEFINE s == Stored(buf, c, tail_, d)
             w(p) == Wrapped(p + c - tail_, c)
  <2>2. /\ s \in [0 .. c - 1 -> Bytes]
        /\ \A p \in 0 .. c - 1 : s[p] = IF w(p) < Len(d) THEN d[w(p) + 1] ELSE buf[p]
    BY <1>2, <1>5, <1>6, <2>1, StoredIs
  <2> HIDE DEF s, w
  <2>3. buffer_' = s
    BY <1>1 DEF s
  <2>4. /\ buffer_' \in [0 .. c - 1 -> Bytes]
        /\ \A p \in 0 .. c - 1 : buffer_'[p] = IF w(p) < k THEN d[w(p) + 1] ELSE buf[p]
    BY <2>1, <2>2, <2>3
  <2> QED
    BY <2>4 DEF w
<1>8. tail_' = Wrapped(tail_ + k, c) /\ count_' = count_ + k
  <2>1. tail_ + k \in 0 .. 2 * c - 1
    BY <1>2, <1>4
  <2> QED
    BY <1>1, <1>2, <1>5, <2>1, AroundTheEnd
<1>9. RingInv'
  <2>1. k \in Nat /\ count_ + k \in 0 .. c
    BY <1>2, <1>4
  <2>2. Wrapped(tail_ + k, c) \in 0 .. c - 1
    BY <1>2, <1>4 DEF Wrapped
  <2>3. Wrapped(tail_ + k, c) = Wrapped(head_ + (count_ + k), c)
    BY <1>2, <1>4 DEF Wrapped
  <2>4. /\ tail_' \in 0 .. c - 1 /\ head_' \in 0 .. c - 1 /\ count_' \in 0 .. c
        /\ capacity_' \in 0 .. MaxCapacity /\ capacity_' = c /\ c # 0
        /\ tail_' = Wrapped(head_' + count_', c)
    BY <1>1, <1>2, <1>8, <2>1, <2>2, <2>3
  <2>5. tail_' \in Nat /\ head_' \in Nat /\ tail_' < c /\ head_' < c
    BY <1>2, <2>4
  <2> QED
    BY <1>7, <2>4, <2>5 DEF RingInv
<1>10. FromHead(count_)' = FromHead(count_) \o d
  <2>1. /\ FromHead(count_) \in Seq(Bytes) /\ Len(FromHead(count_)) = count_
        /\ \A i \in 1 .. count_ : /\ Wrapped(head_ + i - 1, c) \in 0 .. c - 1
                                  /\ FromHead(count_)[i] = buffer_[Wrapped(head_ + i - 1, c)]
    <3>1. count_ \in 0 .. count_
      BY <1>2
    <3> QED
      BY <1>c, <3>1, ContentIs
  <2>2. /\ FromHead(count_)' \in Seq(Bytes) /\ Len(FromHead(count_)') = count_ + k
        /\ \A i \in 1 .. count_ + k :
             /\ Wrapped(head_ + i - 1, c) \in 0 .. c - 1
             /\ FromHead(count_)'[i] = buffer_'[Wrapped(head_ + i - 1, c)]
    <3>2. AllContent'
      BY <1>9, ContentAll, PTL
    <3>3. /\ FromHead(count_)' \in Seq(Bytes) /\ Len(FromHead(count_)') = count_'
          /\ \A i \in 1 .. count_' :
               /\ Wrapped(head_' + i - 1, capacity_') \in 0 .. capacity_' - 1
               /\ FromHead(count_)'[i] = buffer_'[Wrapped(head_' + i - 1, capacity_')]
      BY <3>2 DEF AllContent
    <3> QED
      BY <1>1, <1>8, <3>3
  <2> DEFINE old == FromHead(count_)
             new == FromHead(count_)'
  <2> HIDE DEF old, new
  <2>3. /\ old \o d \in Seq(Bytes) /\ Len(old \o d) = count_ + k
        /\ \A i \in 1 .. count_ + k : (old \o d)[i] = IF i <= count_ THEN old[i] ELSE d[i - count_]
    <3>1. old \in Seq(Bytes) /\ Len(old) = count_ /\ d \in Seq(Bytes) /\ Len(d) = k
      BY <1>5, <2>1 DEF old
    <3>2. count_ \in Nat /\ k \in Nat
      BY <1>2, <1>4
    <3>3. /\ old \o d \in Seq(Bytes) /\ Len(old \o d) = Len(old) + Len(d)
          /\ \A i \in 1 .. Len(old) + Len(d) :
               (old \o d)[i] = IF i <= Len(old) THEN old[i] ELSE d[i - Len(old)]
      BY <3>1, ConcatProperties
    <3> QED
      BY <3>1, <3>2, <3>3
  <2>4. ASSUME NEW i \in 1 .. count_ + k PROVE new[i] = (old \o d)[i]
    <3> DEFINE p == Wrapped(head_ + i - 1, c)
    <3>1. p \in 0 .. c - 1 /\ new[i] = buffer_'[p]
      BY <2>2 DEF new
    <3>2. CASE i <= count_
      <4>1. ~(Wrapped(p + c - tail_, c) < k)
        BY <1>2, <1>4, <3>2 DEF Wrapped
      <4>2. buffer_'[p] = buf[p]
        BY <1>7, <3>1, <4>1
      <4>3. i \in 1 .. count_ /\ count_ # 0
        BY <1>2, <3>2
      <4> QED
        BY <1>6, <2>1, <2>3, <3>1, <3>2, <4>2, <4>3 DEF old
    <3>3. CASE ~(i <= count_)
      <4>1. Wrapped(p + c - tail_, c) = i - 1 - count_
        BY <1>2, <1>4, <3>3 DEF Wrapped
      <4>2. i - 1 - count_ < k /\ i - 1 - count_ + 1 = i - count_
        BY <1>2, <1>4
      <4>3. buffer_'[p] = d[i - count_]
        BY <1>7, <3>1, <4>1, <4>2
      <4> QED
        BY <2>3, <3>1, <3>3, <4>3
    <3> QED
      BY <3>2, <3>3
  <2>5. new \in Seq(Bytes) /\ Len(new) = count_ + k
    BY <2>2 DEF new
  <2>6. new = old \o d
    BY <2>3, <2>4, <2>5, SameElements
  <2> QED
    BY <2>6 DEF old, new
<1>11. d = Queue!Front(data, c - Len(FromHead(count_)))
  <2>1. Len(FromHead(count_)) = count_
    <3>1. count_ \in 0 .. count_
      BY <1>2
    <3> QED
      BY <3>1, ContentIs
  <2>2. Queue!Least(c - count_, Len(data)) = k
    BY <1>2, <1>3 DEF Queue!Least, k, Smaller
  <2> QED
    BY <2>1, <2>2 DEF Queue!Front, d
<1> QED
  BY <1>c, <1>1, <1>9, <1>10, <1>11 DEF Queue!Write

\* What follows a front.
LEMMA RestIs ==
  ASSUME NEW S, NEW s \in Seq(S), NEW n \in 0 .. Len(s)
  PROVE  /\ SubSeq(s, n + 1, Len(s)) \in Seq(S) /\ Len(SubSeq(s, n + 1, Len(s))) = Len(s) - n
         /\ \A i \in 1 .. Len(s) - n : SubSeq(s, n + 1, Len(s))[i] = s[n + i]
<1>1. Len(s) \in Nat /\ n \in Nat /\ n <= Len(s)
  OBVIOUS
<1>2. SubSeq(s, n + 1, Len(s)) = [i \in 1 .. Len(s) - n |-> s[n + i]]
  <2>1. ASSUME NEW i \in 1 .. Len(s) - n PROVE i + (n + 1) - 1 = n + i
    BY <1>1
  <2> QED
    BY <1>1, <2>1
<1>3. \A i \in 1 .. Len(s) - n : s[n + i] \in S
  BY <1>1
<1>4. Len(s) - n \in Nat
  BY <1>1
<1> QED
  BY <1>2, <1>3, <1>4

\* The first bytes from the head on are the front of the content.
LEMMA FrontOfContent ==
  ASSUME RingInv, NEW n \in Nat
  PROVE  /\ Smaller(n, count_) \in 0 .. count_ /\ Smaller(n, count_) <= n
         /\ FromHead(Smaller(n, count_)) = Queue!Front(FromHead(count_), n)
<1> DEFINE k == Smaller(n, count_)
<1>1. k \in 0 .. count_ /\ count_ \in 0 .. count_ /\ count_ \in Nat /\ k <= n
  BY Sizes DEF Smaller
<1>2. Queue!Least(n, count_) = k
  BY <1>1 DEF Queue!Least, Smaller
<1> HIDE DEF k
<1>3. AllContent
  BY ContentAll
<1> DEFINE w(i) == Wrapped(head_ + i - 1, capacity_)
           all == FromHead(count_)
<1> HIDE DEF w
<1>4. all \in Seq(Bytes) /\ Len(all) = count_ /\ \A i \in 1 .. count_ : all[i] = buffer_[w(i)]
  BY <1>3 DEF AllContent, w
<1>5. /\ FromHead(k) \in Seq(Bytes) /\ Len(FromHead(k)) = k
      /\ \A i \in 1 .. k : FromHead(k)[i] = buffer_[w(i)]
  BY <1>1, ContentIs DEF w
<1> HIDE DEF all
<1>6. /\ SubSeq(all, 1, k) \in Seq(Bytes) /\ Len(SubSeq(all, 1, k)) = k
      /\ \A i \in 1 .. k : SubSeq(all, 1, k)[i] = all[i]
  BY <1>1, <1>4, FrontIs
<1>7. \A i \in 1 .. k : SubSeq(all, 1, k)[i] = FromHead(k)[i]
  BY <1>1, <1>4, <1>5, <1>6
<1>8. FromHead(k) = SubSeq(all, 1, k)
  BY <1>5, <1>6, <1>7, SameElements
<1> QED
  BY <1>1, <1>2, <1>4, <1>8 DEF Queue!Front, all, k

\* write before the first resize: there is no room.
LEMMA NothingWritten ==
  ASSUME RingInv, write_NoCapacity
  PROVE  RingInv' /\ Queue!Write(<<>>)
<1>1. /\ capacity_ = 0 /\ out' = <<>> /\ UNCHANGED <<buffer_, capacity_, head_, tail_, count_>>
  BY DEF write_NoCapacity
<1>2. RingInv' /\ FromHead(count_)' = FromHead(count_)
  BY <1>1 DEF RingInv, FromHead
<1>3. FromHead(count_) \in Seq(Bytes) /\ Len(FromHead(count_)) = count_ /\ count_ = 0
  BY <1>1, ContentAll, Sizes DEF AllContent
<1>4. Queue!Front(<<>>, capacity_ - Len(FromHead(count_))) = <<>>
  BY <1>1, <1>3 DEF Queue!Front, Queue!Least
<1>5. FromHead(count_) \o <<>> = FromHead(count_)
  BY <1>3
<1> QED
  BY <1>1, <1>2, <1>4, <1>5 DEF Queue!Write

\* read: the oldest bytes leave.
LEMMA ReadOut ==
  ASSUME RingInv, NEW n \in 0 .. MaxCapacity, read(n)
  PROVE  RingInv' /\ Queue!Read(n)
<1> DEFINE c == capacity_
           k == Smaller(n, count_)
<1>1. /\ out' = FromHead(k) /\ head_' = (IF k = 0 THEN head_ ELSE (head_ + k) % c)
      /\ count_' = count_ - k /\ UNCHANGED <<buffer_, capacity_, tail_>>
  BY DEF read
<1>2. n \in Nat /\ count_ \in 0 .. c /\ c \in Nat
  BY Sizes
<1>3. k \in 0 .. count_ /\ k <= n /\ FromHead(k) = Queue!Front(FromHead(count_), n)
  BY <1>2, FrontOfContent
<1>4. Queue!Least(n, count_) = k
  BY <1>2 DEF Queue!Least, Smaller
<1>c. c = capacity_
  OBVIOUS
<1> HIDE DEF c, k
<1>5. c # 0 => /\ c \in Nat \ {0} /\ head_ \in 0 .. c - 1 /\ tail_ \in 0 .. c - 1
               /\ tail_ = Wrapped(head_ + count_, c)
  BY <1>c, <1>2 DEF RingInv
<1>6. c # 0 => head_' = Wrapped(head_ + k, c) /\ Wrapped(head_ + k, c) \in 0 .. c - 1
  <2> SUFFICES ASSUME c # 0 PROVE head_' = Wrapped(head_ + k, c) /\ Wrapped(head_ + k, c) \in 0 .. c - 1
    OBVIOUS
  <2>1. head_ + k \in 0 .. 2 * c - 1
    BY <1>2, <1>3, <1>5
  <2>2. (head_ + k) % c = Wrapped(head_ + k, c) /\ Wrapped(head_ + k, c) \in 0 .. c - 1
    BY <1>5, <2>1, AroundTheEnd
  <2>3. k = 0 => Wrapped(head_ + k, c) = head_
    BY <1>5 DEF Wrapped
  <2> QED
    BY <1>1, <2>2, <2>3
<1>7. c = 0 => k = 0 /\ head_' = head_ /\ head_ = 0 /\ tail_ = 0 /\ count_' = 0
  BY <1>c, <1>1, <1>2, <1>3 DEF RingInv
<1>8. RingInv'
  <2>1. count_' \in 0 .. c /\ count_' <= count_ /\ count_' \in Nat
    BY <1>1, <1>2, <1>3
  <2>2. c # 0 => tail_' = Wrapped(head_' + count_', c)
    BY <1>1, <1>2, <1>3, <1>5, <1>6 DEF Wrapped
  <2>3. buffer_' = buffer_ /\ tail_' = tail_ /\ capacity_' = c /\ capacity_' \in 0 .. MaxCapacity
    BY <1>1, <1>c DEF RingInv
  <2>4. buffer_ \in [0 .. c - 1 -> Bytes] \/ (DOMAIN buffer_ = {} /\ count_ = 0)
    BY <1>c DEF RingInv
  <2>5. count_ = 0 => count_' = 0
    BY <2>1
  <2>6. head_' \in Nat /\ tail_' \in Nat /\ (c # 0 => head_' < c /\ tail_' < c)
    BY <1>5, <1>6, <1>7, <2>3
  <2> QED
    BY <1>7, <2>1, <2>2, <2>3, <2>4, <2>5, <2>6 DEF RingInv
<1>9. FromHead(count_)' = Queue!Rest(FromHead(count_), n)
  <2> DEFINE all == FromHead(count_)
             new == FromHead(count_)'
             w(i) == Wrapped(head_ + i - 1, c)
             w2(i) == Wrapped(head_' + i - 1, c)
  <2>0. AllContent /\ AllContent'
    BY <1>8, ContentAll, PTL
  <2>1. all \in Seq(Bytes) /\ Len(all) = count_ /\ \A i \in 1 .. count_ : all[i] = buffer_[w(i)]
    BY <1>c, <2>0 DEF AllContent
  <2>2. /\ new \in Seq(Bytes) /\ Len(new) = count_' /\ capacity_' = c
        /\ \A i \in 1 .. count_' : new[i] = buffer_'[Wrapped(head_' + i - 1, capacity_')]
    BY <1>1, <1>c, <2>0 DEF AllContent
  <2> HIDE DEF all, new
  <2>3. \A i \in 1 .. count_ - k : new[i] = buffer_[w2(i)]
    BY <1>1, <2>2
  <2>4. ASSUME NEW i \in 1 .. count_ - k PROVE w2(i) = w(k + i) /\ k + i \in 1 .. count_
    BY <1>2, <1>3, <1>5, <1>6 DEF Wrapped
  <2> HIDE DEF w, w2
  <2>5. /\ SubSeq(all, k + 1, count_) \in Seq(Bytes) /\ Len(SubSeq(all, k + 1, count_)) = count_ - k
        /\ \A i \in 1 .. count_ - k : SubSeq(all, k + 1, count_)[i] = all[k + i]
    BY <1>3, <2>1, RestIs
  <2>6. \A i \in 1 .. count_ - k : new[i] = SubSeq(all, k + 1, count_)[i]
    BY <2>1, <2>3, <2>4, <2>5
  <2>7. new = SubSeq(all, k + 1, count_)
    BY <1>1, <2>2, <2>5, <2>6, SameElements
  <2> QED
    BY <1>4, <2>1, <2>7 DEF Queue!Rest, all, new
<1> QED
  BY <1>1, <1>3, <1>8, <1>9 DEF Queue!Read

\* peek shows them only.
LEMMA Peeked ==
  ASSUME RingInv, NEW n \in 0 .. MaxCapacity, peek(n)
  PROVE  RingInv' /\ Queue!Peek(n)
<1>1. n \in Nat
  BY RingAssumption
<1>2. RingInv' /\ FromHead(count_)' = FromHead(count_) /\ capacity_' = capacity_
  BY DEF peek, RingInv, FromHead
<1> QED
  BY <1>1, <1>2, FrontOfContent DEF peek, Queue!Peek

\* An empty content.
LEMMA EmptyIs == RingInv /\ count_ = 0 => FromHead(count_) = <<>>
BY ContentAll DEF AllContent

\* clear leaves an empty queue.
LEMMA Cleared == ASSUME RingInv, clear PROVE RingInv' /\ Queue!Clear
<1>1. /\ head_' = 0 /\ tail_' = 0 /\ count_' = 0 /\ out' = <<>>
      /\ buffer_' = buffer_ /\ capacity_' = capacity_
  BY DEF clear
<1>2. RingInv'
  <2>1. capacity_ \in Nat /\ (capacity_ # 0 => Wrapped(0 + 0, capacity_) = 0 /\ 0 < capacity_)
    BY Sizes DEF Wrapped
  <2>2. /\ capacity_' \in 0 .. MaxCapacity /\ count_' \in 0 .. capacity_' /\ head_' \in Nat /\ tail_' \in Nat
        /\ buffer_' \in [0 .. capacity_' - 1 -> Bytes] \/ (DOMAIN buffer_' = {} /\ count_' = 0)
    BY <1>1, <2>1 DEF RingInv
  <2> QED
    BY <1>1, <2>1, <2>2 DEF RingInv
<1>3. FromHead(count_)' = <<>>
  <2>1. AllContent'
    BY <1>2, ContentAll, PTL
  <2> QED
    BY <1>1, <2>1 DEF AllContent
<1> QED
  BY <1>1, <1>2, <1>3 DEF Queue!Clear

\* resize to 0 frees the vector.
LEMMA ResizedToZero == ASSUME RingInv, resize_ToZero PROVE RingInv' /\ Queue!Resize(0)
<1>1. /\ head_' = 0 /\ tail_' = 0 /\ count_' = 0 /\ out' = <<>>
      /\ buffer_' = <<>> /\ capacity_' = 0
  BY DEF resize_ToZero
<1>2. RingInv'
  <2>1. DOMAIN <<>> = {} /\ 0 \in 0 .. MaxCapacity
    BY RingAssumption
  <2> QED
    BY <1>1, <2>1 DEF RingInv
<1>3. FromHead(count_)' = <<>>
  <2>1. AllContent'
    BY <1>2, ContentAll, PTL
  <2> QED
    BY <1>1, <2>1 DEF AllContent
<1>4. Queue!Front(FromHead(count_), 0) = <<>>
  <2>1. FromHead(count_) \in Seq(Bytes) /\ Len(FromHead(count_)) = count_ /\ count_ \in Nat
    BY ContentAll, Sizes DEF AllContent
  <2>2. Queue!Least(0, count_) = 0
    BY <2>1 DEF Queue!Least
  <2>3. SubSeq(FromHead(count_), 1, 0) \in Seq(Bytes) /\ Len(SubSeq(FromHead(count_), 1, 0)) = 0
    BY <2>1, FrontIs
  <2> QED
    BY <2>1, <2>2, <2>3 DEF Queue!Front
<1> QED
  BY <1>1, <1>3, <1>4, <1>2 DEF Queue!Resize

\* resize to another size: the oldest bytes that fit are moved to the beginning.
LEMMA Resized ==
  ASSUME RingInv, NEW n \in 0 .. MaxCapacity, resize(n)
  PROVE  RingInv' /\ Queue!Resize(n)
<1> DEFINE k == Smaller(count_, n)
           old == FromHead(k)
<1>1. /\ n # 0 /\ capacity_' = n /\ buffer_' = Stored(Fresh(n), n, 0, old)
      /\ head_' = 0 /\ tail_' = Len(old) % n /\ count_' = Len(old) /\ out' = <<>>
  BY DEF resize
<1>2. n \in Nat \ {0} /\ count_ \in Nat
  BY <1>1, Sizes
<1>3. Smaller(n, count_) = k
  BY <1>2 DEF Smaller
<1>4. k \in 0 .. count_ /\ k \in 0 .. n /\ old = Queue!Front(FromHead(count_), n)
  BY <1>2, <1>3, FrontOfContent
<1>5. old \in Seq(Bytes) /\ Len(old) = k
  BY <1>4, ContentIs
<1> HIDE DEF k, old
<1>6. /\ buffer_' \in [0 .. n - 1 -> Bytes]
      /\ \A p \in 0 .. n - 1 : p < k => buffer_'[p] = old[p + 1]
  <2> DEFINE fresh == Fresh(n)
             s == Stored(fresh, n, 0, old)
             w(p) == Wrapped(p + n - 0, n)
  <2>1. fresh \in [0 .. n - 1 -> Bytes]
    BY <1>2, FreshIs
  <2>2. buffer_' = s
    BY <1>1
  <2> HIDE DEF fresh
  <2>3. 0 \in 0 .. n - 1 /\ Len(old) <= n
    BY <1>2, <1>4, <1>5
  <2>4. /\ s \in [0 .. n - 1 -> Bytes]
        /\ \A p \in 0 .. n - 1 : s[p] = IF w(p) < Len(old) THEN old[w(p) + 1] ELSE fresh[p]
    BY <1>2, <1>5, <2>1, <2>3, StoredIs
  <2>5. \A p \in 0 .. n - 1 : w(p) = p
    BY <1>2 DEF Wrapped
  <2> HIDE DEF s, w
  <2> QED
    BY <1>5, <2>2, <2>4, <2>5
<1>7. tail_' = Wrapped(k, n) /\ Wrapped(k, n) \in 0 .. n - 1
  <2>1. k \in 0 .. 2 * n - 1
    BY <1>2, <1>4
  <2> QED
    BY <1>1, <1>2, <1>5, <2>1, AroundTheEnd
<1>8. RingInv'
  <2>1. Wrapped(0 + k, n) = Wrapped(k, n) /\ 0 < n
    BY <1>2, <1>4 DEF Wrapped
  <2>2. /\ capacity_' \in 0 .. MaxCapacity /\ count_' \in 0 .. capacity_' /\ capacity_' # 0
        /\ head_' \in Nat /\ head_' < capacity_' /\ tail_' \in Nat /\ tail_' < capacity_'
        /\ tail_' = Wrapped(head_' + count_', capacity_')
    BY <1>1, <1>2, <1>4, <1>5, <1>7, <2>1
  <2> QED
    BY <1>1, <1>6, <2>2 DEF RingInv
<1>9. FromHead(count_)' = old
  <2> DEFINE new == FromHead(count_)'
  <2>0. AllContent'
    BY <1>8, ContentAll, PTL
  <2>1. /\ new \in Seq(Bytes) /\ Len(new) = count_'
        /\ \A i \in 1 .. count_' : new[i] = buffer_'[Wrapped(head_' + i - 1, capacity_')]
    BY <2>0 DEF AllContent
  <2> HIDE DEF new
  <2>2. ASSUME NEW i \in 1 .. k
        PROVE  Wrapped(0 + i - 1, n) = i - 1 /\ i - 1 \in 0 .. n - 1 /\ i - 1 < k /\ i - 1 + 1 = i
    BY <1>2, <1>4 DEF Wrapped
  <2>3. ASSUME NEW i \in 1 .. k PROVE new[i] = old[i]
    <3>1. new[i] = buffer_'[Wrapped(0 + i - 1, n)]
      BY <1>1, <1>5, <2>1
    <3>2. buffer_'[i - 1] = old[i - 1 + 1]
      BY <1>6, <2>2
    <3> QED
      BY <2>2, <3>1, <3>2
  <2>4. Len(new) = k
    BY <1>1, <1>5, <2>1
  <2>5. new = old
    BY <1>5, <2>1, <2>3, <2>4, SameElements
  <2> QED
    BY <2>5 DEF new
<1> QED
  BY <1>1, <1>4, <1>8, <1>9 DEF Queue!Resize

\* The buffer starts empty.
LEMMA RingInitInv == RingInit => RingInv /\ Queue!Init
<1> SUFFICES ASSUME RingInit PROVE RingInv /\ Queue!Init
  OBVIOUS
<1>1. /\ capacity_ \in 0 .. MaxCapacity /\ buffer_ = <<>> /\ head_ = 0 /\ tail_ = 0
      /\ count_ = 0 /\ out = <<>>
  BY DEF RingInit
<1>2. RingInv
  <2>1. DOMAIN <<>> = {} /\ capacity_ \in Nat
    BY <1>1, RingAssumption
  <2>2. capacity_ # 0 => 0 < capacity_ /\ Wrapped(0 + 0, capacity_) = 0
    BY <2>1 DEF Wrapped
  <2>3. 0 \in 0 .. capacity_
    BY <2>1
  <2> QED
    BY <1>1, <2>1, <2>2, <2>3 DEF RingInv
<1> QED
  BY <1>1, <1>2, EmptyIs DEF Queue!Init

\* Every call keeps the invariant and is a call of the queue.
LEMMA RingStep ==
  RingInv /\ [RingNext]_ringVars => RingInv' /\ [Queue!Next]_(Queue!vars)
<1> SUFFICES ASSUME RingInv, [RingNext]_ringVars PROVE RingInv' /\ [Queue!Next]_(Queue!vars)
  OBVIOUS
<1>1. CASE \E data \in Data : write(data)
  BY <1>1, Written DEF Queue!Next
<1>2. CASE write_NoCapacity
  BY <1>2, NothingWritten, DataIs DEF Queue!Next
<1>3. CASE clear
  BY <1>3, Cleared DEF Queue!Next
<1>4. CASE resize_ToZero
  <2>1. 0 \in 0 .. MaxCapacity
    BY RingAssumption
  <2> QED
    BY <1>4, <2>1, ResizedToZero DEF Queue!Next
<1>5. CASE \E n \in 0 .. MaxCapacity : read(n)
  BY <1>5, ReadOut DEF Queue!Next
<1>6. CASE \E n \in 0 .. MaxCapacity : peek(n)
  BY <1>6, Peeked DEF Queue!Next
<1>7. CASE \E n \in 0 .. MaxCapacity : resize(n)
  BY <1>7, Resized DEF Queue!Next
<1>8. CASE UNCHANGED ringVars
  BY <1>8 DEF ringVars, RingInv, Queue!vars, FromHead
<1> QED
  BY <1>1, <1>2, <1>3, <1>4, <1>5, <1>6, <1>7, <1>8 DEF RingNext

\* Every reachable state of a ring buffer satisfies the invariant.
THEOREM RingInvariance == RingSpec => []RingInv
<1> QED
  BY RingInitInv, RingStep, PTL DEF RingSpec

\* RingBuffer.cpp: the buffer behaves as a bounded FIFO queue, whatever the
\* capacity, through wraps, clears and resizes.
THEOREM RingIsFifo == RingSpec => ImplementsFifo
<1> QED
  BY RingInitInv, RingStep, PTL DEF RingSpec, ImplementsFifo, Queue!Spec

\* RingBuffer.cpp: head, tail and count agree inside an allocated buffer.
THEOREM HeadTailCorrect == RingSpec => []HeadTailAgree
<1>1. RingInv => HeadTailAgree
  <2> SUFFICES ASSUME RingInv PROVE HeadTailAgree
    OBVIOUS
  <2>1. count_ > 0 => DOMAIN buffer_ = 0 .. capacity_ - 1
    BY Sizes DEF RingInv
  <2>2. ASSUME capacity_ # 0 PROVE tail_ = (head_ + count_) % capacity_
    <3>1. capacity_ \in Nat \ {0} /\ head_ + count_ \in 0 .. 2 * capacity_ - 1
      BY <2>2, Sizes DEF RingInv
    <3> QED
      BY <2>2, <3>1, AroundTheEnd DEF RingInv
  <2> QED
    BY <2>1, <2>2, Sizes DEF RingInv, HeadTailAgree
<1> QED
  BY <1>1, RingInvariance, PTL
=============================================================================

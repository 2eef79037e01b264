----------------------------- MODULE RingBuffer -----------------------------
(***************************************************************************)
(* utils/RingBuffer.cpp: a vector that is allocated at the first write, or *)
(* by resize, with a head, a tail and a count.                             *)
(***************************************************************************)
EXTENDS Naturals, Sequences

CONSTANTS
  Bytes,
  MaxCapacity  \* bound: of the capacity, and of what one call moves

ASSUME RingAssumption == MaxCapacity \in Nat /\ Bytes # {}

VARIABLES
  buffer_,  \* a function on 0 .. size - 1
  capacity_, head_, tail_, count_,
  out       \* the bytes that the last call took or returned

ringVars == <<buffer_, capacity_, head_, tail_, count_, out>>

Data == UNION {[1 .. n -> Bytes] : n \in 0 .. MaxCapacity}
Fresh(n) == [p \in 0 .. n - 1 |-> CHOOSE b \in Bytes : TRUE]
Smaller(a, b) == IF a <= b THEN a ELSE b

\* The first n bytes from the head on.
FromHead(n) == [i \in 1 .. n |-> buffer_[(head_ + i - 1) % capacity_]]

\* buf with data written from position tail on, around the end.
Stored(buf, size, tail, data) ==
  [p \in 0 .. size - 1 |->
     LET i == (p + size - tail) % size IN
     IF i < Len(data) THEN data[i + 1] ELSE buf[p]]

RingInit ==
  /\ capacity_ \in 0 .. MaxCapacity
  /\ buffer_ = <<>> /\ head_ = 0 /\ tail_ = 0 /\ count_ = 0 /\ out = <<>>

\* Variant: a full buffer is overwritten.
write_Overrun(data) ==
  /\ capacity_ # 0
  /\ out' = SubSeq(data, 1, Smaller(Len(data), capacity_))
  /\ buffer_' = Stored(IF DOMAIN buffer_ = {} THEN Fresh(capacity_) ELSE buffer_,
                       capacity_, tail_, out')
  /\ tail_' = (tail_ + Len(out')) % capacity_
  /\ count_' = Smaller(count_ + Len(out'), capacity_)
  /\ UNCHANGED <<capacity_, head_>>

write(data) ==
  /\ capacity_ # 0
  /\ out' = SubSeq(data, 1, Smaller(Len(data), capacity_ - count_))
  /\ buffer_' = Stored(IF DOMAIN buffer_ = {} THEN Fresh(capacity_) ELSE buffer_,
                       capacity_, tail_, out')
  /\ tail_' = (tail_ + Len(out')) % capacity_
  /\ count_' = count_ + Len(out')
  /\ UNCHANGED <<capacity_, head_>>

write_NoCapacity ==
  /\ capacity_ = 0 /\ out' = <<>>
  /\ UNCHANGED <<buffer_, capacity_, head_, tail_, count_>>

read(n) ==
  LET k == Smaller(n, count_) IN
  /\ out' = FromHead(k)
  /\ head_' = (IF k = 0 THEN head_ ELSE (head_ + k) % capacity_)
  /\ count_' = count_ - k
  /\ UNCHANGED <<buffer_, capacity_, tail_>>

peek(n) ==
  /\ out' = FromHead(Smaller(n, count_))
  /\ UNCHANGED <<buffer_, capacity_, head_, tail_, count_>>

clear ==
  /\ head_' = 0 /\ tail_' = 0 /\ count_' = 0 /\ out' = <<>>
  /\ UNCHANGED <<buffer_, capacity_>>

resize_ToZero ==
  /\ buffer_' = <<>> /\ capacity_' = 0
  /\ head_' = 0 /\ tail_' = 0 /\ count_' = 0 /\ out' = <<>>

resize(n) ==
  LET old == FromHead(Smaller(count_, n)) IN
  /\ n # 0 /\ capacity_' = n
  /\ buffer_' = Stored(Fresh(n), n, 0, old)
  /\ head_' = 0 /\ tail_' = Len(old) % n /\ count_' = Len(old) /\ out' = <<>>

RingNext ==
  \/ \E data \in Data : write(data)
  \/ write_NoCapacity \/ clear \/ resize_ToZero
  \/ \E n \in 0 .. MaxCapacity : read(n) \/ peek(n) \/ resize(n)

RingSpec == RingInit /\ [][RingNext]_ringVars

(***************************************************************************)
(* Properties.                                                             *)
(***************************************************************************)

\* Head, tail and count agree, inside an allocated buffer, through wraps,
\* clears and resizes to any size.
HeadTailAgree ==
  /\ count_ <= capacity_
  /\ count_ > 0 => DOMAIN buffer_ = 0 .. capacity_ - 1
  /\ IF capacity_ = 0 THEN head_ = 0 /\ tail_ = 0
     ELSE /\ head_ < capacity_ /\ tail_ < capacity_
          /\ tail_ = (head_ + count_) % capacity_

\* The buffer behaves as a bounded FIFO queue.
Queue == INSTANCE ByteQueue WITH content <- FromHead(count_), capacity <- capacity_

ImplementsFifo == Queue!Spec
=============================================================================

----------------------------- MODULE ByteQueue -----------------------------
(***************************************************************************)
(* What RingBuffer promises: a bounded FIFO queue.  A write takes as many  *)
(* bytes as there is room for, from the front of the data; a read removes  *)
(* the oldest; a resize keeps the oldest that fit.                         *)
(***************************************************************************)
EXTENDS Naturals, Sequences
CONSTANTS Data,        \* the data blocks that are written
          MaxCapacity
VARIABLES content, capacity,
          out          \* the bytes that the last call took or returned

vars == <<content, capacity, out>>

Least(a, b) == IF a <= b THEN a ELSE b
Front(s, n) == SubSeq(s, 1, Least(n, Len(s)))
Rest(s, n) == SubSeq(s, Least(n, Len(s)) + 1, Len(s))

Init == content = <<>> /\ capacity \in 0 .. MaxCapacity /\ out = <<>>

Write(data) ==
  /\ out' = Front(data, capacity - Len(content))
  /\ content' = content \o out' /\ UNCHANGED capacity

Read(n) ==
  /\ out' = Front(content, n) /\ content' = Rest(content, n) /\ UNCHANGED capacity

Peek(n) == out' = Front(content, n) /\ UNCHANGED <<content, capacity>>

Clear == content' = <<>> /\ out' = <<>> /\ UNCHANGED capacity

Resize(n) == capacity' = n /\ content' = Front(content, n) /\ out' = <<>>

Next == \/ \E data \in Data : Write(data)
        \/ \E n \in 0 .. MaxCapacity : Read(n) \/ Peek(n) \/ Resize(n)
        \/ Clear

Spec == Init /\ [][Next]_vars
=============================================================================

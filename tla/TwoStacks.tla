----------------------------- MODULE TwoStacks -----------------------------
(***************************************************************************)
(* What vector_downward promises its user: two stacks of bytes that share  *)
(* one allocation and never see each other.  back is the buffer being      *)
(* built, its first element the last byte of the finished buffer; front is *)
(* the scratch pad.                                                        *)
(***************************************************************************)
EXTENDS Integers, Sequences

CONSTANTS Cell,     \* what one byte of memory can hold
          MaxLen    \* bound on one push

VARIABLES back, front

vars == <<back, front>>

Chunk == UNION {[1..n -> Cell] : n \in 0..MaxLen}

\* st with bytes on top; memory order is the reverse of stack order.
Stacked(st, bytes) ==
    [i \in 1..(Len(st) + Len(bytes)) |->
        IF i <= Len(st) THEN st[i] ELSE bytes[Len(st) + Len(bytes) + 1 - i]]

\* st followed by bytes in the order they are given.
Extended(st, bytes) ==
    [i \in 1..(Len(st) + Len(bytes)) |->
        IF i <= Len(st) THEN st[i] ELSE bytes[i - Len(st)]]

Cut(st, n) == [i \in 1..(Len(st) - n) |-> st[i]]

Init == back = <<>> /\ front = <<>>

PushBack == \E bytes \in Chunk : back' = Stacked(back, bytes) /\ UNCHANGED front

PushFront == \E bytes \in Chunk : front' = Extended(front, bytes) /\ UNCHANGED back

PopBack == \E n \in 0..Len(back) : back' = Cut(back, n) /\ UNCHANGED front

PopFront == \E n \in 0..Len(front) : front' = Cut(front, n) /\ UNCHANGED back

Clear == back' = <<>> /\ front' = <<>>

Next == PushBack \/ PushFront \/ PopBack \/ PopFront \/ Clear

Spec == Init /\ [][Next]_vars
=============================================================================

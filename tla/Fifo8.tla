-------------------------------- MODULE Fifo8 --------------------------------
(* The ring buffer of fifo.c: a record of its data, head and num. *)
EXTENDS Integers, Sequences

CONSTANTS
  Chars,     \* what it holds
  Capacity   \* its size

ASSUME CapacityIsPositive == Capacity \in Nat \ {0}

Fifo == [data : [0..(Capacity - 1) -> Chars], head : 0..(Capacity - 1), num : 0..Capacity]

\* The slot behind the last element.
Tail8(f) == (f.head + f.num) % Capacity

fifo8_push(f, c) == [f EXCEPT !.data[Tail8(f)] = c, !.num = @ + 1]

fifo8_front(f) == f.data[f.head]

fifo8_pop(f) == [f EXCEPT !.head = (@ + 1) % Capacity, !.num = @ - 1]

fifo8_reset(f) == [f EXCEPT !.head = 0, !.num = 0]

fifo8_is_full(f) == f.num = Capacity

(* The abstract value of a ring: the sequence of its elements, oldest first. *)
Contents(f) == [i \in 1..f.num |-> f.data[(f.head + i - 1) % Capacity]]
=============================================================================

----------------------------- MODULE EventFifo -----------------------------
(***************************************************************************)
(* What the rest of the host relies on when it asks for events: a first-in *)
(* first-out queue of bounded capacity that discards what arrives when it  *)
(* is full, and nothing else.                                              *)
(***************************************************************************)
EXTENDS Naturals, Sequences

CONSTANTS
  Event,       (* the events that may arrive                                *)
  Capacity     (* how many of them may wait                                 *)

VARIABLES
  fifo,        (* the events waiting, the oldest first                      *)
  taken        (* the events handed out so far                              *)

vars == <<fifo, taken>>

Init == fifo = <<>> /\ taken = <<>>

Put(e) ==
  /\ Len(fifo) < Capacity
  /\ fifo' = Append(fifo, e)
  /\ UNCHANGED taken

Get ==
  /\ fifo # <<>>
  /\ taken' = Append(taken, Head(fifo))
  /\ fifo' = Tail(fifo)

Next == Get \/ \E e \in Event : Put(e)

Spec == Init /\ [][Next]_vars

=============================================================================

-------------------------------- MODULE Ring --------------------------------
(***************************************************************************)
(* The ring buffer of cs/ring.c as operators on a record: the slots, how   *)
(* many there are, where the oldest element sits and how many elements are *)
(* held.  The `type' tag of struct Ring_T is written once and never read,  *)
(* so it is left out.  Nothing here checks for a full or an empty ring,    *)
(* because ring.c does not: that duty is its callers'.                     *)
(***************************************************************************)
EXTENDS Integers, Sequences

(* The slot that holds the element i places behind the oldest one. *)
RingSlot(r, i) == (r.start + i) % r.size

Ring_reset(r) == [buf |-> r.buf, size |-> r.size, count |-> 0, start |-> 0]

(* buf is whatever malloc left in the slots. *)
Ring_create(n, buf) ==
  Ring_reset([buf |-> buf, size |-> n, count |-> 0, start |-> 0])

(* Mutant: the index of the new element is one too far. *)
PushOneTooFar(r, d) ==
  [buf |-> [r.buf EXCEPT ![RingSlot(r, r.count + 1)] = d], size |-> r.size,
   count |-> r.count + 1, start |-> r.start]

(* A push into a full ring lands on the oldest element, and is counted. *)
Ring_push(r, d) ==
  [buf |-> [r.buf EXCEPT ![RingSlot(r, r.count)] = d], size |-> r.size,
   count |-> r.count + 1, start |-> r.start]

(* What Ring_pop returns, ... *)
Ring_front(r) == r.buf[r.start]

(* Mutant: the wrap of the start index is forgotten. *)
PopWithoutWrap(r) ==
  [buf |-> r.buf, size |-> r.size, count |-> r.count - 1, start |-> r.start + 1]

(* ... and what it leaves. *)
Ring_pop(r) ==
  [buf |-> r.buf, size |-> r.size, count |-> r.count - 1,
   start |-> RingSlot(r, 1)]

-----------------------------------------------------------------------------
(* The rings of n slots over the data D that hold at most n elements. *)
RingOf(D, n) == [buf : [0 .. n - 1 -> D], size : {n},
                 count : 0 .. n, start : 0 .. n - 1]

(* The elements of a ring, oldest first. *)
RingSeq(r) == [i \in 1 .. r.count |-> r.buf[RingSlot(r, i - 1)]]

=============================================================================

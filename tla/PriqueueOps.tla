----------------------------- MODULE PriqueueOps -----------------------------
(***************************************************************************)
(* What the functions of project2/libpriqueue/libpriqueue.c compute, on    *)
(* the sequence of the data pointers of the list, head first.  The comparer *)
(* q->cmp is a parameter of the queue, so an operator that needs it takes  *)
(* the tuple of its results: cmp[k] is cmp(ptr, the data of the k-th node). *)
(* Module PriqueueList shows that the pointer code computes the same.      *)
(*                                                                         *)
(* No operator here is RECURSIVE: the modules that are proved about use it. *)
(***************************************************************************)
EXTENDS Integers, Sequences, SequencesExt

(* priqueue_offer: the position the new node takes.  The first node is     *)
(* compared with "< 0" and every later one with "> 0": a tie with the      *)
(* first node goes behind it, a tie with a later node goes in front of it. *)
OfferIndex(cmp) ==
    IF cmp = <<>> \/ cmp[1] < 0
    THEN 1
    ELSE CHOOSE p \in 2..(Len(cmp) + 1) :
            /\ p <= Len(cmp) => cmp[p] <= 0
            /\ \A k \in 2..(p - 1) : cmp[k] > 0

(* The list that priqueue_offer leaves: ptr linked in at that position.    *)
Offer(q, ptr, cmp) == InsertAt(q, OfferIndex(cmp), ptr)

(* The scan of libscheduler.c for the first element of a set, the loops    *)
(* "while (i < priqueue_size(QUEUE) && !found)": its index, or 0.          *)
FirstIn(q, S) ==
    IF \E k \in 1..Len(q) : q[k] \in S
    THEN CHOOSE k \in 1..Len(q) : q[k] \in S /\ \A l \in 1..(k - 1) : q[l] \notin S
    ELSE 0
=============================================================================

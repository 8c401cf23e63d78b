------------------------------ MODULE Priqueue ------------------------------
(***************************************************************************)
(* The queue of libpriqueue.c without its nodes, for a caller that makes   *)
(* one call after another: a sequence of data pointers, head first, and    *)
(* the effect and the result of each call on it.  There are two            *)
(* specifications of it.                                                   *)
(*                                                                         *)
(*   Comments  what the comments of libpriqueue.c promise, and what        *)
(*             queuetest.c expects                                         *)
(*   Spec      what the code can be relied on for                          *)
(*                                                                         *)
(* They share the actions on which the two agree.  In four points they do  *)
(* not: what priqueue_offer returns, which elements priqueue_remove takes  *)
(* out, that this also works when the first element is one of them, and    *)
(* NULL for what is not there.  PriqueueList implements Spec and, for      *)
(* these four reasons, not Comments.                                       *)
(***************************************************************************)
EXTENDS PriqueueOps

CONSTANTS Ptrs,      \* the data pointers that are offered
          Key,       \* the integer a data pointer points to
          Indices    \* the indices that are asked for

VARIABLES queue,     \* the data pointers in the queue
          call,      \* the call that is being served, or NoCall
          result,    \* what the last call returned, until the next one
          defined    \* the program has not crashed, the list is intact

vars == <<queue, call, result, defined>>

(* queuetest.c's compare1: the difference of the keys.                     *)
cmp(a, b) == Key[a] - Key[b]

NoCall == [op |-> "none"]
Calls == [op : {"peek", "poll", "size", "destroy"}]
            \cup [op : {"offer", "remove"}, ptr : Ptrs]
            \cup [op : {"at", "remove_at"}, index : Indices]

(* A result is an element, NULL or a number, with its type; void has none. *)
NoResult == <<"void", 0>>
Null == <<"null", 0>>

Init == queue = <<>> /\ call = NoCall /\ result = NoResult /\ defined = TRUE

Call == /\ defined /\ call = NoCall
        /\ call' \in Calls
        /\ result' = NoResult
        /\ UNCHANGED <<queue, defined>>

Return(op, q, r) == /\ defined /\ call.op = op
                    /\ queue' = q /\ result' = r
                    /\ call' = NoCall
                    /\ UNCHANGED defined

HasIndex == call.index \in 0..(Len(queue) - 1)

(* What is asked for is not there: the first element, or the index'th.     *)
Missing == \/ call.op \in {"peek", "poll"} /\ queue = <<>>
           \/ call.op \in {"at", "remove_at"} /\ ~HasIndex

(* What is left when all elements of S are taken out of the queue.         *)
Without(S) ==
    LET kept[k \in 0..Len(queue)] ==
            IF k = 0 THEN <<>>
            ELSE IF queue[k] \in S THEN kept[k - 1]
                 ELSE Append(kept[k - 1], queue[k])
    IN  kept[Len(queue)]

-----------------------------------------------------------------------------
(* The calls.  The result of priqueue_offer and the elements that          *)
(* priqueue_remove takes out are parameters.                               *)

Comparisons == [k \in 1..Len(queue) |-> cmp(call.ptr, queue[k])]

OfferReturns(index) ==
    Return("offer", Offer(queue, call.ptr, Comparisons), <<"int", index>>)

PeekReturns == queue # <<>> /\ Return("peek", queue, <<"ptr", queue[1]>>)
PollReturns == queue # <<>> /\ Return("poll", Tail(queue), <<"ptr", queue[1]>>)

AtReturns == call.op = "at" /\ HasIndex
             /\ Return("at", queue, <<"ptr", queue[call.index + 1]>>)

RemoveReturns(S) ==
    Return("remove", Without(S), <<"int", Len(queue) - Len(Without(S))>>)

RemoveAtReturns == call.op = "remove_at" /\ HasIndex
                   /\ Return("remove_at", RemoveAt(queue, call.index + 1),
                             <<"ptr", queue[call.index + 1]>>)

SizeReturns == Return("size", queue, <<"int", Len(queue)>>)
DestroyReturns == Return("destroy", <<>>, NoResult)

(* These calls do the same in both specifications.                         *)
AgreedReturns == PeekReturns \/ PollReturns \/ AtReturns \/ RemoveAtReturns
                 \/ SizeReturns \/ DestroyReturns

-----------------------------------------------------------------------------
(* What the comments promise: "the zero-based index where ptr is stored"   *)
(* (line 32); "all instances of ptr", compared with "==" and not with the  *)
(* comparer (lines 135-137), first in the queue or not (queuetest.c:45-46  *)
(* has it first and expects 2); NULL for what is not there (lines 79-84,   *)
(* 93-98, 110-116 and 180).                                                *)

StoredAt == OfferIndex(Comparisons) - 1

NullReturns == Missing /\ Return(call.op, queue, Null)

PromisedNext == \/ Call
                \/ AgreedReturns
                \/ call.op = "offer" /\ OfferReturns(StoredAt)
                \/ call.op = "remove" /\ RemoveReturns({call.ptr})
                \/ NullReturns

Comments == Init /\ [][PromisedNext]_vars

-----------------------------------------------------------------------------
(* What the code does instead.  priqueue_offer returns the last index.     *)
(* priqueue_remove takes out what the comparer finds equal.  When that is  *)
(* so for the first element, it tests a pointer that nothing was assigned  *)
(* to, and may serve the call or not.  What is not there is dereferenced.  *)

LastIndex == Len(queue)

Alike == {d \in Ptrs : cmp(d, call.ptr) = 0}

FirstMatches == call.op = "remove" /\ queue # <<>> /\ queue[1] \in Alike

BecomesUndefined == /\ defined /\ (Missing \/ FirstMatches)
                    /\ defined' = FALSE
StaysUndefined == ~defined /\ ~defined'

Next == \/ Call
        \/ AgreedReturns
        \/ call.op = "offer" /\ OfferReturns(LastIndex)
        \/ call.op = "remove" /\ RemoveReturns(Alike)
        \/ BecomesUndefined \/ StaysUndefined

Spec == Init /\ [][Next]_vars
=============================================================================

---------------------------- MODULE PriqueueList ----------------------------
(***************************************************************************)
(* The pointer code of project2/libpriqueue/libpriqueue.c: nodes on the    *)
(* heap, and one step per iteration of each loop.  The caller is the most  *)
(* general one: any call after any other, also with an index that the list *)
(* does not have or on a list that is empty.  priqueue_destroy is the last *)
(* call, as it is in every program of the repository.                      *)
(*                                                                         *)
(* Addresses are the numbers in Nodes.  malloc takes the lowest address    *)
(* that is not in use; nothing is offered when there is none (the bound of *)
(* this model: the library does not look at what malloc returns).  poll,   *)
(* remove and remove_at unlink nodes and free none.  The nodes that at,    *)
(* remove_at and destroy allocate are lost at once and never looked at:    *)
(* they are not represented.                                               *)
(***************************************************************************)
EXTENDS Integers, Sequences, FiniteSets, FiniteSetsExt

CONSTANTS Nodes,     \* the addresses that malloc can return
          Ptrs, Key, Indices

(* Memory is finite; some data pointer is offered.                         *)
ASSUME ListAssumption == /\ Nodes \subseteq Nat \ {0} /\ IsFiniteSet(Nodes)
                         /\ Ptrs # {}
                         /\ Key \in [Ptrs -> Int]
                         /\ Indices \subseteq Int

VARIABLES head,      \* q->head
          next,      \* the field next of every node
          data,      \* the field data of every node
          allocated, \* the addresses that malloc returned and that are not freed
          call,      \* the arguments of the call under way
          pc,        \* the loop that it is in
          insert, previous, temp, i,   \* the local variables
          result,    \* what the last call returned, until the next one
          corrupt,   \* an uninitialised pointer has been written through
          before     \* history: the data pointers in the list before the call

heap == <<head, next, data, allocated>>
locals == <<insert, previous, temp, i>>
vars == <<head, next, data, allocated, call, pc, insert, previous, temp, i,
          result, corrupt, before>>

NULL == 0
Wild == -1          \* an address that cannot be written to

cmp(a, b) == Key[a] - Key[b]

(* The nodes of the list, head first; the walk ends where the code would   *)
(* end, or after as many steps as there are nodes when it would not.       *)
Walk == LET at[k \in 0..Cardinality(Nodes)] ==
                IF k = 0 THEN head
                ELSE IF at[k - 1] = NULL THEN NULL ELSE next[at[k - 1]]
        IN  at
Chain == LET at == Walk
         IN  [k \in 1..Cardinality({k \in DOMAIN at : at[k] # NULL}) |-> at[k - 1]]
DataInList == [k \in DOMAIN Chain |-> data[Chain[k]]]

-----------------------------------------------------------------------------
(* The library's caller and the way into and out of a call.                *)

Idle == {"idle", "destroyed"}

Q == INSTANCE Priqueue WITH queue <- IF pc \in Idle THEN DataInList ELSE before,
                            defined <- ~corrupt /\ pc # "crashed"

(* priqueue_init, on a heap that nothing has been allocated from.  What    *)
(* the nodes hold is never read before it is written.                      *)
priqueue_init ==
    /\ head = NULL
    /\ next = [n \in Nodes |-> NULL]
    /\ data = [n \in Nodes |-> CHOOSE p \in Ptrs : TRUE]
    /\ allocated = {}
    /\ call = Q!NoCall /\ pc = "idle"
    /\ insert = NULL /\ previous = NULL /\ temp = NULL /\ i = 0
    /\ result = Q!NoResult
    /\ corrupt = FALSE /\ before = <<>>

(* The lowest address that is free.                                        *)
Fresh == Min(Nodes \ allocated)

Call ==
    /\ pc = "idle" /\ ~corrupt
    /\ \E c \in Q!Calls :
        /\ c.op = "offer" => Nodes \ allocated # {}
        /\ call' = c /\ pc' = c.op
    /\ before' = DataInList /\ result' = Q!NoResult
    /\ UNCHANGED <<heap, locals, corrupt>>

Return(r) ==
    /\ result' = r
    /\ call' = Q!NoCall /\ before' = <<>>
    /\ pc' = IF pc = "destroy" THEN "destroyed" ELSE "idle"
    /\ insert' = NULL /\ previous' = NULL /\ temp' = NULL /\ i' = 0
    /\ UNCHANGED corrupt

(* The NULL pointer, or a wild one, is dereferenced.                       *)
Crash == /\ pc' = "crashed"
         /\ UNCHANGED <<heap, locals, call, result, corrupt, before>>

Stay == UNCHANGED <<call, result, corrupt, before>>

-----------------------------------------------------------------------------
(* priqueue_offer: the new node becomes the head, or the loop looks for   *)
(* its place behind the head.                                              *)
GoesFirst == head = NULL \/ cmp(call.ptr, data[head]) < 0

priqueue_offer ==
    /\ pc = "offer"
    /\ insert' = Fresh
    /\ allocated' = allocated \cup {Fresh}
    /\ data' = [data EXCEPT ![Fresh] = call.ptr]
    /\ next' = [next EXCEPT ![Fresh] = IF GoesFirst THEN head ELSE NULL]
    /\ IF GoesFirst
       THEN /\ head' = Fresh
            /\ pc' = "counting" /\ temp' = Fresh
            /\ UNCHANGED previous
       ELSE /\ previous' = head /\ temp' = next[head]
            /\ pc' = "placing"
            /\ UNCHANGED head
    /\ UNCHANGED i /\ Stay

(* The test of the while loop of priqueue_offer.                           *)
IsBehind_ties == temp # NULL /\ cmp(data[insert], data[temp]) >= 0
IsBehind_back == temp # NULL /\ cmp(data[temp], data[insert]) > 0
IsBehind == temp # NULL /\ cmp(data[insert], data[temp]) > 0

(* insert is linked in between previous and temp.                          *)
LinkedIn_swapped == [next EXCEPT ![previous] = insert, ![insert] = insert]
LinkedIn == [next EXCEPT ![insert] = temp, ![previous] = insert]

LookForPlace ==
    /\ pc = "placing"
    /\ \/ /\ IsBehind
          /\ previous' = temp /\ temp' = next[temp]
          /\ UNCHANGED <<heap, insert, i, pc>>
       \/ /\ ~IsBehind
          /\ next' = LinkedIn
          /\ pc' = "counting" /\ temp' = head
          /\ UNCHANGED <<head, data, allocated, insert, previous, i>>
    /\ Stay

-----------------------------------------------------------------------------
(* priqueue_peek and priqueue_poll.                                        *)
priqueue_peek ==
    /\ pc = "peek"
    /\ IF head = NULL THEN Crash
       ELSE Return(<<"ptr", data[head]>>) /\ UNCHANGED heap

priqueue_poll ==
    /\ pc = "poll"
    /\ IF head = NULL THEN Crash
       ELSE /\ Return(<<"ptr", data[head]>>)
            /\ head' = next[head]
            /\ UNCHANGED <<next, data, allocated>>

-----------------------------------------------------------------------------
(* priqueue_at and priqueue_remove_at, which look for the index in the     *)
(* same way: temp is their n, previous the prev of the latter (which is    *)
(* not used when the loop stops at the head).                              *)
priqueue_at ==
    /\ pc \in {"at", "remove_at"}
    /\ temp' = head /\ pc' = "finding"
    /\ UNCHANGED <<heap, insert, previous, i>> /\ Stay

Elsewhere == i # call.index /\ temp # NULL

LookForIndex ==
    /\ pc = "finding" /\ Elsewhere
    /\ previous' = temp /\ temp' = next[temp] /\ i' = i + 1
    /\ UNCHANGED <<heap, insert, pc>> /\ Stay

AtFound ==
    /\ pc = "finding" /\ ~Elsewhere /\ call.op = "at"
    /\ IF temp = NULL THEN Crash
       ELSE Return(<<"ptr", data[temp]>>) /\ UNCHANGED heap

Unlink(n, prev) ==
    IF n = head THEN head' = next[head] /\ UNCHANGED next
    ELSE next' = [next EXCEPT ![prev] = next[n]] /\ UNCHANGED head

RemoveAtFound ==
    /\ pc = "finding" /\ ~Elsewhere /\ call.op = "remove_at"
    /\ IF temp = NULL THEN Crash
       ELSE /\ Return(<<"ptr", data[temp]>>)
            /\ Unlink(temp, previous)
            /\ UNCHANGED <<data, allocated>>

-----------------------------------------------------------------------------
(* priqueue_remove.  Its previous has whatever the stack holds: NULL, the  *)
(* address of a node of this or of an earlier list, or something else.     *)
Residues == {NULL, Wild} \cup Nodes

priqueue_remove ==
    /\ pc = "remove"
    /\ previous' \in Residues
    /\ temp' = head /\ pc' = "removing"
    /\ UNCHANGED <<heap, insert, i>> /\ Stay

Matches == temp # NULL /\ cmp(data[temp], call.ptr) = 0

RemoveKeeps_stays ==
    /\ pc = "removing" /\ temp # NULL /\ ~Matches
    /\ previous' = temp
    /\ UNCHANGED <<heap, insert, temp, i, pc>> /\ Stay
RemoveKeeps ==
    /\ pc = "removing" /\ temp # NULL /\ ~Matches
    /\ previous' = temp /\ temp' = next[temp]
    /\ UNCHANGED <<heap, insert, i, pc>> /\ Stay

RemoveHead ==
    /\ pc = "removing" /\ Matches /\ previous = NULL
    /\ head' = next[head] /\ temp' = next[head] /\ i' = i + 1
    /\ UNCHANGED <<next, data, allocated, insert, previous, pc>> /\ Stay

(* When the node is the first one, previous has not been assigned yet.  A  *)
(* damaged list can be circular and the loop endless: the count stays at   *)
(* MaxCount then, one more than an intact list can have.                   *)
MaxCount == Cardinality(Nodes) + 1

RemoveNext ==
    /\ pc = "removing" /\ Matches /\ previous \in Nodes
    /\ next' = [next EXCEPT ![previous] = next[temp]]
    /\ temp' = next[temp] /\ i' = Min({i + 1, MaxCount})
    /\ corrupt' = (corrupt \/ temp = head)
    /\ UNCHANGED <<head, data, allocated, insert, previous, pc, call, result, before>>

RemoveWild ==
    /\ pc = "removing" /\ Matches /\ previous = Wild
    /\ Crash

RemoveReturns ==
    /\ pc = "removing" /\ temp = NULL
    /\ Return(<<"int", i>>) /\ UNCHANGED heap

-----------------------------------------------------------------------------
(* priqueue_size, also as the last thing that priqueue_offer does.         *)
priqueue_size ==
    /\ pc = "size"
    /\ temp' = head /\ pc' = "counting"
    /\ UNCHANGED <<heap, insert, previous, i>> /\ Stay

Count ==
    /\ pc = "counting" /\ temp # NULL
    /\ temp' = next[temp] /\ i' = i + 1
    /\ UNCHANGED <<heap, insert, previous, pc>> /\ Stay

(* What is returned: priqueue_offer subtracts 1 from the size.             *)
Counted_less == i - 1
Counted == IF call.op = "offer" THEN i - 1 ELSE i

CountReturns ==
    /\ pc = "counting" /\ temp = NULL
    /\ Return(<<"int", Counted>>)
    /\ UNCHANGED heap

-----------------------------------------------------------------------------
(* priqueue_destroy: every node of the list is unlinked and freed.         *)
FreeHead ==
    /\ pc = "destroy" /\ head # NULL
    /\ head' = next[head] /\ allocated' = allocated \ {head}
    /\ UNCHANGED <<next, data, locals, pc>> /\ Stay

DestroyReturns ==
    /\ pc = "destroy" /\ head = NULL
    /\ Return(Q!NoResult) /\ UNCHANGED heap

-----------------------------------------------------------------------------
Serve == \/ priqueue_offer \/ LookForPlace
         \/ priqueue_peek \/ priqueue_poll
         \/ priqueue_at \/ LookForIndex \/ AtFound \/ RemoveAtFound
         \/ priqueue_remove \/ RemoveKeeps \/ RemoveHead \/ RemoveNext
         \/ RemoveWild \/ RemoveReturns
         \/ priqueue_size \/ Count \/ CountReturns
         \/ FreeHead \/ DestroyReturns

Next == Call \/ Serve

(* One thread, which runs until the call is served.                        *)
Spec == priqueue_init /\ [][Next]_vars /\ WF_vars(Serve)

-----------------------------------------------------------------------------
(* Every variable has its type.                                            *)
ListTypeOK ==
    /\ head \in Nodes \cup {NULL}
    /\ next \in [Nodes -> Nodes \cup {NULL}]
    /\ data \in [Nodes -> Ptrs]
    /\ allocated \subseteq Nodes
    /\ call \in Q!Calls \cup {Q!NoCall}
    /\ insert \in Nodes \cup {NULL}
    /\ previous \in Residues
    /\ temp \in Nodes \cup {NULL}
    /\ i \in 0..MaxCount
    /\ result[1] \in {"void", "int"} => result[2] \in 0..MaxCount
    /\ result[1] = "ptr" => result[2] \in Ptrs
    /\ corrupt \in BOOLEAN
    /\ before \in Seq(Ptrs)

Sound == ~corrupt /\ pc # "crashed"

(* The list ends, and the code only follows pointers to memory that it has *)
(* not freed: the nodes of the list, the one to be linked in, and the ones *)
(* the loops stand on.                                                     *)
UsesLiveMemory ==
    Sound => /\ Walk[Cardinality(Nodes)] = NULL
             /\ \A k \in DOMAIN Chain : Chain[k] \in allocated
             /\ {insert, temp} \subseteq allocated \cup {NULL}
             /\ pc = "placing" => previous \in allocated

(* The list stays in the order of its comparer, although the head and the  *)
(* other nodes are compared differently when one is offered.               *)
ListSorted ==
    Sound => \A k \in 2..Len(Chain) : cmp(DataInList[k - 1], DataInList[k]) <= 0

(* The nodes implement the sequence as the code keeps it: over any calls,  *)
(* each returns what Priqueue!Spec says and leaves that sequence behind,   *)
(* and nothing crashes or damages the list but a call for an element that  *)
(* is not there and the removal of a first element that matches.           *)
ImplementsPriqueue == Q!Spec

(* The comments of libpriqueue.c, and queuetest.c:46, are kept: each call  *)
(* returns what they promise and leaves that sequence behind.              *)
KeepsComments == Q!Comments

(* Every call comes back, unless the list has been damaged: the loops      *)
(* have no bound but the end of the list.                                  *)
CallsReturn == pc \notin Idle ~> (pc \in Idle \cup {"crashed"} \/ corrupt)
=============================================================================

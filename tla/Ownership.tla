------------------------------ MODULE Ownership ------------------------------
(* Who frees what: the values of type Status (status.h, status.cc), of which  *)
(* each error owns a block of the heap, and the iterators (iterator.h, .cc),  *)
(* which own a status and a list of functions to call when they are deleted.  *)
(*                                                                            *)
(* A block is [code, text]. The heap gives out its free addresses again, so   *)
(* that a block freed too early is seen under a new owner. A function that is *)
(* registered is named by its number.                                         *)
EXTENDS Integers, Sequences

CONSTANTS
    Holders,        \* the variables of type Status
    Errors,         \* the codes that occur, some of Codes
    Texts,          \* the messages
    MaxBlocks,      \* bounds the heap
    MaxCleanups     \* bounds what is registered with the iterator

VARIABLES
    heap,           \* address -> block, or Free
    state,          \* state_ of each holder and of the iterator: address, or 0
    misused,        \* a free block was read or freed
    meant,          \* what each holder should say
    iter,           \* the iterator: [live, head, list], head 0: not used
    called          \* the functions called when it was deleted

ownVars == <<heap, state, misused, meant, iter, called>>

-----------------------------------------------------------------------------
(* The heap                                                                   *)

Codes == {"NotFound", "Corruption", "NotSupported", "InvalidArgument", "IOError"}
Free == [code |-> "free", text |-> <<>>]
Addresses == 1..MaxBlocks
FreeIn(h) == {a \in Addresses : h[a] = Free}

Block(code, msg, msg2) ==
    [code |-> code, text |-> IF msg2 = "" THEN <<msg>> ELSE <<msg, ": ", msg2>>]

\* An address and the heap with the block.
New(h, block) ==
    LET at == CHOOSE a \in FreeIn(h) : \A b \in FreeIn(h) : a <= b
    IN [at |-> at, heap |-> [h EXCEPT ![at] = block]]

Deleted(h, at) == IF at = 0 THEN h ELSE [h EXCEPT ![at] = Free]
Misuse(h, at) == at # 0 /\ h[at] = Free

CopyState(h, at) == IF at = 0 THEN [at |-> 0, heap |-> h] ELSE New(h, h[at])

\* What code() and ToString() say.
Says(h, at) == IF at = 0 THEN [code |-> "OK", text |-> <<>>] ELSE h[at]

-----------------------------------------------------------------------------
(* Status                                                                     *)

\* The temporary takes the old state with it (operator= by move swaps).
AssignError(holder, code, msg, msg2) ==
    LET made == New(heap, Block(code, msg, msg2))
    IN /\ FreeIn(heap) # {}
       /\ state' = [state EXCEPT ![holder] = made.at]
       /\ heap' = Deleted(made.heap, state[holder])
       /\ misused' = (misused \/ Misuse(made.heap, state[holder]))
       /\ meant' = [meant EXCEPT ![holder] = Block(code, msg, msg2)]
       /\ UNCHANGED <<iter, called>>

AssignOk(holder) ==
    /\ state' = [state EXCEPT ![holder] = 0]
    /\ heap' = Deleted(heap, state[holder])
    /\ misused' = (misused \/ Misuse(heap, state[holder]))
    /\ meant' = [meant EXCEPT ![holder] = Says(heap, 0)]
    /\ UNCHANGED <<iter, called>>

\* (Mutant: an assignment to itself is not noticed.)
SameNever(holder, from) == FALSE

\* operator=(const Status&): to itself, or from one without error to another,
\* nothing happens.
SameOrBothOk(holder, from) == state[holder] = state[from]

AssignCopy(holder, from) ==
    LET freed == Deleted(heap, state[holder])
        copied == CopyState(freed, state[from])
    IN IF SameOrBothOk(holder, from)
       THEN meant' = [meant EXCEPT ![holder] = meant[from]] /\ UNCHANGED <<heap, state, misused, iter, called>>
       ELSE /\ FreeIn(freed) # {} \/ state[from] = 0
            /\ state' = [state EXCEPT ![holder] = copied.at]
            /\ heap' = copied.heap
            /\ misused' = \/ misused
                          \/ Misuse(heap, state[holder])
                          \/ Misuse(freed, state[from])
            /\ meant' = [meant EXCEPT ![holder] = meant[from]]
            /\ UNCHANGED <<iter, called>>

\* operator=(Status&&): the other gets what this one had.
AssignMove(holder, from) ==
    /\ state' = [state EXCEPT ![holder] = state[from], ![from] = state[holder]]
    /\ meant' = [meant EXCEPT ![holder] = meant[from], ![from] = meant[holder]]
    /\ UNCHANGED <<heap, misused, iter, called>>

-----------------------------------------------------------------------------
(* Iterators                                                                  *)

NoIterator == [live |-> FALSE, head |-> 0, list |-> <<>>]

\* NewErrorIterator, and NewEmptyIterator when the status is ok: status_ is a copy.
NewIterator(holder) ==
    LET copied == CopyState(heap, state[holder])
    IN /\ ~iter.live
       /\ FreeIn(heap) # {} \/ state[holder] = 0
       /\ iter' = [live |-> TRUE, head |-> 0, list |-> <<>>]
       /\ state' = [state EXCEPT !["iterator"] = copied.at]
       /\ heap' = copied.heap
       /\ misused' = (misused \/ Misuse(heap, state[holder]))
       /\ meant' = [meant EXCEPT !["iterator"] = meant[holder]]
       /\ called' = <<>>

\* status(): a copy that moves into the holder.
ReadStatus(holder) == iter.live /\ AssignCopy(holder, "iterator")

Registered == (IF iter.head = 0 THEN 0 ELSE 1) + Len(iter.list)

\* (Mutant: the node in the iterator is never used.)
RegisteredBehind(it, f) == [it EXCEPT !.list = <<f>> \o @]

\* The first goes into the iterator itself, the others to the front of the list.
RegisteredIn(it, f) ==
    IF it.head = 0 THEN [it EXCEPT !.head = f] ELSE [it EXCEPT !.list = <<f>> \o @]

RegisterCleanup ==
    /\ iter.live
    /\ Registered < MaxCleanups
    /\ iter' = RegisteredIn(iter, Registered + 1)
    /\ UNCHANGED <<heap, state, misused, meant, called>>

\* The list is only looked at when the node in the iterator is in use.
DeleteIterator ==
    /\ iter.live
    /\ called' = (IF iter.head = 0 THEN <<>> ELSE <<iter.head>> \o iter.list)
    /\ iter' = [iter EXCEPT !.live = FALSE]
    /\ state' = [state EXCEPT !["iterator"] = 0]
    /\ heap' = Deleted(heap, state["iterator"])
    /\ misused' = (misused \/ Misuse(heap, state["iterator"]))
    /\ meant' = [meant EXCEPT !["iterator"] = Says(heap, 0)]

-----------------------------------------------------------------------------
Owners == Holders \union {"iterator"}

OwnInit ==
    /\ heap = [a \in Addresses |-> Free]
    /\ state = [o \in Owners |-> 0]
    /\ misused = FALSE
    /\ meant = [o \in Owners |-> Says(heap, 0)]
    /\ iter = NoIterator
    /\ called = <<>>

OwnNext ==
    \/ \E h \in Holders :
        \/ \E code \in Errors, msg \in Texts, msg2 \in Texts \union {""} : AssignError(h, code, msg, msg2)
        \/ AssignOk(h)
        \/ \E from \in Holders : AssignCopy(h, from) \/ AssignMove(h, from)
        \/ NewIterator(h)
        \/ ReadStatus(h)
    \/ RegisterCleanup
    \/ DeleteIterator

OwnSpec == OwnInit /\ [][OwnNext]_ownVars

-----------------------------------------------------------------------------
\* Every block has one owner and every error its block, whatever was assigned from
\* what: none is freed twice, read after it was freed, or left behind, and each
\* status says what was assigned to it. A deleted iterator has called each function
\* registered with it once.
FreedOnce ==
    /\ ~misused
    /\ \A o \in Owners : Says(heap, state[o]) = meant[o]
    /\ \A o, p \in Owners : o # p /\ state[o] # 0 => state[o] # state[p]
    /\ \A a \in Addresses : heap[a] # Free => \E o \in Owners : state[o] = a
    /\ ~iter.live => /\ Len(called) = Registered
                     /\ \A f \in 1..Registered : \E i \in DOMAIN called : called[i] = f
=============================================================================

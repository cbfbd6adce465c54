---------------------------- MODULE MCWriteQueue ----------------------------
(* The write path, and beside it the memtable's skip list with one reader   *)
(* (readers do not touch each other's state). The two do not run together:  *)
(* part names the one that does.                                            *)
EXTENDS WriteQueue, TLC, TLAPS

CONSTANT r1

VARIABLES part, stores, seen, search, node, found

Plain   == [batch |-> TRUE, sync |-> FALSE]
Synced  == [batch |-> TRUE, sync |-> TRUE]
Compact == [batch |-> FALSE, sync |-> FALSE]

AllRequests == {Plain, Synced, Compact}

Sk == INSTANCE SkipList WITH
    Keys <- 1..3, MaxHeight <- 2, Readers <- {r1}, Null <- None

ASSUME ReadsAssumption == Sk!Parameters

skVars == <<stores, seen, search, node, found>>
MCvars == <<part, vars, skVars>>

MCInit == part \in {"writes", "reads"} /\ Init /\ Sk!Init

Writing(A) == part = "writes" /\ A /\ UNCHANGED <<part, skVars>>
Reading(A) == part = "reads" /\ A /\ UNCHANGED <<part, vars>>

MCNext == Writing(Next) \/ Reading(Sk!Next)

\* The fairness of both modules.
MCFairness ==
    /\ WF_MCvars(Writing(BackgroundStep))
    /\ \A t \in Threads : WF_MCvars(Writing(WriterStep(t)))
    /\ WF_MCvars(Writing(closing = "woken" /\ Close))
    /\ WF_MCvars(Reading(Sk!Search(r1)))

MCSpec == MCInit /\ [][MCNext]_MCvars /\ MCFairness

-----------------------------------------------------------------------------
\* A reader of the memtable never looks into memory whose initialisation it has not
\* seen, and passes over no key it knew to be there.
ReadsMemtable == Sk!InitializedBeforeRead /\ Sk!NothingSkipped

\* Every call returns, the destructor ends, and every search ends.
AllReturn == CallsReturn /\ Sk!SearchEnds

-----------------------------------------------------------------------------
\* The readers of the memtable look at nothing uninitialized and pass over nothing
\* they knew, in the run's specification: a step of the write path leaves the list
\* alone, and one of the list is a step of SkipList.
THEOREM MemtableReads == MCSpec => []ReadsMemtable
<1>1. Sk!Parameters
  BY ReadsAssumption
<1>2. MCInit => Sk!SkipListInv
  BY <1>1, Sk!InitSkipList DEF MCInit
<1>3. Sk!SkipListInv /\ [MCNext]_MCvars => Sk!SkipListInv'
  <2> SUFFICES ASSUME Sk!SkipListInv, [MCNext]_MCvars PROVE Sk!SkipListInv'
    OBVIOUS
  <2>1. [Sk!Next]_Sk!vars
    BY DEF MCNext, MCvars, skVars, Writing, Reading, Sk!vars
  <2> QED BY <1>1, <2>1, Sk!NextSkipList
<1>4. Sk!SkipListInv => ReadsMemtable
  BY Sk!SkipListInvImplies DEF ReadsMemtable
<1> QED
  BY <1>2, <1>3, <1>4, PTL DEF MCSpec
=============================================================================

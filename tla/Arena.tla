-------------------------------- MODULE Arena ---------------------------------
(* The memory a memtable takes its entries and nodes from (util/arena.cc). A  *)
(* block is an array of bytes that begins at an aligned address; what is      *)
(* allocated in it is never given back one by one.                            *)
EXTENDS Integers, Sequences, FiniteSets

CONSTANTS
    BlockSize,      \* kBlockSize, 4096
    Align,          \* 8, or the size of a pointer
    PointerSize,    \* sizeof(char*)
    Requests,       \* the sizes asked for
    MaxAllocations  \* bound

ASSUME ArenaAssumption ==
    /\ BlockSize \in Nat /\ Align \in Nat \ {0} /\ PointerSize \in Nat
    /\ Requests \subseteq Nat \ {0}

VARIABLES
    blocks,     \* blocks_: their sizes
    allocPtr,   \* alloc_ptr_: [block, offset], block 0 for nullptr
    remaining,  \* alloc_bytes_remaining_
    usage,      \* memory_usage_
    given       \* what was allocated: [block, from, bytes, aligned]

arenaVars == <<blocks, allocPtr, remaining, usage, given>>

-----------------------------------------------------------------------------
Piece(block, from, bytes, aligned) ==
    [block |-> block, from |-> from, bytes |-> bytes, aligned |-> aligned]

AllocateNewBlock(bytes) ==
    /\ blocks' = Append(blocks, bytes)
    /\ usage' = usage + bytes + PointerSize

\* What does not fit: a large object gets a block of its own, and the current
\* block stays in use; for a small one the rest of the current block is wasted.
AllocateFallback(bytes, aligned) ==
    IF bytes > BlockSize \div 4
    THEN /\ AllocateNewBlock(bytes)
         /\ given' = given \union {Piece(Len(blocks) + 1, 0, bytes, aligned)}
         /\ UNCHANGED <<allocPtr, remaining>>
    ELSE /\ AllocateNewBlock(BlockSize)
         /\ allocPtr' = [block |-> Len(blocks) + 1, offset |-> bytes]
         /\ remaining' = BlockSize - bytes
         /\ given' = given \union {Piece(Len(blocks) + 1, 0, bytes, aligned)}

\* The next bytes of the current block, behind slop of them.
Take(bytes, slop, aligned) ==
    /\ given' = given \union {Piece(allocPtr.block, allocPtr.offset + slop, bytes, aligned)}
    /\ allocPtr' = [allocPtr EXCEPT !.offset = @ + slop + bytes]
    /\ remaining' = remaining - (slop + bytes)
    /\ UNCHANGED <<blocks, usage>>

\* Bytes to the next aligned address: a block begins at one.
Slop == (Align - (allocPtr.offset % Align)) % Align

Allocate ==
    \E bytes \in Requests :
        IF bytes <= remaining THEN Take(bytes, 0, FALSE)
        ELSE AllocateFallback(bytes, FALSE)

\* (Mutant: the bytes skipped are not counted when room is looked for.)
AllocateAlignedTight ==
    \E bytes \in Requests :
        IF bytes <= remaining THEN Take(bytes, Slop, TRUE)
        ELSE AllocateFallback(bytes, TRUE)

AllocateAligned ==
    \E bytes \in Requests :
        IF bytes + Slop <= remaining THEN Take(bytes, Slop, TRUE)
        ELSE AllocateFallback(bytes, TRUE)

-----------------------------------------------------------------------------
ArenaInit ==
    /\ blocks = <<>> /\ given = {}
    /\ allocPtr = [block |-> 0, offset |-> 0]
    /\ remaining = 0 /\ usage = 0

ArenaNext ==
    /\ Cardinality(given) < MaxAllocations
    /\ Allocate \/ AllocateAligned

ArenaSpec == ArenaInit /\ [][ArenaNext]_arenaVars

-----------------------------------------------------------------------------
\* Every piece is inside its block, is aligned if that was asked for, and shares no
\* byte with another one: what a node of the memtable holds stays as it was written.
MemoryKept ==
    /\ \A p \in given :
        /\ p.block \in DOMAIN blocks
        /\ p.from + p.bytes <= blocks[p.block]
        /\ p.aligned => p.from % Align = 0
    /\ \A p, q \in given :
        p # q /\ p.block = q.block =>
            p.from + p.bytes <= q.from \/ q.from + q.bytes <= p.from
=============================================================================

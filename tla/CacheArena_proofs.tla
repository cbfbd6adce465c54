-------------------------- MODULE CacheArena_proofs --------------------------
(***************************************************************************)
(* Proofs about two parts of LevelDB's util: what a reader holds of the    *)
(* cache of open files, and what a memtable holds of its arena.            *)
(*                                                                         *)
(* HandlesAlive is not inductive: an entry outlives its eviction because   *)
(* it counts its references. Referred says that the count is the cache's   *)
(* reference and one for each client; Tabled and Aged that the table and   *)
(* the list of what may go have the entries they should; Within what the   *)
(* loop of Insert leaves, and Permitted whose permits are out.             *)
(***************************************************************************)
EXTENDS FileCache, Arena, TLAPS, FiniteSetTheorems

-----------------------------------------------------------------------------
(* The arena *)

AnyPiece == [block: Nat \ {0}, from: Nat, bytes: Nat \ {0}, aligned: BOOLEAN]

\* What is left of the current block, which is no block before the first request.
ArenaTypeOK ==
    /\ blocks \in Seq(Nat)
    /\ allocPtr \in [block: Nat, offset: Nat]
    /\ remaining \in Nat
    /\ allocPtr.block \in 0..Len(blocks)
    /\ remaining = IF allocPtr.block = 0 THEN 0
                   ELSE blocks[allocPtr.block] - allocPtr.offset
    /\ given \in SUBSET AnyPiece

\* What has been given of the current block is before the bytes that are left.
Behind == \A p \in given : p.block = allocPtr.block => p.from + p.bytes <= allocPtr.offset

ArenaInv == ArenaTypeOK /\ Behind /\ MemoryKept

-----------------------------------------------------------------------------
\* The slop leads to the next aligned address.
LEMMA SlopAligns ==
    ASSUME NEW n \in Nat
    PROVE  LET s == (Align - (n % Align)) % Align
           IN s \in Nat /\ (n + s) % Align = 0
<1> DEFINE r == n % Align
           q == n \div Align
           s == (Align - r) % Align
<1> USE ArenaAssumption
<1>1. r \in 0..(Align - 1) /\ q \in Nat /\ n = Align * q + r
  BY SMT
<1>2. \A k \in Nat : (Align * k) % Align = 0
  BY SMT
<1> HIDE DEF r, q
<1>3. CASE r = 0
  <2>1. s = 0
    BY <1>3, SMT
  <2>2. n + s = Align * q
    BY <1>1, <1>3, <2>1
  <2> QED BY <1>1, <1>2, <2>1, <2>2 DEF r
<1>4. CASE r # 0
  <2>1. s = Align - r
    BY <1>1, <1>4, SMT
  <2>2. n + s = Align * (q + 1)
    BY <1>1, <2>1, SMT
  <2>3. (Align * (q + 1)) % Align = 0
    BY <1>1, <1>2
  <2> QED BY <1>1, <2>1, <2>2, <2>3 DEF r
<1> QED
  BY <1>3, <1>4

\* A piece taken behind slop bytes of the current block touches no other one.
LEMMA TakeKeeps ==
    ASSUME ArenaInv, NEW bytes \in Requests, NEW slop \in Nat, NEW aligned \in BOOLEAN,
           bytes + slop <= remaining,
           aligned => (allocPtr.offset + slop) % Align = 0,
           Take(bytes, slop, aligned)
    PROVE  ArenaInv'
<1> DEFINE p == Piece(allocPtr.block, allocPtr.offset + slop, bytes, aligned)
<1>1. bytes \in Nat \ {0}
  BY ArenaAssumption
<1>2. allocPtr.block # 0 /\ allocPtr.offset \in Nat /\ blocks[allocPtr.block] \in Nat
  BY <1>1 DEF ArenaInv, ArenaTypeOK
<1>3. /\ given' = given \cup {p} /\ blocks' = blocks
      /\ allocPtr' = [block |-> allocPtr.block, offset |-> allocPtr.offset + slop + bytes]
      /\ remaining' = remaining - (slop + bytes)
  BY DEF Take, ArenaInv, ArenaTypeOK
<1>4. /\ p \in AnyPiece /\ p.block = allocPtr.block /\ p.from = allocPtr.offset + slop
      /\ p.bytes = bytes /\ p.aligned = aligned
  BY <1>1, <1>2 DEF Piece, AnyPiece, ArenaInv, ArenaTypeOK
<1> HIDE DEF p
<1>5. /\ allocPtr'.block = allocPtr.block /\ allocPtr'.offset = allocPtr.offset + slop + bytes
      /\ allocPtr' \in [block: Nat, offset: Nat]
  BY <1>1, <1>2, <1>3 DEF ArenaInv, ArenaTypeOK
<1>6. /\ allocPtr.block \in 0..Len(blocks) /\ blocks \in Seq(Nat)
      /\ remaining = blocks[allocPtr.block] - allocPtr.offset /\ given \in SUBSET AnyPiece
  BY <1>2 DEF ArenaInv, ArenaTypeOK
<1>7. ArenaTypeOK'
  <2>1. remaining' \in Nat /\ remaining' = blocks[allocPtr.block] - allocPtr'.offset
    <3> DEFINE b == blocks[allocPtr.block]
               o == allocPtr.offset
    <3>1. b \in Nat /\ o \in Nat /\ remaining = b - o /\ allocPtr'.offset = o + slop + bytes
      BY <1>2, <1>5, <1>6
    <3> HIDE DEF b, o
    <3>2. remaining' \in Nat /\ remaining' = b - allocPtr'.offset
      BY <1>1, <1>3, <3>1
    <3> QED BY <3>2 DEF b
  <2>2. remaining' = IF allocPtr'.block = 0 THEN 0
                     ELSE blocks'[allocPtr'.block] - allocPtr'.offset
    BY <1>2, <1>3, <1>5, <2>1
  <2>3. blocks' \in Seq(Nat) /\ allocPtr'.block \in 0..Len(blocks')
    BY <1>3, <1>5, <1>6
  <2>4. given' \in SUBSET AnyPiece
    BY <1>3, <1>4, <1>6
  <2> QED BY <1>5, <2>1, <2>2, <2>3, <2>4 DEF ArenaTypeOK
<1>8. Behind'
  <2>1. p.from + p.bytes <= allocPtr'.offset
    BY <1>1, <1>2, <1>4, <1>5
  <2>2. ASSUME NEW q \in given, q.block = allocPtr.block
        PROVE  q.from + q.bytes <= allocPtr'.offset
    <3>1. q.from + q.bytes <= allocPtr.offset
      BY <2>2 DEF ArenaInv, Behind
    <3>2. q.from \in Nat /\ q.bytes \in Nat
      BY <1>6 DEF AnyPiece
    <3> QED BY <1>1, <1>2, <1>5, <3>1, <3>2
  <2> QED BY <1>3, <1>5, <2>1, <2>2 DEF Behind
<1>9. MemoryKept'
  <2>1. p.from + p.bytes <= blocks[allocPtr.block]
    BY <1>1, <1>2, <1>4 DEF ArenaInv, ArenaTypeOK
  <2>2. \A q \in given : q.block = p.block => q.from + q.bytes <= p.from
    BY <1>1, <1>2, <1>4 DEF ArenaInv, ArenaTypeOK, Behind, AnyPiece
  <2>3. \A q \in given' :
          /\ q.block \in DOMAIN blocks'
          /\ q.from + q.bytes <= blocks'[q.block]
          /\ q.aligned => q.from % Align = 0
    BY <1>2, <1>3, <1>4, <2>1 DEF ArenaInv, ArenaTypeOK, MemoryKept
  <2>4. \A u, q \in given' : u # q /\ u.block = q.block =>
          u.from + u.bytes <= q.from \/ q.from + q.bytes <= u.from
    BY <1>3, <2>2 DEF ArenaInv, MemoryKept
  <2> QED
    BY <2>3, <2>4 DEF MemoryKept
<1> QED
  BY <1>7, <1>8, <1>9 DEF ArenaInv

\* A piece at the start of a new block is alone there.
LEMMA FallbackKeeps ==
    ASSUME ArenaInv, NEW bytes \in Requests, NEW aligned \in BOOLEAN,
           AllocateFallback(bytes, aligned)
    PROVE  ArenaInv'
<1> DEFINE new == Len(blocks) + 1
           p == Piece(new, 0, bytes, aligned)
<1>1. bytes \in Nat \ {0} /\ BlockSize \in Nat /\ Align \in Nat \ {0}
  BY ArenaAssumption
<1>2. /\ p \in AnyPiece /\ p.block = new /\ p.from = 0 /\ p.bytes = bytes
      /\ new \in Nat \ {0}
  BY <1>1 DEF Piece, AnyPiece, ArenaInv, ArenaTypeOK
<1>3. 0 % Align = 0
  BY <1>1
<1>4. given' = given \cup {p}
  BY DEF AllocateFallback
<1>5. PICK size \in Nat : blocks' = Append(blocks, size) /\ bytes <= size
  <2>1. CASE bytes > BlockSize \div 4
    BY <1>1, <2>1 DEF AllocateFallback, AllocateNewBlock
  <2>2. CASE ~ (bytes > BlockSize \div 4)
    <3>1. bytes <= BlockSize
      BY <1>1, <2>2
    <3> QED BY <1>1, <2>2, <3>1 DEF AllocateFallback, AllocateNewBlock
  <2> QED BY <2>1, <2>2
<1>6. /\ DOMAIN blocks' = DOMAIN blocks \cup {new} /\ new \notin DOMAIN blocks
      /\ blocks'[new] = size /\ blocks' \in Seq(Nat) /\ Len(blocks') = new
      /\ \A i \in DOMAIN blocks : blocks'[i] = blocks[i] /\ i # new /\ i \in 1..Len(blocks)
  BY <1>5 DEF ArenaInv, ArenaTypeOK
<1>7. \A q \in given : q.block \in DOMAIN blocks
  BY DEF ArenaInv, MemoryKept
<1> HIDE DEF p
<1>8. MemoryKept'
  <2>1. \A q \in given : q.block # p.block
    BY <1>2, <1>6, <1>7
  <2>2. \A q \in given' :
          /\ q.block \in DOMAIN blocks'
          /\ q.from + q.bytes <= blocks'[q.block]
          /\ q.aligned => q.from % Align = 0
    <3>1. \A q \in given : /\ q.block \in DOMAIN blocks'
                           /\ q.from + q.bytes <= blocks'[q.block]
                           /\ q.aligned => q.from % Align = 0
      BY <1>6, <1>7 DEF ArenaInv, MemoryKept
    <3>2. /\ p.block \in DOMAIN blocks' /\ p.from + p.bytes <= blocks'[p.block]
          /\ p.from % Align = 0
      BY <1>1, <1>2, <1>3, <1>5, <1>6
    <3> QED BY <1>4, <3>1, <3>2
  <2>3. \A u, q \in given' : u # q /\ u.block = q.block =>
          u.from + u.bytes <= q.from \/ q.from + q.bytes <= u.from
    BY <1>4, <2>1 DEF ArenaInv, MemoryKept
  <2> QED
    BY <2>2, <2>3 DEF MemoryKept
<1>9. ArenaTypeOK' /\ Behind'
  <2>1. CASE bytes > BlockSize \div 4
    <3>1. allocPtr' = allocPtr /\ remaining' = remaining
      BY <2>1 DEF AllocateFallback
    <3>2. allocPtr.block # new /\ allocPtr.block \in 0..new
          /\ (allocPtr.block # 0 => allocPtr.block \in DOMAIN blocks)
      BY <1>2 DEF ArenaInv, ArenaTypeOK
    <3>3. ArenaTypeOK'
      BY <1>2, <1>4, <1>6, <3>1, <3>2 DEF ArenaInv, ArenaTypeOK
    <3>4. Behind'
      BY <1>2, <1>4, <3>1, <3>2 DEF ArenaInv, Behind
    <3> QED BY <3>3, <3>4
  <2>2. CASE ~ (bytes > BlockSize \div 4)
    <3>1. /\ allocPtr' = [block |-> new, offset |-> bytes]
          /\ remaining' = BlockSize - bytes /\ blocks' = Append(blocks, BlockSize)
      BY <2>2 DEF AllocateFallback, AllocateNewBlock
    <3>2. bytes <= BlockSize
      BY <1>1, <2>2
    <3>3. blocks'[new] = BlockSize
      BY <3>1 DEF ArenaInv, ArenaTypeOK
    <3>4. ArenaTypeOK'
      BY <1>1, <1>2, <1>4, <1>6, <3>1, <3>2, <3>3 DEF ArenaInv, ArenaTypeOK
    <3>5. \A q \in given : q.block # new
      BY <1>6, <1>7
    <3>6. Behind'
      BY <1>1, <1>2, <1>4, <3>1, <3>5 DEF Behind
    <3> QED BY <3>4, <3>6
  <2> QED BY <2>1, <2>2
<1> QED
  BY <1>8, <1>9 DEF ArenaInv

\* Nothing that the memtable was given is given again, runs out of its block or is
\* misaligned (util/arena.cc): for any block size, alignment and sizes, and for any
\* number of allocations.
THEOREM MemoryStaysKept == ArenaSpec => []MemoryKept
<1>1. ArenaInit => ArenaInv
  BY DEF ArenaInit, ArenaInv, ArenaTypeOK, Behind, MemoryKept, AnyPiece
<1>2. ArenaInv /\ [ArenaNext]_arenaVars => ArenaInv'
  <2> SUFFICES ASSUME ArenaInv, [ArenaNext]_arenaVars PROVE ArenaInv'
    OBVIOUS
  <2>1. CASE Allocate
    <3>1. PICK bytes \in Requests : IF bytes <= remaining THEN Take(bytes, 0, FALSE)
                                    ELSE AllocateFallback(bytes, FALSE)
      BY <2>1 DEF Allocate
    <3>2. bytes + 0 = bytes
      BY ArenaAssumption
    <3>3. CASE bytes <= remaining
      BY <3>1, <3>2, <3>3, TakeKeeps
    <3>4. CASE ~ (bytes <= remaining)
      BY <3>1, <3>4, FallbackKeeps
    <3> QED BY <3>3, <3>4
  <2>2. CASE AllocateAligned
    <3>1. PICK bytes \in Requests : IF bytes + Slop <= remaining THEN Take(bytes, Slop, TRUE)
                                    ELSE AllocateFallback(bytes, TRUE)
      BY <2>2 DEF AllocateAligned
    <3>2. Slop \in Nat /\ (allocPtr.offset + Slop) % Align = 0
      BY SlopAligns DEF Slop, ArenaInv, ArenaTypeOK
    <3>3. CASE bytes + Slop <= remaining
      BY <3>1, <3>2, <3>3, TakeKeeps
    <3>4. CASE ~ (bytes + Slop <= remaining)
      BY <3>1, <3>4, FallbackKeeps
    <3> QED BY <3>3, <3>4
  <2>3. CASE UNCHANGED arenaVars
    BY <2>3 DEF arenaVars, ArenaInv, ArenaTypeOK, Behind, MemoryKept
  <2> QED
    BY <2>1, <2>2, <2>3 DEF ArenaNext
<1>3. ArenaInv => MemoryKept
  BY DEF ArenaInv
<1> QED
  BY <1>1, <1>2, <1>3, PTL DEF ArenaSpec

-----------------------------------------------------------------------------
(* The cache of open files *)

Steps == {"idle", "mmap", "no mmap", "fd", "no fd", "open", "holds"}
Hows == {"none", "mmap", "fd"}

AnyEntry == [file: CacheFiles \cup {0}, how: Hows, refs: Nat, inCache: BOOLEAN]

FcTypeOK ==
    /\ made \in 0..MaxEntry
    /\ cached \in [CacheFiles -> 0..made]
    /\ entry \in [Ids -> AnyEntry]
    /\ lru \in SUBSET (Ids \X Ids)
    /\ reader \in [Readers -> [step: Steps, file: CacheFiles \cup {0}, entry: 0..made,
                               how: Hows]]
    /\ allowed \in [mmap: Int, fd: Int]
    /\ files \in SUBSET CacheFiles

\* What a reader is at: a table that is there, and of the file it wants.
Reading == \A r \in Readers :
    /\ reader[r].step = "idle" <=> reader[r].file = 0
    /\ reader[r].file # 0 => reader[r].file \in files
    /\ reader[r].step = "holds" <=> reader[r].entry # 0
    /\ reader[r].step = "holds" => entry[reader[r].entry].file = reader[r].file
    /\ reader[r].how # "none" => reader[r].step = "open"

\* The references of an entry are those of the cache and of its clients.
Referred(E) == \A e \in Ids :
    E[e].refs = (IF E[e].inCache THEN 1 ELSE 0) + Cardinality(Clients(e))

\* What is not made yet.
Unmade == \A e \in Ids : e > made => entry[e] = NoEntry

\* The table has every cached entry, under its file, which is still there.
Tabled(C, E, F) ==
    /\ \A f \in CacheFiles : C[f] # 0 => E[C[f]].inCache /\ E[C[f]].file = f
    /\ \A e \in Ids : E[e].inCache => E[e].file \in F /\ C[E[e].file] = e

\* The list of what may go has the cached entries without clients, in one order.
Aged(L, E) ==
    /\ \A e \in Ids : e \in Listed(L) <=> E[e].inCache /\ Clients(e) = {}
    /\ \A d, e \in Ids : <<d, e>> \in L => e \in Listed(L)
    /\ \A d, e \in Listed(L) : <<d, e>> \in L \/ <<e, d>> \in L
    /\ \A d, e \in Ids : <<d, e>> \in L /\ <<e, d>> \in L => d = e
    /\ \A c, d, e \in Ids : <<c, d>> \in L /\ <<d, e>> \in L => <<c, e>> \in L

\* More is cached only if clients have it.
Held(E, s) == {e \in Ids : E[e].inCache /\ ShardOf[E[e].file] = s}

Within(E) == \A f \in CacheFiles :
    LET used == Cardinality(Held(E, ShardOf[f]))
    IN used <= Capacity \/ used <= Cardinality(Readers)

\* A permit is given back with its file.
OpenIn(E, kind) == {e \in Ids : E[e].refs > 0 /\ E[e].how = kind}

Permitted(E, a) ==
    /\ a.mmap = Mmaps - Cardinality(OpenIn(E, "mmap")) - Cardinality(Opening("mmap"))
    /\ a.fd = Fds - Cardinality(OpenIn(E, "fd")) - Cardinality(Opening("fd"))

FcInv == /\ FcTypeOK /\ Reading /\ Referred(entry) /\ Unmade
         /\ Tabled(cached, entry, files) /\ Aged(lru, entry)
         /\ Within(entry) /\ Permitted(entry, allowed)

-----------------------------------------------------------------------------
(* Counting *)

\* One member more, one member less.
LEMMA OneMore ==
    ASSUME NEW S, IsFiniteSet(S), NEW x
    PROVE  /\ Cardinality(S) \in Nat
           /\ x \notin S => Cardinality(S \cup {x}) = Cardinality(S) + 1
           /\ x \in S => /\ Cardinality(S \ {x}) = Cardinality(S) - 1
                         /\ Cardinality(S) >= 1
<1>1. Cardinality(S) \in Nat /\ IsFiniteSet(S \ {x}) /\ Cardinality(S \ {x}) \in Nat
  BY FS_CardinalityType, FS_RemoveElement
<1>2. x \notin S => Cardinality(S \cup {x}) = Cardinality(S) + 1
  BY FS_AddElement
<1>3. x \in S => Cardinality(S \ {x}) = Cardinality(S) - 1
  BY FS_RemoveElement
<1> QED
  BY <1>1, <1>2, <1>3

\* The members of S that L has in the first n places.
FirstIn(S, L, n) == {e \in S : Cardinality({d \in S : <<d, e>> \in L}) <= n}

\* What is in order has a first, a second, ...: as many as wanted come first.
LEMMA FirstOnes ==
    ASSUME NEW S, IsFiniteSet(S), NEW L,
           \A e \in S : <<e, e>> \in L,
           \A d, e \in S : <<d, e>> \in L \/ <<e, d>> \in L,
           \A d, e \in S : <<d, e>> \in L /\ <<e, d>> \in L => d = e,
           \A c, d, e \in S : <<c, d>> \in L /\ <<d, e>> \in L => <<c, e>> \in L,
           NEW n \in Nat, n <= Cardinality(S)
    PROVE  Cardinality(FirstIn(S, L, n)) = n
<1> DEFINE Before(e) == {d \in S : <<d, e>> \in L}
           N == Cardinality(S)
           rank == [e \in S |-> Cardinality(Before(e))]
           T == {e \in S : Cardinality(Before(e)) <= n}
<1>1. N \in Nat
  BY FS_CardinalityType
<1>2. ASSUME NEW e \in S
      PROVE  IsFiniteSet(Before(e)) /\ rank[e] \in 1..N
  <2>1. Before(e) \in SUBSET S /\ e \in Before(e)
    OBVIOUS
  <2>2. IsFiniteSet(Before(e)) /\ Cardinality(Before(e)) <= N
    BY <2>1, FS_Subset
  <2>3. Cardinality(Before(e)) \in Nat /\ Cardinality(Before(e)) >= 1
    BY <2>1, <2>2, OneMore
  <2> QED BY <1>1, <2>2, <2>3
<1>3. ASSUME NEW d \in S, NEW e \in S, <<d, e>> \in L, d # e
      PROVE  rank[d] # rank[e]
  <2>1. Before(d) \in SUBSET Before(e) /\ e \in Before(e) /\ e \notin Before(d)
    BY <1>3
  <2>2. Before(d) # Before(e)
    BY <2>1
  <2> QED BY <1>2, <2>1, <2>2, FS_Subset
<1>4. \A d, e \in S : rank[d] = rank[e] => d = e
  BY <1>3
<1>5. rank \in [S -> 1..N]
  BY <1>2
<1> HIDE DEF rank
<1>6. rank \in Injection(S, 1..N)
  BY <1>4, <1>5 DEF Injection, IsInjective
<1>7. IsFiniteSet(1..N) /\ Cardinality(1..N) = N
  BY <1>1, FS_Interval
<1>8. rank \in Surjection(S, 1..N)
  BY <1>6, <1>7, FS_Injection
<1>9. \A k \in 1..N : \E e \in S : rank[e] = k
  BY <1>8 DEF Surjection
<1>10. T = {e \in S : rank[e] <= n}
  BY DEF rank
<1> HIDE DEF T
<1> DEFINE first == [e \in T |-> rank[e]]
<1>11. first \in [T -> 1..n]
  BY <1>1, <1>5, <1>10
<1>12. \A d, e \in T : first[d] = first[e] => d = e
  BY <1>4, <1>10
<1>13. \A k \in 1..n : \E e \in T : first[e] = k
  <2> SUFFICES ASSUME NEW k \in 1..n PROVE \E e \in T : first[e] = k
    OBVIOUS
  <2>1. k \in 1..N
    BY <1>1
  <2>2. PICK e \in S : rank[e] = k
    BY <1>9, <2>1
  <2> QED BY <1>10, <2>2
<1> HIDE DEF first
<1>14. first \in Injection(T, 1..n) /\ first \in Surjection(T, 1..n)
  BY <1>11, <1>12, <1>13 DEF Injection, IsInjective, Surjection
<1>15. IsFiniteSet(1..n) /\ Cardinality(1..n) = n
  BY FS_Interval
<1>16. Cardinality(T) = Cardinality(1..n)
  BY <1>14, <1>15, FS_Injection
<1> QED
  BY <1>15, <1>16 DEF T, FirstIn

-----------------------------------------------------------------------------
(* What a step of the cache does *)

\* Only finitely many entries and readers are spoken of.
LEMMA FinitelyMany ==
    /\ IsFiniteSet(Ids) /\ IsFiniteSet(Readers)
    /\ Cardinality(Readers) \in Nat
    /\ \A T \in SUBSET Ids : IsFiniteSet(T) /\ Cardinality(T) \in Nat
    /\ \A T \in SUBSET Readers : IsFiniteSet(T) /\ Cardinality(T) \in Nat
<1>1. IsFiniteSet(Ids) /\ IsFiniteSet(Readers)
  BY CacheAssumption, FS_Interval DEF Ids
<1>2. ASSUME NEW S, IsFiniteSet(S), NEW T \in SUBSET S
      PROVE  IsFiniteSet(T) /\ Cardinality(T) \in Nat
  BY <1>2, FS_Subset, FS_CardinalityType
<1> QED
  BY <1>1, <1>2, FS_CardinalityType

\* The parts of the invariant give what a reader of the code expects.
LEMMA InvMeans == FcInv => HandlesAlive /\ FilesReturned
<1> SUFFICES ASSUME FcInv PROVE HandlesAlive /\ FilesReturned
  OBVIOUS
<1>1. ASSUME NEW e \in Ids, entry[e].refs > 0
      PROVE  entry[e].inCache \/ Clients(e) # {}
  <2>1. Clients(e) = {} => Cardinality(Clients(e)) = 0
    BY FS_EmptySet
  <2> QED BY <1>1, <2>1 DEF FcInv, Referred
<1>2. ASSUME NEW e \in Ids, entry[e].refs > 0
      PROVE  entry[e].file \in files
  BY <1>1, <1>2 DEF FcInv, Tabled, Reading, Clients, FcTypeOK, Ids
<1>3. ASSUME NEW r \in Readers, reader[r].step = "holds"
      PROVE  LET e == reader[r].entry
             IN entry[e].refs > 0 /\ entry[e].file = reader[r].file
  <2> DEFINE e == reader[r].entry
  <2>1. e \in Ids /\ r \in Clients(e) /\ entry[e].file = reader[r].file
    BY <1>3, CacheAssumption DEF FcInv, Reading, FcTypeOK, Clients, Ids
  <2>2. IsFiniteSet(Clients(e))
    BY FinitelyMany DEF Clients
  <2>3. Cardinality(Clients(e)) \in Nat /\ Cardinality(Clients(e)) >= 1
    BY <2>1, <2>2, OneMore
  <2> QED BY <2>1, <2>3 DEF FcInv, Referred
<1>4. \A s : Held(entry, s) = {e \in Ids : entry[e].inCache /\ ShardOf[entry[e].file] = s}
  BY DEF Held
<1>5. \A f \in CacheFiles : LET used == Usage(ShardOf[f])
                            IN used <= Capacity \/ used <= Cardinality(Readers)
  BY <1>4 DEF FcInv, Within, Usage
<1>6. /\ allowed.mmap = Mmaps - Cardinality(Opened("mmap")) - Cardinality(Opening("mmap"))
      /\ allowed.fd = Fds - Cardinality(Opened("fd")) - Cardinality(Opening("fd"))
  BY DEF FcInv, Permitted, Opened, OpenIn
<1> QED
  BY <1>1, <1>2, <1>3, <1>5, <1>6 DEF HandlesAlive, FilesReturned

\* Erasing cached entries takes the reference of the cache.
LEMMA ErasedIs ==
    ASSUME FcInv, NEW out, \A e \in out : e \in Ids /\ entry[e].inCache
    PROVE  /\ Erased(entry, out) \in [Ids -> AnyEntry]
           /\ \A e \in Ids :
                LET x == Erased(entry, out)[e]
                IN /\ x.file = entry[e].file /\ x.how = entry[e].how
                   /\ e \in out => ~ x.inCache /\ x.refs = entry[e].refs - 1
                   /\ e \notin out => x = entry[e]
<1> DEFINE E == Erased(entry, out)
<1>1. ASSUME NEW e \in Ids
      PROVE  /\ entry[e] \in AnyEntry
             /\ entry[e].inCache => entry[e].refs >= 1
  <2>1. Cardinality(Clients(e)) \in Nat
    BY FinitelyMany DEF Clients
  <2> QED BY <2>1 DEF FcInv, FcTypeOK, Referred
<1>2. ASSUME NEW e \in Ids
      PROVE  /\ E[e] \in AnyEntry /\ E[e].file = entry[e].file /\ E[e].how = entry[e].how
             /\ e \in out => ~ E[e].inCache /\ E[e].refs = entry[e].refs - 1
             /\ e \notin out => E[e] = entry[e]
  <2>0. PICK w \in AnyEntry : w = entry[e]
    BY <1>1
  <2>1. E[e] = IF e \in out THEN [w EXCEPT !.inCache = FALSE, !.refs = @ - 1] ELSE w
    BY <2>0 DEF Erased
  <2> HIDE DEF E
  <2>2. CASE e \in out
    <3>1. E[e] = [file |-> w.file, how |-> w.how, refs |-> w.refs - 1, inCache |-> FALSE]
      BY <2>0, <2>1, <2>2 DEF AnyEntry
    <3>2. w.file \in CacheFiles \cup {0} /\ w.how \in Hows /\ w.refs - 1 \in Nat
      BY <1>1, <2>0, <2>2 DEF AnyEntry
    <3>3. E[e] \in AnyEntry
      BY <3>1, <3>2 DEF AnyEntry
    <3>4. E[e].file = w.file /\ E[e].how = w.how /\ ~ E[e].inCache /\ E[e].refs = w.refs - 1
      BY <3>1
    <3> QED BY <2>0, <2>2, <3>3, <3>4
  <2>3. CASE e \notin out
    BY <2>0, <2>1, <2>3
  <2> QED BY <2>2, <2>3
<1>3. E = [e \in Ids |-> E[e]]
  BY DEF Erased
<1> HIDE DEF E
<1>4. E \in [Ids -> AnyEntry]
  BY <1>2, <1>3
<1> QED
  BY <1>2, <1>4 DEF E

\* ... and keeps the table, the list and the counts in order.
LEMMA ErasedKeeps ==
    ASSUME FcInv, NEW out, \A e \in out : e \in Ids /\ entry[e].inCache
    PROVE  /\ Uncached(out) \in [CacheFiles -> 0..made]
           /\ LRU_Remove(lru, out) \in SUBSET (Ids \X Ids)
           /\ Listed(LRU_Remove(lru, out)) = Listed(lru) \ out
           /\ Referred(Erased(entry, out))
           /\ Tabled(Uncached(out), Erased(entry, out), files)
           /\ Aged(LRU_Remove(lru, out), Erased(entry, out))
           /\ Within(Erased(entry, out))
           /\ \A e \in Ids : e > made => Erased(entry, out)[e] = NoEntry
<1> DEFINE E == Erased(entry, out)
           C == Uncached(out)
           L == LRU_Remove(lru, out)
<1>1. \A e \in Ids : /\ E[e].file = entry[e].file
                     /\ e \in out => ~ E[e].inCache /\ E[e].refs = entry[e].refs - 1
                     /\ e \notin out => E[e] = entry[e]
  BY ErasedIs
<1> HIDE DEF E
<1>2. /\ made \in 0..MaxEntry /\ cached \in [CacheFiles -> 0..made]
      /\ entry \in [Ids -> AnyEntry] /\ lru \in SUBSET (Ids \X Ids) /\ MaxEntry \in Nat
  BY CacheAssumption DEF FcInv, FcTypeOK
<1>3. C \in [CacheFiles -> 0..made]
  BY <1>2 DEF Uncached
<1>4. L \in SUBSET (Ids \X Ids) /\ \A d, e : <<d, e>> \in L <=> <<d, e>> \in lru /\ d \notin out /\ e \notin out
  BY <1>2 DEF LRU_Remove
<1>5. \A e \in Listed(lru) : <<e, e>> \in lru /\ e \in Ids
  <2>1. ASSUME NEW e \in Listed(lru) PROVE e \in Ids
    BY <1>2 DEF Listed
  <2>2. ASSUME NEW e \in Listed(lru) PROVE <<e, e>> \in lru
    BY DEF FcInv, Aged
  <2> QED BY <2>1, <2>2
<1>6. Listed(L) = Listed(lru) \ out
  <2>1. ASSUME NEW e \in Listed(L) PROVE e \in Listed(lru) \ out
    BY DEF Listed, LRU_Remove
  <2>2. ASSUME NEW e \in Listed(lru) \ out PROVE e \in Listed(L)
    <3>1. <<e, e>> \in L
      BY <1>4, <1>5, <2>2
    <3> HIDE DEF L
    <3> QED BY <3>1 DEF Listed
  <2> HIDE DEF L
  <2> QED BY <2>1, <2>2
<1>7. Referred(E)
  <2> SUFFICES ASSUME NEW e \in Ids
               PROVE  E[e].refs = (IF E[e].inCache THEN 1 ELSE 0) + Cardinality(Clients(e))
    BY DEF Referred
  <2>1. Cardinality(Clients(e)) \in Nat
    BY FinitelyMany DEF Clients
  <2>2. entry[e].refs = (IF entry[e].inCache THEN 1 ELSE 0) + Cardinality(Clients(e))
    BY DEF FcInv, Referred
  <2>3. CASE e \in out
    BY <1>1, <2>1, <2>2, <2>3
  <2>4. CASE e \notin out
    BY <1>1, <2>2, <2>4
  <2> QED BY <2>3, <2>4
<1>8. Tabled(C, E, files)
  <2>1. \A f \in CacheFiles : C[f] # 0 => C[f] = cached[f] /\ cached[f] \notin out /\ C[f] \in Ids
    BY <1>2 DEF Uncached, Ids
  <2>2. \A e \in Ids : entry[e].inCache /\ e \notin out => entry[e].file \in CacheFiles /\ C[entry[e].file] = e
    BY <1>2 DEF Uncached, FcInv, Tabled, FcTypeOK
  <2> HIDE DEF C
  <2>3. ASSUME NEW f \in CacheFiles, C[f] # 0
        PROVE  E[C[f]].inCache /\ E[C[f]].file = f
    <3>1. entry[cached[f]].inCache /\ entry[cached[f]].file = f
      BY <2>1, <2>3 DEF FcInv, Tabled
    <3> QED BY <1>1, <2>1, <2>3, <3>1
  <2>4. ASSUME NEW e \in Ids, E[e].inCache
        PROVE  E[e].file \in files /\ C[E[e].file] = e
    <3>1. e \notin out /\ E[e] = entry[e]
      BY <1>1, <2>4
    <3> QED BY <2>2, <2>4, <3>1 DEF FcInv, Tabled
  <2> QED BY <2>3, <2>4 DEF Tabled
<1>9. Aged(L, E)
  <2> HIDE DEF L
  <2> QED BY <1>1, <1>4, <1>6 DEF FcInv, Aged
<1>10. Within(E)
  <2>1. ASSUME NEW s
        PROVE  Cardinality(Held(E, s)) <= Cardinality(Held(entry, s))
    <3>1. Held(E, s) \in SUBSET Held(entry, s) /\ Held(entry, s) \in SUBSET Ids
      BY <1>1 DEF Held
    <3> QED BY <3>1, FinitelyMany, FS_Subset
  <2>2. \A s : Cardinality(Held(E, s)) \in Nat /\ Cardinality(Held(entry, s)) \in Nat
    BY FinitelyMany DEF Held
  <2>3. Capacity \in Nat /\ Cardinality(Readers) \in Nat
    BY CacheAssumption, FinitelyMany
  <2>4. \A f \in CacheFiles : \/ Cardinality(Held(entry, ShardOf[f])) <= Capacity
                              \/ Cardinality(Held(entry, ShardOf[f])) <= Cardinality(Readers)
    BY DEF FcInv, Within
  <2>5. \A f \in CacheFiles : \/ Cardinality(Held(E, ShardOf[f])) <= Capacity
                              \/ Cardinality(Held(E, ShardOf[f])) <= Cardinality(Readers)
    BY <2>1, <2>2, <2>3, <2>4
  <2> QED BY <2>5 DEF Within
<1>11. \A e \in Ids : e > made => E[e] = NoEntry
  BY <1>1 DEF FcInv, Unmade, NoEntry
<1> QED
  BY <1>3, <1>4, <1>6, <1>7, <1>8, <1>9, <1>10, <1>11 DEF E

\* The permits of what is freed return.
LEMMA ReturnedIs ==
    ASSUME FcInv, NEW E,
           \A e \in Ids : E[e].refs > 0 => entry[e].refs > 0,
           \A e \in Ids : E[e].how = entry[e].how /\ E[e].refs \in Nat
    PROVE  Permitted(E, Returned(E)) /\ Returned(E) \in [mmap: Int, fd: Int]
<1> DEFINE Gone(how) == {e \in Ids : /\ entry[e].refs > 0 /\ E[e].refs = 0
                                     /\ entry[e].how = how}
<1>1. ASSUME NEW how
      PROVE  /\ Cardinality(OpenIn(E, how)) =
                  Cardinality(OpenIn(entry, how)) - Cardinality(Gone(how))
             /\ Cardinality(OpenIn(E, how)) \in Nat /\ Cardinality(Gone(how)) \in Nat
             /\ Cardinality(OpenIn(entry, how)) \in Nat
  <2>1. OpenIn(E, how) = OpenIn(entry, how) \ Gone(how)
    BY DEF OpenIn
  <2>2. OpenIn(entry, how) \cap Gone(how) = Gone(how)
    BY DEF OpenIn
  <2>3. OpenIn(entry, how) \in SUBSET Ids /\ Gone(how) \in SUBSET Ids /\ OpenIn(E, how) \in SUBSET Ids
    BY DEF OpenIn
  <2>4. IsFiniteSet(OpenIn(entry, how))
    BY <2>3, FinitelyMany
  <2> HIDE DEF Gone
  <2>5. Cardinality(OpenIn(entry, how) \ Gone(how)) =
          Cardinality(OpenIn(entry, how)) - Cardinality(OpenIn(entry, how) \cap Gone(how))
    BY <2>4, FS_Difference
  <2> QED BY <2>1, <2>2, <2>3, <2>5, FinitelyMany
<1>2. Returned(E) = [mmap |-> allowed.mmap + Cardinality(Gone("mmap")),
                     fd |-> allowed.fd + Cardinality(Gone("fd"))]
  BY DEF Returned
<1> HIDE DEF Gone
<1>3. allowed.mmap \in Int /\ allowed.fd \in Int
  BY DEF FcInv, FcTypeOK
<1>4. Returned(E) \in [mmap: Int, fd: Int]
  BY <1>1, <1>2, <1>3
<1>5. \A kind : Cardinality(Opening(kind)) \in Nat
  BY FinitelyMany DEF Opening
<1>6. Permitted(E, Returned(E))
  BY <1>1, <1>2, <1>3, <1>5, CacheAssumption DEF FcInv, Permitted
<1> QED
  BY <1>4, <1>6

-----------------------------------------------------------------------------
(* The steps *)

\* Nothing of the cache changes, and the reader has no entry before or after.
LEMMA ReaderMoves ==
    ASSUME FcInv, NEW r \in Readers,
           NEW x \in [step: Steps, file: CacheFiles \cup {0}, entry: {0}, how: Hows],
           reader[r].entry = 0, reader' = [reader EXCEPT ![r] = x],
           UNCHANGED <<cached, entry, lru, made, files>>,
           x.step = "idle" <=> x.file = 0, x.file # 0 => x.file \in files,
           x.step # "holds", x.how # "none" => x.step = "open",
           allowed' \in [mmap: Int, fd: Int], Permitted(entry, allowed)'
    PROVE  FcInv'
<1>1. reader \in [Readers -> [step: Steps, file: CacheFiles \cup {0}, entry: 0..made, how: Hows]]
      /\ made \in 0..MaxEntry
  BY DEF FcInv, FcTypeOK
<1>2. x.entry = 0 /\ x \in [step: Steps, file: CacheFiles \cup {0}, entry: 0..made, how: Hows]
  BY <1>1, CacheAssumption
<1>3. reader'[r] = x /\ \A q \in Readers \ {r} : reader'[q] = reader[q]
  BY <1>1
<1>4. \A e : Clients(e)' = Clients(e)
  BY <1>2, <1>3 DEF Clients
<1>5. FcTypeOK'
  <2>1. reader' \in [Readers -> [step: Steps, file: CacheFiles \cup {0}, entry: 0..made, how: Hows]]
    BY <1>1, <1>2
  <2> QED BY <2>1 DEF FcInv, FcTypeOK
<1>6. Reading'
  BY <1>2, <1>3 DEF FcInv, Reading
<1>7. Referred(entry)' /\ Unmade'
  BY <1>4 DEF FcInv, Referred, Unmade, NoEntry
<1>8. Tabled(cached, entry, files)' /\ Within(entry)'
  BY DEF FcInv, Tabled, Within, Held
<1>9. Aged(lru, entry)'
  BY <1>4 DEF FcInv, Aged, Listed
<1> QED
  BY <1>5, <1>6, <1>7, <1>8, <1>9 DEF FcInv

\* A miss is no step of the cache.
LEMMA MissKeeps ==
    ASSUME FcInv, NEW r \in Readers, NEW f \in CacheFiles, FcLookup(r, f), cached[f] = 0
    PROVE  FcInv'
<1> DEFINE x == [step |-> "mmap", file |-> f, entry |-> 0, how |-> "none"]
<1>1. /\ reader' = [reader EXCEPT ![r] = x] /\ reader[r].step = "idle" /\ f \in files
      /\ UNCHANGED <<cached, entry, lru, made, files, allowed>>
  BY DEF FcLookup, ReaderAt
<1>2. reader[r].entry = 0 /\ reader[r].how = "none" /\ f # 0
  BY <1>1, CacheAssumption DEF FcInv, Reading
<1>3. x \in [step: Steps, file: CacheFiles \cup {0}, entry: {0}, how: Hows]
  BY DEF Steps, Hows
<1>4. \A q \in Readers : reader'[q] = IF q = r THEN x ELSE reader[q]
  BY <1>1 DEF FcInv, FcTypeOK
<1>5. Opening("mmap")' = Opening("mmap") /\ Opening("fd")' = Opening("fd")
  <2>1. \A q \in Readers : /\ reader'[q].how = reader[q].how
                           /\ \A k \in {"mmap", "fd"} :
                                reader'[q].step = Lacking(k) <=> reader[q].step = Lacking(k)
    <3>1. \A k : Lacking(k) \in {"no mmap", "no fd"}
      BY DEF Lacking
    <3>2. \A k : reader[r].step # Lacking(k) /\ x.step # Lacking(k)
      BY <1>1, <3>1
    <3> QED BY <1>2, <1>4, <3>2
  <2> QED BY <2>1 DEF Opening
<1>6. Permitted(entry, allowed)' /\ allowed' \in [mmap: Int, fd: Int]
  BY <1>1, <1>5 DEF FcInv, Permitted, FcTypeOK, OpenIn
<1> HIDE DEF x
<1>7. x.step = "mmap" /\ x.file = f /\ x.how = "none"
  BY DEF x
<1> QED
  BY <1>1, <1>2, <1>3, <1>6, <1>7, ReaderMoves

\* A permit more in use, or one less.
LEMMA PermitTaken ==
    ASSUME FcInv, NEW kind \in {"mmap", "fd"}, NEW r \in Readers,
           UNCHANGED entry, allowed' = [allowed EXCEPT ![kind] = @ - 1],
           r \notin Opening(kind), Opening(kind)' = Opening(kind) \cup {r},
           \A k \in {"mmap", "fd"} \ {kind} : Opening(k)' = Opening(k)
    PROVE  Permitted(entry, allowed)' /\ allowed' \in [mmap: Int, fd: Int]
<1>1. allowed \in [mmap: Int, fd: Int]
  BY DEF FcInv, FcTypeOK
<1>2. IsFiniteSet(Opening(kind))
  BY FinitelyMany DEF Opening
<1>3. /\ Cardinality(Opening(kind)) \in Nat
      /\ Cardinality(Opening(kind)') = Cardinality(Opening(kind)) + 1
  BY <1>2, OneMore
<1>4. \A k : OpenIn(entry, k)' = OpenIn(entry, k)
  BY DEF OpenIn
<1>5. \A k : Cardinality(OpenIn(entry, k)) \in Nat /\ Cardinality(Opening(k)) \in Nat
  BY FinitelyMany DEF OpenIn, Opening
<1>6. CASE kind = "mmap"
  <2>1. allowed' = [mmap |-> allowed.mmap - 1, fd |-> allowed.fd]
    BY <1>1, <1>6
  <2>2. Opening("fd")' = Opening("fd")
    BY <1>6
  <2>3. allowed'.mmap = allowed.mmap - 1 /\ allowed'.fd = allowed.fd
    BY <2>1
  <2>4. /\ allowed.mmap = Mmaps - Cardinality(OpenIn(entry, "mmap")) - Cardinality(Opening("mmap"))
        /\ allowed.fd = Fds - Cardinality(OpenIn(entry, "fd")) - Cardinality(Opening("fd"))
    BY DEF FcInv, Permitted
  <2>5. Cardinality(Opening("mmap")') = Cardinality(Opening("mmap")) + 1
    BY <1>3, <1>6
  <2>6. Permitted(entry, allowed)'
    BY <1>4, <1>5, <2>2, <2>3, <2>4, <2>5, CacheAssumption DEF Permitted
  <2> QED BY <1>1, <2>1, <2>6
<1>7. CASE kind = "fd"
  <2>1. allowed' = [mmap |-> allowed.mmap, fd |-> allowed.fd - 1]
    BY <1>1, <1>7
  <2>2. Opening("mmap")' = Opening("mmap")
    BY <1>7
  <2>3. allowed'.fd = allowed.fd - 1 /\ allowed'.mmap = allowed.mmap
    BY <2>1
  <2>4. /\ allowed.mmap = Mmaps - Cardinality(OpenIn(entry, "mmap")) - Cardinality(Opening("mmap"))
        /\ allowed.fd = Fds - Cardinality(OpenIn(entry, "fd")) - Cardinality(Opening("fd"))
    BY DEF FcInv, Permitted
  <2>5. Cardinality(Opening("fd")') = Cardinality(Opening("fd")) + 1
    BY <1>3, <1>7
  <2>6. Permitted(entry, allowed)'
    BY <1>4, <1>5, <2>2, <2>3, <2>4, <2>5, CacheAssumption DEF Permitted
  <2> QED BY <1>1, <2>1, <2>6
<1> QED
  BY <1>6, <1>7

LEMMA PermitGiven ==
    ASSUME FcInv, NEW kind \in {"mmap", "fd"}, NEW r \in Readers,
           UNCHANGED entry, allowed' = [allowed EXCEPT ![kind] = @ + 1],
           r \in Opening(kind), Opening(kind)' = Opening(kind) \ {r},
           \A k \in {"mmap", "fd"} \ {kind} : Opening(k)' = Opening(k)
    PROVE  Permitted(entry, allowed)' /\ allowed' \in [mmap: Int, fd: Int]
<1>1. allowed \in [mmap: Int, fd: Int]
  BY DEF FcInv, FcTypeOK
<1>2. IsFiniteSet(Opening(kind))
  BY FinitelyMany DEF Opening
<1>3. /\ Cardinality(Opening(kind)) \in Nat
      /\ Cardinality(Opening(kind)') = Cardinality(Opening(kind)) - 1
  BY <1>2, OneMore
<1>4. \A k : OpenIn(entry, k)' = OpenIn(entry, k)
  BY DEF OpenIn
<1>5. \A k : Cardinality(OpenIn(entry, k)) \in Nat /\ Cardinality(Opening(k)) \in Nat
  BY FinitelyMany DEF OpenIn, Opening
<1>6. CASE kind = "mmap"
  <2>1. allowed' = [mmap |-> allowed.mmap + 1, fd |-> allowed.fd]
    BY <1>1, <1>6
  <2>2. Opening("fd")' = Opening("fd")
    BY <1>6
  <2>3. allowed'.mmap = allowed.mmap + 1 /\ allowed'.fd = allowed.fd
    BY <2>1
  <2>4. /\ allowed.mmap = Mmaps - Cardinality(OpenIn(entry, "mmap")) - Cardinality(Opening("mmap"))
        /\ allowed.fd = Fds - Cardinality(OpenIn(entry, "fd")) - Cardinality(Opening("fd"))
    BY DEF FcInv, Permitted
  <2>5. Cardinality(Opening("mmap")') = Cardinality(Opening("mmap")) - 1
    BY <1>3, <1>6
  <2>6. Permitted(entry, allowed)'
    BY <1>4, <1>5, <2>2, <2>3, <2>4, <2>5, CacheAssumption DEF Permitted
  <2> QED BY <1>1, <2>1, <2>6
<1>7. CASE kind = "fd"
  <2>1. allowed' = [mmap |-> allowed.mmap, fd |-> allowed.fd + 1]
    BY <1>1, <1>7
  <2>2. Opening("mmap")' = Opening("mmap")
    BY <1>7
  <2>3. allowed'.fd = allowed.fd + 1 /\ allowed'.mmap = allowed.mmap
    BY <2>1
  <2>4. /\ allowed.mmap = Mmaps - Cardinality(OpenIn(entry, "mmap")) - Cardinality(Opening("mmap"))
        /\ allowed.fd = Fds - Cardinality(OpenIn(entry, "fd")) - Cardinality(Opening("fd"))
    BY DEF FcInv, Permitted
  <2>5. Cardinality(Opening("fd")') = Cardinality(Opening("fd")) - 1
    BY <1>3, <1>7
  <2>6. Permitted(entry, allowed)'
    BY <1>4, <1>5, <2>2, <2>3, <2>4, <2>5, CacheAssumption DEF Permitted
  <2> QED BY <1>1, <2>1, <2>6
<1> QED
  BY <1>6, <1>7

LEMMA AcquireKeeps ==
    ASSUME FcInv, NEW r \in Readers, FcAcquire(r)
    PROVE  FcInv'
<1>1. PICK kind \in {"mmap", "fd"} :
        /\ reader[r].step = kind /\ allowed' = [allowed EXCEPT ![kind] = @ - 1]
        /\ UNCHANGED <<cached, entry, lru, made, files>>
  BY DEF FcAcquire
<1>2. PICK w \in [step: Steps, file: CacheFiles \cup {0}, entry: 0..made, how: Hows] : w = reader[r]
  BY DEF FcInv, FcTypeOK
<1>3. w.entry = 0 /\ w.how = "none" /\ w.file # 0 /\ w.file \in files
  BY <1>1, <1>2 DEF FcInv, Reading
<1> DEFINE x == IF allowed[kind] > 0
                THEN [step |-> "open", file |-> w.file, entry |-> 0, how |-> kind]
                ELSE [step |-> Lacking(kind), file |-> w.file, entry |-> 0, how |-> "none"]
<1>4. reader' = [reader EXCEPT ![r] = x]
  <2>1. reader' = [reader EXCEPT ![r] =
          IF allowed[kind] > 0 THEN [reader[r] EXCEPT !.step = "open", !.how = kind]
          ELSE [reader[r] EXCEPT !.step = Lacking(kind)]]
    BY <1>1 DEF FcAcquire, FcInv, FcTypeOK
  <2>2. x = IF allowed[kind] > 0 THEN [w EXCEPT !.step = "open", !.how = kind]
            ELSE [w EXCEPT !.step = Lacking(kind)]
    BY <1>2, <1>3
  <2> HIDE DEF x
  <2> QED BY <1>2, <2>1, <2>2
<1>5. /\ x \in [step: Steps, file: CacheFiles \cup {0}, entry: {0}, how: Hows]
      /\ x.file = w.file /\ x.step \in {"open", "no mmap", "no fd"}
      /\ (x.how # "none" => x.step = "open")
      /\ x.how = kind \/ x.step = Lacking(kind)
      /\ x.how \in {kind, "none"} /\ x.step \in {"open", Lacking(kind)}
  BY <1>1, <1>2, <1>3 DEF Lacking, Steps, Hows
<1> HIDE DEF x
<1>6. \A q \in Readers : reader'[q] = IF q = r THEN x ELSE reader[q]
  BY <1>4 DEF FcInv, FcTypeOK
<1>7. /\ r \notin Opening(kind) /\ Opening(kind)' = Opening(kind) \cup {r}
      /\ \A k \in {"mmap", "fd"} \ {kind} : Opening(k)' = Opening(k)
  <2>1. reader[r].how = "none" /\ reader[r].step = kind /\ \A k \in {"mmap", "fd"} : kind # Lacking(k)
    BY <1>1, <1>2, <1>3 DEF Lacking
  <2>2. r \notin Opening(kind)
    BY <1>1, <2>1 DEF Opening
  <2>3. ASSUME NEW k \in {"mmap", "fd"}, NEW q \in Readers
        PROVE  q \in Opening(k)' <=> q \in Opening(k) \/ (k = kind /\ q = r)
    <3>1. CASE q = r
      <4>1. reader'[q].how = x.how /\ reader'[q].step = x.step
        BY <1>6, <3>1
      <4>2. q \notin Opening(k)
        BY <1>1, <2>1, <2>3, <3>1 DEF Opening
      <4>3. k = kind => x.how = k \/ x.step = Lacking(k)
        BY <1>5
      <4>4. k # kind => x.how # k /\ x.step # Lacking(k)
        BY <1>1, <1>5, <2>3 DEF Lacking
      <4> QED BY <3>1, <4>1, <4>2, <4>3, <4>4 DEF Opening
    <3>2. CASE q # r
      BY <1>6, <3>2 DEF Opening
    <3> QED BY <3>1, <3>2
  <2>4. \A k : Opening(k) \subseteq Readers /\ Opening(k)' \subseteq Readers
    BY DEF Opening
  <2>5. Opening(kind)' = Opening(kind) \cup {r}
    BY <1>1, <2>3, <2>4
  <2>6. \A k \in {"mmap", "fd"} \ {kind} : Opening(k)' = Opening(k)
    BY <1>1, <2>3, <2>4
  <2> QED BY <2>2, <2>5, <2>6
<1>8. Permitted(entry, allowed)' /\ allowed' \in [mmap: Int, fd: Int]
  BY <1>1, <1>7, PermitTaken
<1>9. x.step # "idle" /\ x.step # "holds" /\ reader[r].entry = 0
  BY <1>2, <1>3, <1>5
<1> QED
  BY <1>1, <1>3, <1>4, <1>5, <1>8, <1>9, ReaderMoves

LEMMA GiveBackKeeps ==
    ASSUME FcInv, NEW r \in Readers, FcGiveBack(r)
    PROVE  FcInv'
<1>1. PICK kind \in {"mmap", "fd"} :
        /\ reader[r].step = Lacking(kind) /\ allowed' = [allowed EXCEPT ![kind] = @ + 1]
        /\ reader' = [reader EXCEPT ![r].step = IF kind = "mmap" THEN "fd" ELSE "open"]
        /\ UNCHANGED <<cached, entry, lru, made, files>>
  <2>1. CASE reader[r].step = "no mmap"
    <3> WITNESS "mmap" \in {"mmap", "fd"}
    <3> QED BY <2>1 DEF FcGiveBack, Lacking
  <2>2. CASE reader[r].step = "no fd"
    <3> WITNESS "fd" \in {"mmap", "fd"}
    <3> QED BY <2>2 DEF FcGiveBack, Lacking
  <2> QED BY <2>1, <2>2 DEF FcGiveBack
<1>2. PICK w \in [step: Steps, file: CacheFiles \cup {0}, entry: 0..made, how: Hows] : w = reader[r]
  BY DEF FcInv, FcTypeOK
<1>3. Lacking(kind) \in {"no mmap", "no fd"} /\ \A k \in {"mmap", "fd"} \ {kind} : Lacking(k) # Lacking(kind)
  BY DEF Lacking
<1>4. w.entry = 0 /\ w.how = "none" /\ w.file # 0 /\ w.file \in files
  BY <1>1, <1>2, <1>3 DEF FcInv, Reading
<1> DEFINE x == [step |-> IF kind = "mmap" THEN "fd" ELSE "open", file |-> w.file,
                 entry |-> 0, how |-> "none"]
<1>5. reader' = [reader EXCEPT ![r] = x]
  <2>1. reader' = [reader EXCEPT ![r] = [w EXCEPT !.step = IF kind = "mmap" THEN "fd" ELSE "open"]]
    BY <1>1, <1>2
  <2>2. x = [w EXCEPT !.step = IF kind = "mmap" THEN "fd" ELSE "open"]
    BY <1>4
  <2> HIDE DEF x
  <2> QED BY <2>1, <2>2
<1>6. /\ x \in [step: Steps, file: CacheFiles \cup {0}, entry: {0}, how: Hows]
      /\ x.file = w.file /\ x.step \in {"open", "fd"} /\ x.how = "none"
  BY <1>2 DEF Steps, Hows
<1> HIDE DEF x
<1>7. \A q \in Readers : reader'[q] = IF q = r THEN x ELSE reader[q]
  BY <1>5 DEF FcInv, FcTypeOK
<1>8. /\ r \in Opening(kind) /\ Opening(kind)' = Opening(kind) \ {r}
      /\ \A k \in {"mmap", "fd"} \ {kind} : Opening(k)' = Opening(k)
  <2>1. reader[r].how = "none" /\ reader[r].step = Lacking(kind)
    BY <1>1, <1>2, <1>4
  <2>2. r \in Opening(kind)
    BY <2>1 DEF Opening
  <2>3. ASSUME NEW k \in {"mmap", "fd"}, NEW q \in Readers
        PROVE  q \in Opening(k)' <=> q \in Opening(k) /\ ~ (k = kind /\ q = r)
    <3>1. CASE q = r
      <4>1. reader'[q].how = x.how /\ reader'[q].step = x.step
        BY <1>7, <3>1
      <4>2. Lacking(k) \in {"no mmap", "no fd"}
        BY DEF Lacking
      <4>3. q \notin Opening(k)'
        BY <1>6, <4>1, <4>2, <2>3 DEF Opening
      <4>4. k # kind => q \notin Opening(k)
        BY <1>3, <2>1, <2>3, <3>1 DEF Opening
      <4> QED BY <3>1, <4>3, <4>4
    <3>2. CASE q # r
      BY <1>7, <3>2 DEF Opening
    <3> QED BY <3>1, <3>2
  <2>4. \A k : Opening(k) \subseteq Readers /\ Opening(k)' \subseteq Readers
    BY DEF Opening
  <2>5. Opening(kind)' = Opening(kind) \ {r}
    BY <2>3, <2>4
  <2>6. \A k \in {"mmap", "fd"} \ {kind} : Opening(k)' = Opening(k)
    BY <2>3, <2>4
  <2> QED BY <2>2, <2>5, <2>6
<1>9. Permitted(entry, allowed)' /\ allowed' \in [mmap: Int, fd: Int]
  BY <1>1, <1>8, PermitGiven
<1>10. x.step # "idle" /\ x.step # "holds" /\ reader[r].entry = 0
  BY <1>2, <1>4, <1>6
<1> QED
  BY <1>1, <1>4, <1>5, <1>6, <1>9, <1>10, ReaderMoves

\* A reader that ends without an entry leaves no permit open.
LEMMA EndsOpening ==
    ASSUME FcInv, NEW r \in Readers, NEW x, reader' = [reader EXCEPT ![r] = x],
           x.how = "none", x.step \in {"idle", "holds"}, reader[r].step \in {"open", "holds", "idle"}
    PROVE  \A k \in {"mmap", "fd"} :
              Opening(k)' = IF reader[r].how = k THEN Opening(k) \ {r} ELSE Opening(k)
<1> SUFFICES ASSUME NEW k \in {"mmap", "fd"}
             PROVE  Opening(k)' = IF reader[r].how = k THEN Opening(k) \ {r} ELSE Opening(k)
  OBVIOUS
<1>1. \A q \in Readers : reader'[q] = IF q = r THEN x ELSE reader[q]
  BY DEF FcInv, FcTypeOK
<1>2. Lacking(k) \in {"no mmap", "no fd"}
  BY DEF Lacking
<1>3. r \notin Opening(k)' /\ (r \in Opening(k) <=> reader[r].how = k)
  BY <1>1, <1>2 DEF Opening
<1>4. \A q \in Readers \ {r} : q \in Opening(k)' <=> q \in Opening(k)
  BY <1>1 DEF Opening
<1>5. Opening(k) \subseteq Readers /\ Opening(k)' \subseteq Readers
  BY DEF Opening
<1> QED
  BY <1>3, <1>4, <1>5

LEMMA FailsKeeps ==
    ASSUME FcInv, NEW r \in Readers, FcFails(r)
    PROVE  FcInv'
<1>1. /\ reader[r].step = "open" /\ reader' = [reader EXCEPT ![r] = Idle]
      /\ UNCHANGED <<cached, entry, lru, made, files>>
      /\ allowed' = IF reader[r].how = "none" THEN allowed
                    ELSE [allowed EXCEPT ![reader[r].how] = @ + 1]
  BY DEF FcFails
<1>2. reader[r].entry = 0 /\ reader[r].how \in Hows
  BY <1>1 DEF FcInv, FcTypeOK, Reading
<1>3. Idle.step = "idle" /\ Idle.how = "none" /\ Idle.file = 0
      /\ Idle \in [step: Steps, file: CacheFiles \cup {0}, entry: {0}, how: Hows]
  BY DEF Idle, ReaderAt, Steps, Hows
<1>4. \A k \in {"mmap", "fd"} :
        Opening(k)' = IF reader[r].how = k THEN Opening(k) \ {r} ELSE Opening(k)
  BY <1>1, <1>3, EndsOpening
<1>5. Permitted(entry, allowed)' /\ allowed' \in [mmap: Int, fd: Int]
  <2>1. CASE reader[r].how = "none"
    <3>1. Opening("mmap")' = Opening("mmap") /\ Opening("fd")' = Opening("fd")
      BY <1>4, <2>1
    <3> QED BY <1>1, <2>1, <3>1 DEF FcInv, FcTypeOK, Permitted, OpenIn
  <2>2. CASE reader[r].how # "none"
    <3>1. PICK kind \in {"mmap", "fd"} : reader[r].how = kind
      BY <1>2, <2>2 DEF Hows
    <3>2. r \in Opening(kind)
      BY <3>1 DEF Opening
    <3>3. Opening(kind)' = Opening(kind) \ {r}
      BY <1>4, <3>1
    <3>4. \A k \in {"mmap", "fd"} \ {kind} : Opening(k)' = Opening(k)
      BY <1>4, <3>1
    <3>5. allowed' = [allowed EXCEPT ![kind] = @ + 1]
      BY <1>1, <2>2, <3>1
    <3> QED BY <1>1, <3>2, <3>3, <3>4, <3>5, PermitGiven
  <2> QED BY <2>1, <2>2
<1> QED
  BY <1>1, <1>2, <1>3, <1>5, ReaderMoves

\* A hit has one reference more, and may not go.
LEMMA HitKeeps ==
    ASSUME FcInv, NEW r \in Readers, NEW f \in CacheFiles, FcLookup(r, f), cached[f] # 0
    PROVE  FcInv'
<1>1. PICK e \in 1..made :
        /\ e = cached[f] /\ e \in Ids /\ entry[e].inCache /\ entry[e].file = f
        /\ entry' = [entry EXCEPT ![e].refs = @ + 1]
        /\ lru' = LRU_Remove(lru, {e})
        /\ reader' = [reader EXCEPT ![r] = [step |-> "holds", file |-> f, entry |-> e, how |-> "none"]]
  <2>1. cached[f] \in 1..made /\ cached[f] \in Ids
    BY CacheAssumption DEF FcInv, FcTypeOK, Ids
  <2>2. entry[cached[f]].inCache /\ entry[cached[f]].file = f
    BY DEF FcInv, Tabled
  <2> QED BY <2>1, <2>2 DEF FcLookup, Referenced, ReaderAt
<1>2. reader[r].step = "idle" /\ f \in files /\ UNCHANGED <<cached, made, allowed, files>>
  BY DEF FcLookup
<1>3. reader[r].entry = 0 /\ reader[r].how = "none" /\ f # 0
  BY <1>2, CacheAssumption DEF FcInv, Reading
<1> DEFINE x == [step |-> "holds", file |-> f, entry |-> e, how |-> "none"]
<1>4. x \in [step: Steps, file: CacheFiles \cup {0}, entry: 0..made, how: Hows]
  BY <1>1 DEF Steps, Hows
<1>5. x.step = "holds" /\ x.file = f /\ x.entry = e /\ x.how = "none"
  OBVIOUS
<1>6. reader' = [reader EXCEPT ![r] = x]
  BY <1>1
<1> HIDE DEF x
<1>7. \A q \in Readers : reader'[q] = IF q = r THEN x ELSE reader[q]
  BY <1>6 DEF FcInv, FcTypeOK
<1>8. r \notin Clients(e) /\ Clients(e)' = Clients(e) \cup {r}
  BY <1>1, <1>3, <1>5, <1>7 DEF Clients, Ids
<1>9. \A d \in Ids \ {e} : Clients(d)' = Clients(d)
  BY <1>3, <1>5, <1>7 DEF Clients, Ids
<1>10. Cardinality(Clients(e)) \in Nat /\ Cardinality(Clients(e)') = Cardinality(Clients(e)) + 1
  <2>1. IsFiniteSet(Clients(e))
    BY FinitelyMany DEF Clients
  <2> QED BY <1>8, <2>1, OneMore
<1>11. /\ \A d \in Ids \ {e} : entry'[d] = entry[d]
       /\ entry' \in [Ids -> AnyEntry]
       /\ entry'[e].refs = entry[e].refs + 1 /\ entry'[e].inCache
       /\ entry'[e].file = f /\ entry'[e].how = entry[e].how
  <2>1. PICK w \in AnyEntry : w = entry[e]
    BY <1>1 DEF FcInv, FcTypeOK
  <2>2. entry' = [entry EXCEPT ![e] = [w EXCEPT !.refs = w.refs + 1]]
    BY <1>1, <2>1
  <2>3. [w EXCEPT !.refs = w.refs + 1] \in AnyEntry
    BY <2>1 DEF AnyEntry
  <2> QED BY <1>1, <2>1, <2>2, <2>3 DEF FcInv, FcTypeOK, AnyEntry
<1>12. FcTypeOK'
  <2>1. lru' \in SUBSET (Ids \X Ids)
    BY <1>1 DEF FcInv, FcTypeOK, LRU_Remove
  <2>2. reader' \in [Readers -> [step: Steps, file: CacheFiles \cup {0}, entry: 0..made, how: Hows]]
    BY <1>4, <1>6 DEF FcInv, FcTypeOK
  <2> QED BY <1>2, <1>11, <2>1, <2>2 DEF FcInv, FcTypeOK
<1>13. \A d \in Ids : entry'[d].file = entry[d].file /\ (entry'[d].inCache <=> entry[d].inCache)
  BY <1>1, <1>11
<1>14. Reading'
  <2>1. \A q \in Readers : reader[q].entry # 0 => reader[q].entry \in Ids
    BY CacheAssumption DEF FcInv, FcTypeOK, Ids
  <2> QED BY <1>1, <1>2, <1>3, <1>5, <1>7, <1>13, <2>1 DEF FcInv, Reading
<1>15. Referred(entry)'
  <2> SUFFICES ASSUME NEW d \in Ids
               PROVE  entry'[d].refs = (IF entry'[d].inCache THEN 1 ELSE 0) + Cardinality(Clients(d)')
    BY DEF Referred
  <2>1. entry[d].refs = (IF entry[d].inCache THEN 1 ELSE 0) + Cardinality(Clients(d))
    BY DEF FcInv, Referred
  <2>2. CASE d = e
    BY <1>1, <1>10, <1>11, <2>1, <2>2
  <2>3. CASE d # e
    BY <1>9, <1>11, <2>1, <2>3
  <2> QED BY <2>2, <2>3
<1>16. Unmade'
  <2>1. e <= made /\ e \in Int /\ made \in Int
    BY <1>1 DEF FcInv, FcTypeOK
  <2> QED BY <1>2, <1>11, <2>1 DEF FcInv, Unmade, NoEntry
<1>17. Tabled(cached, entry, files)'
  <2>1. \A g \in CacheFiles : cached[g] # 0 => cached[g] \in Ids
    BY CacheAssumption DEF FcInv, FcTypeOK, Ids
  <2> QED BY <1>2, <1>13, <2>1 DEF FcInv, Tabled
<1>18. Aged(lru, entry)'
  <2>1. Listed(LRU_Remove(lru, {e})) = Listed(lru) \ {e}
    BY <1>1, ErasedKeeps
  <2>2. Listed(lru)' = Listed(lru) \ {e}
    BY <1>1, <2>1 DEF Listed
  <2>3. \A c, d : <<c, d>> \in lru' <=> <<c, d>> \in lru /\ c # e /\ d # e
    BY <1>1 DEF LRU_Remove, FcInv, FcTypeOK
  <2>4. \A d \in Ids : d \in Listed(lru)' <=> entry'[d].inCache /\ Clients(d)' = {}
    BY <1>8, <1>9, <1>11, <2>2 DEF FcInv, Aged
  <2>5. \A c, d \in Ids : <<c, d>> \in lru' => d \in Listed(lru)'
    BY <2>2, <2>3 DEF FcInv, Aged
  <2>6. \A c, d \in Listed(lru)' : <<c, d>> \in lru' \/ <<d, c>> \in lru'
    BY <2>2, <2>3 DEF FcInv, Aged
  <2>7. \A c, d \in Ids : <<c, d>> \in lru' /\ <<d, c>> \in lru' => c = d
    BY <2>3 DEF FcInv, Aged
  <2>8. \A b, c, d \in Ids : <<b, c>> \in lru' /\ <<c, d>> \in lru' => <<b, d>> \in lru'
    BY <2>3 DEF FcInv, Aged
  <2> QED BY <2>4, <2>5, <2>6, <2>7, <2>8 DEF Aged
<1>19. Within(entry)'
  <2>1. \A s : Held(entry, s)' = Held(entry, s)
    BY <1>13 DEF Held
  <2> QED BY <2>1 DEF FcInv, Within
<1>20. Permitted(entry, allowed)'
  <2>1. \A k \in {"mmap", "fd"} : Opening(k)' = Opening(k)
    BY <1>2, <1>3, <1>5, <1>6, EndsOpening
  <2>2. entry[e].refs >= 1
    BY <1>1, <1>10 DEF FcInv, Referred
  <2>3. \A d \in Ids : entry'[d].how = entry[d].how /\ (entry'[d].refs > 0 <=> entry[d].refs > 0)
    BY <1>11, <2>2, <1>10 DEF FcInv, FcTypeOK, AnyEntry
  <2>4. \A k : OpenIn(entry, k)' = OpenIn(entry, k)
    BY <2>3 DEF OpenIn
  <2> QED BY <1>2, <2>1, <2>4 DEF FcInv, Permitted
<1> QED
  BY <1>12, <1>14, <1>15, <1>16, <1>17, <1>18, <1>19, <1>20 DEF FcInv

\* A release may free the entry, or let it go.
LEMMA ReleaseKeeps ==
    ASSUME FcInv, NEW r \in Readers, FcRelease(r)
    PROVE  FcInv'
<1>1. PICK e \in 1..made :
        /\ e = reader[r].entry /\ e \in Ids /\ reader[r].step = "holds"
        /\ entry' = [entry EXCEPT ![e].refs = @ - 1]
        /\ lru' = IF entry'[e].inCache /\ entry'[e].refs = 1 THEN LRU_Append(lru, e) ELSE lru
        /\ allowed' = Returned(entry') /\ reader' = [reader EXCEPT ![r] = Idle]
        /\ UNCHANGED <<cached, made, files>>
  <2>1. reader[r].step = "holds" /\ reader[r].entry \in 1..made /\ reader[r].entry \in Ids
    BY CacheAssumption DEF FcRelease, FcInv, FcTypeOK, Reading, Ids
  <2> QED BY <2>1 DEF FcRelease, Unreferenced, WithIdle
<1>2. Idle.step = "idle" /\ Idle.how = "none" /\ Idle.file = 0 /\ Idle.entry = 0
      /\ Idle \in [step: Steps, file: CacheFiles \cup {0}, entry: 0..made, how: Hows]
  <2>1. 0 \in 0..made
    BY DEF FcInv, FcTypeOK
  <2> QED BY <2>1 DEF Idle, ReaderAt, Steps, Hows
<1>3. \A q \in Readers : reader'[q] = IF q = r THEN Idle ELSE reader[q]
  BY <1>1 DEF FcInv, FcTypeOK
<1>4. e # 0
  BY <1>1
<1>5. r \in Clients(e) /\ Clients(e)' = Clients(e) \ {r}
  BY <1>1, <1>2, <1>3, <1>4 DEF Clients
<1>6. \A d \in Ids \ {e} : Clients(d)' = Clients(d)
  BY <1>1, <1>2, <1>3 DEF Clients, Ids
<1>7. /\ Cardinality(Clients(e)) \in Nat /\ Cardinality(Clients(e)) >= 1
      /\ Cardinality(Clients(e)') = Cardinality(Clients(e)) - 1
      /\ IsFiniteSet(Clients(e)')
  <2>1. IsFiniteSet(Clients(e)) /\ IsFiniteSet(Clients(e)')
    BY <1>5, FinitelyMany DEF Clients
  <2> QED BY <1>5, <2>1, OneMore
<1>8. entry[e].refs = (IF entry[e].inCache THEN 1 ELSE 0) + Cardinality(Clients(e))
  BY <1>1 DEF FcInv, Referred
<1>9. /\ \A d \in Ids \ {e} : entry'[d] = entry[d]
      /\ entry' \in [Ids -> AnyEntry]
      /\ entry'[e].refs = entry[e].refs - 1 /\ (entry'[e].inCache <=> entry[e].inCache)
      /\ entry'[e].file = entry[e].file /\ entry'[e].how = entry[e].how
  <2>1. PICK w \in AnyEntry : w = entry[e]
    BY <1>1 DEF FcInv, FcTypeOK
  <2>2. entry' = [entry EXCEPT ![e] = [w EXCEPT !.refs = w.refs - 1]]
    BY <1>1, <2>1
  <2>3. w.refs >= 1 /\ w.refs \in Nat
    BY <1>7, <1>8, <2>1 DEF AnyEntry
  <2>4. [w EXCEPT !.refs = w.refs - 1] \in AnyEntry
    BY <2>1, <2>3 DEF AnyEntry
  <2> QED BY <1>1, <2>1, <2>2, <2>4 DEF FcInv, FcTypeOK, AnyEntry
<1>10. Referred(entry)'
  <2> SUFFICES ASSUME NEW d \in Ids
               PROVE  entry'[d].refs = (IF entry'[d].inCache THEN 1 ELSE 0) + Cardinality(Clients(d)')
    BY DEF Referred
  <2>1. entry[d].refs = (IF entry[d].inCache THEN 1 ELSE 0) + Cardinality(Clients(d))
    BY DEF FcInv, Referred
  <2>2. CASE d = e
    BY <1>7, <1>8, <1>9, <2>2
  <2>3. CASE d # e
    BY <1>6, <1>9, <2>1, <2>3
  <2> QED BY <2>2, <2>3
<1>11. \A d \in Ids : entry'[d].file = entry[d].file /\ (entry'[d].inCache <=> entry[d].inCache)
  BY <1>1, <1>9
<1>12. Permitted(entry, allowed)' /\ allowed' \in [mmap: Int, fd: Int]
  <2>1. \A d \in Ids : entry'[d].refs > 0 => entry[d].refs > 0
    BY <1>7, <1>8, <1>9
  <2>2. \A d \in Ids : entry'[d].how = entry[d].how /\ entry'[d].refs \in Nat
    BY <1>9 DEF AnyEntry
  <2>3. Permitted(entry', Returned(entry')) /\ Returned(entry') \in [mmap: Int, fd: Int]
    BY <2>1, <2>2, ReturnedIs
  <2>4. \A k \in {"mmap", "fd"} : Opening(k)' = Opening(k)
    <3>1. reader[r].how = "none"
      BY <1>1 DEF FcInv, Reading
    <3> QED BY <1>1, <1>2, <3>1, EndsOpening
  <2> QED BY <1>1, <2>3, <2>4 DEF Permitted, OpenIn
<1>13. Aged(lru, entry)' /\ lru' \in SUBSET (Ids \X Ids)
  <2>1. Clients(e)' = {} <=> entry'[e].refs = (IF entry'[e].inCache THEN 1 ELSE 0)
    <3>1. Cardinality(Clients(e)') = 0 <=> Clients(e)' = {}
      BY <1>7, FS_EmptySet
    <3> QED BY <1>7, <1>8, <1>9, <3>1
  <2>2. e \notin Listed(lru)
    BY <1>1, <1>5 DEF FcInv, Aged
  <2>3. lru \in SUBSET (Ids \X Ids)
    BY DEF FcInv, FcTypeOK
  <2>4. CASE entry'[e].inCache /\ entry'[e].refs = 1
    <3>1. lru' = lru \cup {<<d, e>> : d \in Listed(lru) \cup {e}}
      BY <1>1, <2>4 DEF LRU_Append
    <3>2. Listed(lru) \subseteq Ids /\ \A c, d : <<c, d>> \in lru => c \in Listed(lru)
      BY <2>3 DEF Listed
    <3>3. \A c, d : <<c, d>> \in lru' <=> <<c, d>> \in lru \/ (d = e /\ c \in Listed(lru) \cup {e})
      BY <3>1
    <3>4. lru' \in SUBSET (Ids \X Ids)
      BY <1>1, <2>3, <3>1, <3>2
    <3>5. Listed(lru)' = Listed(lru) \cup {e}
      <4>1. ASSUME NEW c \in Listed(lru)' PROVE c \in Listed(lru) \cup {e}
        <5>1. PICK p \in lru' : p[1] = c
          BY DEF Listed
        <5>2. p = <<c, p[2]>>
          BY <3>4, <5>1
        <5> QED BY <3>2, <3>3, <5>1, <5>2
      <4>2. ASSUME NEW c \in Listed(lru) \cup {e} PROVE c \in Listed(lru)'
        <5>1. <<c, e>> \in lru'
          BY <3>3
        <5> QED BY <5>1 DEF Listed
      <4> QED BY <4>1, <4>2
    <3>6. /\ \A d \in Ids : d \in Listed(lru) <=> entry[d].inCache /\ Clients(d) = {}
          /\ \A c, d \in Ids : <<c, d>> \in lru => d \in Listed(lru)
          /\ \A c, d \in Listed(lru) : <<c, d>> \in lru \/ <<d, c>> \in lru
          /\ \A c, d \in Ids : <<c, d>> \in lru /\ <<d, c>> \in lru => c = d
          /\ \A b, c, d \in Ids : <<b, c>> \in lru /\ <<c, d>> \in lru => <<b, d>> \in lru
      BY DEF FcInv, Aged
    <3>7. \A d \in Ids : d \in Listed(lru)' <=> entry'[d].inCache /\ Clients(d)' = {}
      BY <1>6, <1>9, <2>1, <2>4, <3>5, <3>6
    <3>8. \A c, d \in Ids : <<c, d>> \in lru' => d \in Listed(lru)'
      BY <3>3, <3>5, <3>6
    <3>9. \A c, d \in Listed(lru)' : <<c, d>> \in lru' \/ <<d, c>> \in lru'
      BY <3>3, <3>5, <3>6
    <3>10. \A c, d \in Ids : <<c, d>> \in lru' /\ <<d, c>> \in lru' => c = d
      BY <2>2, <3>2, <3>3, <3>6
    <3>11. \A b, c, d \in Ids : <<b, c>> \in lru' /\ <<c, d>> \in lru' => <<b, d>> \in lru'
      BY <2>2, <3>2, <3>3, <3>6
    <3> QED BY <3>4, <3>7, <3>8, <3>9, <3>10, <3>11 DEF Aged
  <2>5. CASE ~ (entry'[e].inCache /\ entry'[e].refs = 1)
    <3>1. lru' = lru /\ Listed(lru)' = Listed(lru)
      BY <1>1, <2>5 DEF Listed
    <3>2. ~ (entry'[e].inCache /\ Clients(e)' = {})
      BY <2>1, <2>5
    <3>3. \A d \in Ids : d \in Listed(lru)' <=> entry'[d].inCache /\ Clients(d)' = {}
      BY <1>6, <1>9, <2>2, <3>1, <3>2 DEF FcInv, Aged
    <3> QED BY <2>3, <3>1, <3>3 DEF FcInv, Aged
  <2> QED BY <2>4, <2>5
<1>14. FcTypeOK'
  <2>1. reader' \in [Readers -> [step: Steps, file: CacheFiles \cup {0}, entry: 0..made, how: Hows]]
    BY <1>1, <1>2 DEF FcInv, FcTypeOK
  <2> QED BY <1>1, <1>9, <1>12, <1>13, <2>1 DEF FcInv, FcTypeOK
<1>15. Reading'
  <2>1. \A q \in Readers : reader[q].entry # 0 => reader[q].entry \in Ids
    BY CacheAssumption DEF FcInv, FcTypeOK, Ids
  <2>2. ASSUME NEW q \in Readers
        PROVE  /\ reader'[q].step = "idle" <=> reader'[q].file = 0
               /\ reader'[q].file # 0 => reader'[q].file \in files'
               /\ reader'[q].step = "holds" <=> reader'[q].entry # 0
               /\ reader'[q].step = "holds" => entry'[reader'[q].entry].file = reader'[q].file
               /\ reader'[q].how # "none" => reader'[q].step = "open"
    <3>1. CASE q = r
      BY <1>2, <1>3, <3>1
    <3>2. CASE q # r
      BY <1>1, <1>3, <1>11, <2>1, <3>2 DEF FcInv, Reading
    <3> QED BY <3>1, <3>2
  <2> QED BY <2>2 DEF Reading
<1>16. Unmade'
  <2>1. e <= made /\ e \in Int /\ made \in Int
    BY <1>1 DEF FcInv, FcTypeOK
  <2>2. \A d \in Ids : d > made => entry'[d] = NoEntry
    BY <1>9, <2>1 DEF FcInv, Unmade
  <2> QED BY <1>1, <2>2 DEF Unmade, NoEntry
<1>17. Tabled(cached, entry, files)'
  <2>1. \A g \in CacheFiles : cached[g] # 0 => cached[g] \in Ids
    BY CacheAssumption DEF FcInv, FcTypeOK, Ids
  <2> QED BY <1>1, <1>11, <2>1 DEF FcInv, Tabled
<1>18. Within(entry)'
  <2>1. \A s : Held(entry, s)' = Held(entry, s)
    BY <1>11 DEF Held
  <2> QED BY <2>1 DEF FcInv, Within
<1> QED
  BY <1>10, <1>12, <1>13, <1>14, <1>15, <1>16, <1>17, <1>18 DEF FcInv

\* Entries leave the cache: those of a deleted file, or all that may go.
LEMMA LeavingKeeps ==
    ASSUME FcInv, NEW out, \A e \in out : e \in Ids /\ entry[e].inCache,
           NEW gone \in SUBSET CacheFiles,
           \A f \in gone : cached[f] \in out \cup {0} /\ \A r \in Readers : reader[r].file # f,
           files' = files \ gone, entry' = Erased(entry, out), cached' = Uncached(out),
           lru' = LRU_Remove(lru, out), allowed' = Returned(Erased(entry, out)),
           UNCHANGED <<made, reader>>
    PROVE  FcInv'
<1>1. /\ entry' \in [Ids -> AnyEntry]
      /\ \A e \in Ids : /\ entry'[e].file = entry[e].file /\ entry'[e].how = entry[e].how
                        /\ e \in out => ~ entry'[e].inCache /\ entry'[e].refs = entry[e].refs - 1
                        /\ e \notin out => entry'[e] = entry[e]
  BY ErasedIs
<1>2. /\ cached' \in [CacheFiles -> 0..made] /\ lru' \in SUBSET (Ids \X Ids)
      /\ Referred(entry') /\ Tabled(cached', entry', files) /\ Aged(lru', entry')
      /\ Within(entry') /\ \A e \in Ids : e > made => entry'[e] = NoEntry
  BY ErasedKeeps
<1>3. \A e : Clients(e)' = Clients(e)
  BY DEF Clients
<1>4. Permitted(entry', allowed') /\ allowed' \in [mmap: Int, fd: Int]
  <2>1. \A e \in Ids : entry'[e].refs \in Nat /\ entry[e].refs \in Nat
    BY <1>1 DEF AnyEntry, FcInv, FcTypeOK
  <2>2. \A e \in Ids : entry'[e].refs > 0 => entry[e].refs > 0
    BY <1>1, <2>1
  <2>3. \A e \in Ids : entry'[e].how = entry[e].how /\ entry'[e].refs \in Nat
    BY <1>1, <2>1
  <2> QED BY <2>2, <2>3, ReturnedIs
<1>5. FcTypeOK'
  BY <1>1, <1>2, <1>4 DEF FcInv, FcTypeOK
<1>6. Reading'
  <2>1. \A q \in Readers : reader[q].entry # 0 => reader[q].entry \in Ids
    BY CacheAssumption DEF FcInv, FcTypeOK, Ids
  <2> QED BY <1>1, <2>1 DEF FcInv, Reading
<1>7. Referred(entry)' /\ Unmade' /\ Within(entry)' /\ Permitted(entry, allowed)'
  <2>1. Opening("mmap")' = Opening("mmap") /\ Opening("fd")' = Opening("fd")
    BY DEF Opening
  <2> QED BY <1>2, <1>3, <1>4, <2>1 DEF Referred, Unmade, NoEntry, Within, Held, Permitted, OpenIn
<1>8. Aged(lru, entry)'
  <2>1. Listed(lru)' = Listed(lru')
    BY DEF Listed
  <2> QED BY <1>2, <1>3, <2>1 DEF Aged
<1>9. Tabled(cached, entry, files)'
  <2>1. ASSUME NEW e \in Ids, entry'[e].inCache
        PROVE  entry'[e].file \in files' /\ cached'[entry'[e].file] = e
    <3>1. entry'[e].file \in files /\ cached'[entry'[e].file] = e
      BY <1>2, <2>1 DEF Tabled
    <3>2. entry'[e].file \notin gone
      <4> SUFFICES ASSUME entry'[e].file \in gone PROVE FALSE
        OBVIOUS
      <4>1. cached[entry'[e].file] \in out \cup {0}
        OBVIOUS
      <4>2. cached'[entry'[e].file] = 0
        BY <4>1 DEF Uncached
      <4> QED BY <3>1, <4>2 DEF Ids
    <3> QED BY <3>1, <3>2
  <2> QED BY <1>2, <2>1 DEF Tabled
<1> QED
  BY <1>5, <1>6, <1>7, <1>8, <1>9 DEF FcInv

LEMMA DeleteKeeps ==
    ASSUME FcInv, NEW f \in CacheFiles, FcDelete(f)
    PROVE  FcInv'
<1> DEFINE out == Displaced(f)
<1>1. \A e \in out : e \in Ids /\ entry[e].inCache
  BY CacheAssumption DEF FcInv, FcTypeOK, Tabled, Displaced, Ids
<1>2. cached[f] \in out \cup {0}
  BY DEF Displaced
<1>3. /\ files' = files \ {f} /\ entry' = Erased(entry, out) /\ cached' = Uncached(out)
      /\ lru' = LRU_Remove(lru, out) /\ allowed' = Returned(Erased(entry, out))
      /\ UNCHANGED <<made, reader>> /\ \A r \in Readers : reader[r].file # f
  BY DEF FcDelete
<1>4. \A g \in {f} : cached[g] \in out \cup {0} /\ \A r \in Readers : reader[r].file # g
  BY <1>2, <1>3
<1> HIDE DEF out
<1>5. {f} \in SUBSET CacheFiles
  OBVIOUS
<1> QED
  BY <1>1, <1>3, <1>4, <1>5, LeavingKeeps

LEMMA PruneKeeps ==
    ASSUME FcInv, FcPrune
    PROVE  FcInv'
<1> DEFINE out == Listed(lru)
<1>1. \A e \in out : e \in Ids /\ entry[e].inCache
  <2>1. \A e \in out : e \in Ids
    BY DEF FcInv, FcTypeOK, Listed
  <2> QED BY <2>1 DEF FcInv, Aged
<1>2. lru' = LRU_Remove(lru, out)
  BY DEF FcPrune, LRU_Remove, Listed
<1>3. /\ entry' = Erased(entry, out) /\ cached' = Uncached(out)
      /\ allowed' = Returned(Erased(entry, out)) /\ UNCHANGED <<made, reader>>
      /\ files' = files \ {}
  BY DEF FcPrune
<1> HIDE DEF out
<1>4. {} \in SUBSET CacheFiles /\ \A g \in {} : cached[g] \in out \cup {0} /\ \A r \in Readers : reader[r].file # g
  OBVIOUS
<1> QED
  BY <1>1, <1>2, <1>3, <1>4, LeavingKeeps

\* Entries that have clients are no more than there are readers.
LEMMA OneEach ==
    ASSUME NEW T \in SUBSET Ids, NEW at, \A d \in T : \E q \in Readers : at[q] = d
    PROVE  Cardinality(T) <= Cardinality(Readers)
<1> DEFINE pick == [d \in T |-> CHOOSE q \in Readers : at[q] = d]
<1>1. \A d \in T : pick[d] \in Readers /\ at[pick[d]] = d
  OBVIOUS
<1>2. pick \in [T -> Readers]
  BY <1>1
<1> HIDE DEF pick
<1>3. pick \in Injection(T, Readers)
  BY <1>1, <1>2 DEF Injection, IsInjective
<1> QED
  BY <1>3, FinitelyMany, FS_Injection

\* The loop of Insert stops when there is room or nothing more may go.
LEMMA OldestLeaves ==
    ASSUME FcInv, NEW f \in CacheFiles
    PROVE  LET s == ShardOf[f]
               out == Displaced(f) \cup Oldest(f)
               left == Held(entry, s) \ out
           IN /\ \A e \in out : e \in Held(entry, s)
              /\ \/ Cardinality(left) + 1 <= Capacity
                 \/ \A e \in left : Clients(e) # {}
<1> DEFINE s == ShardOf[f]
           U == Held(entry, s)
           D == Displaced(f)
           rest == {e \in Listed(lru) \ D : ShardOf[entry[e].file] = s}
           O == Oldest(f)
           n == Cardinality(U \ D) + 1 - Capacity
<1>1. D \in SUBSET U /\ U \in SUBSET Ids
  BY CacheAssumption DEF FcInv, FcTypeOK, Tabled, Displaced, Held, Ids
<1>2. \A e \in Listed(lru) : e \in Ids /\ entry[e].inCache /\ Clients(e) = {}
  <2>1. \A e \in Listed(lru) : e \in Ids
    BY DEF FcInv, FcTypeOK, Listed
  <2> QED BY <2>1 DEF FcInv, Aged
<1>3. rest \in SUBSET (U \ D)
  BY <1>2 DEF Held
<1>4. /\ Cardinality(U \ D) = Cardinality(U) - Cardinality(D)
      /\ Cardinality(U) \in Nat /\ Cardinality(D) \in Nat /\ Cardinality(U \ D) \in Nat
      /\ IsFiniteSet(U \ D) /\ IsFiniteSet(rest) /\ Cardinality(rest) \in Nat
  <2>1. IsFiniteSet(U) /\ U \cap D = D
    BY <1>1, FinitelyMany
  <2>2. Cardinality(U \ D) = Cardinality(U) - Cardinality(U \cap D)
    BY <2>1, FS_Difference
  <2>3. D \in SUBSET Ids /\ U \ D \in SUBSET Ids /\ rest \in SUBSET Ids
    BY <1>1, <1>3
  <2> HIDE DEF U, D, rest
  <2> QED BY <1>1, <2>1, <2>2, <2>3, FinitelyMany
<1>5. O = FirstIn(rest, lru, n) /\ O = {e \in rest : Cardinality({d \in rest : <<d, e>> \in lru}) <= n}
  <2>1. Usage(s) = Cardinality(U)
    BY DEF Usage, Held
  <2>2. O = {e \in rest : Cardinality({d \in rest : <<d, e>> \in lru})
                            <= Usage(s) + 1 - Cardinality(D) - Capacity}
    BY DEF Oldest
  <2>3. Usage(s) + 1 - Cardinality(D) - Capacity = n
    BY <1>4, <2>1, CacheAssumption
  <2> HIDE DEF O, rest, n, D, U
  <2> QED BY <2>2, <2>3 DEF FirstIn
<1>6. n \in Int
  BY <1>4, CacheAssumption
<1> HIDE DEF O, rest
<1>7. \A e \in D \cup O : e \in U
  BY <1>1, <1>3, <1>5
<1>8. /\ U \ (D \cup O) = (U \ D) \ O /\ O \in SUBSET (U \ D)
      /\ IsFiniteSet(O) /\ Cardinality(O) \in Nat
      /\ Cardinality(U \ (D \cup O)) = Cardinality(U \ D) - Cardinality(O)
  <2>1. U \ (D \cup O) = (U \ D) \ O /\ O \in SUBSET (U \ D)
    BY <1>3, <1>5
  <2> HIDE DEF U, D
  <2>2. (U \ D) \cap O = O
    BY <2>1
  <2>3. Cardinality((U \ D) \ O) = Cardinality(U \ D) - Cardinality((U \ D) \cap O)
    BY <1>4, FS_Difference
  <2>4. IsFiniteSet(O) /\ Cardinality(O) \in Nat
    BY <1>4, <2>1, FS_Subset, FS_CardinalityType
  <2> QED BY <2>1, <2>2, <2>3, <2>4
<1>9. ASSUME n <= 0 PROVE Cardinality(U \ (D \cup O)) + 1 <= Capacity
  <2> DEFINE a == Cardinality(U \ D)
             b == Cardinality(U \ (D \cup O))
  <2>1. b = a - Cardinality(O) /\ a \in Nat /\ Cardinality(O) \in Nat /\ n = a + 1 - Capacity
    BY <1>4, <1>8
  <2> HIDE DEF a, b, n
  <2>2. b + 1 <= Capacity
    BY <1>9, <2>1, CacheAssumption
  <2> QED BY <2>2 DEF b
<1>10. ASSUME n > 0, n <= Cardinality(rest) PROVE Cardinality(U \ (D \cup O)) + 1 <= Capacity
  <2>1. /\ \A e \in rest : <<e, e>> \in lru
        /\ \A d, e \in rest : <<d, e>> \in lru \/ <<e, d>> \in lru
        /\ \A d, e \in rest : <<d, e>> \in lru /\ <<e, d>> \in lru => d = e
        /\ \A c, d, e \in rest : <<c, d>> \in lru /\ <<d, e>> \in lru => <<c, e>> \in lru
    BY <1>2 DEF FcInv, Aged, rest
  <2>2. n \in Nat
    BY <1>6, <1>10
  <2> DEFINE a == Cardinality(U \ D)
             b == Cardinality(U \ (D \cup O))
  <2>3. b = a - Cardinality(O) /\ a \in Nat /\ n = a + 1 - Capacity
    BY <1>4, <1>8
  <2> HIDE DEF n, a, b
  <2>4. Cardinality(FirstIn(rest, lru, n)) = n
    BY <1>4, <1>10, <2>1, <2>2, FirstOnes
  <2>5. Cardinality(O) = n
    BY <1>5, <2>4
  <2>6. b + 1 <= Capacity
    BY <2>2, <2>3, <2>5, CacheAssumption
  <2> QED BY <2>6 DEF b
<1>11. ASSUME n > Cardinality(rest) PROVE \A e \in U \ (D \cup O) : Clients(e) # {}
  <2>1. ASSUME NEW e \in rest PROVE e \in O
    <3>1. {d \in rest : <<d, e>> \in lru} \in SUBSET rest
      OBVIOUS
    <3>2. /\ Cardinality({d \in rest : <<d, e>> \in lru}) <= Cardinality(rest)
          /\ Cardinality({d \in rest : <<d, e>> \in lru}) \in Nat
      BY <1>4, <3>1, FS_Subset, FS_CardinalityType
    <3> HIDE DEF n
    <3> QED BY <1>4, <1>5, <1>6, <1>11, <3>2
  <2>2. ASSUME NEW e \in U \ (D \cup O) PROVE Clients(e) # {}
    <3>1. e \notin Listed(lru)
      BY <2>1, <2>2 DEF rest, Held
    <3> QED BY <1>1, <2>2, <3>1 DEF FcInv, Aged, Held
  <2> QED BY <2>2
<1>12. \/ Cardinality(U \ (D \cup O)) + 1 <= Capacity
       \/ \A e \in U \ (D \cup O) : Clients(e) # {}
  <2> HIDE DEF n, U, D
  <2> QED BY <1>4, <1>6, <1>9, <1>10, <1>11
<1> QED
  BY <1>7, <1>12 DEF O

\* Insert: the new entry has the reader, and the cache if there is room for any.
LEMMA InsertKeeps ==
    ASSUME FcInv, NEW r \in Readers, FcInsert(r)
    PROVE  FcInv'
<1>1. PICK f \in CacheFiles, e \in Ids, how \in Hows :
        /\ f = reader[r].file /\ e = made + 1 /\ how = reader[r].how /\ f \in files
        /\ reader[r].step = "open" /\ reader[r].entry = 0
  <2>1. reader[r].step = "open" /\ made + 1 \in Ids
    BY DEF FcInsert
  <2>2. reader[r].file # 0 /\ reader[r].file \in files /\ reader[r].entry = 0
    BY <2>1 DEF FcInv, Reading
  <2> QED BY <2>1, <2>2 DEF FcInv, FcTypeOK
<1> DEFINE out == IF Capacity > 0 THEN Displaced(f) \cup Oldest(f) ELSE {}
           E == Erased(entry, out)
           C == Uncached(out)
           x == ReaderAt("holds", f, e)
           new == NewEntry(f, how)
<1>2. /\ entry' = [E EXCEPT ![e] = new]
      /\ cached' = IF Capacity > 0 THEN [C EXCEPT ![f] = e] ELSE cached
      /\ lru' = LRU_Remove(lru, out) /\ allowed' = Returned(E) /\ made' = e
      /\ reader' = [reader EXCEPT ![r] = x] /\ files' = files
  BY <1>1 DEF FcInsert
<1>3. \A d \in out : d \in Ids /\ entry[d].inCache
  BY OldestLeaves DEF Held
<1>4. /\ E \in [Ids -> AnyEntry]
      /\ \A d \in Ids : /\ E[d].file = entry[d].file /\ E[d].how = entry[d].how
                        /\ d \in out => ~ E[d].inCache /\ E[d].refs = entry[d].refs - 1
                        /\ d \notin out => E[d] = entry[d]
  BY <1>3, ErasedIs
<1>5. /\ C \in [CacheFiles -> 0..made] /\ lru' \in SUBSET (Ids \X Ids)
      /\ Listed(lru') = Listed(lru) \ out
      /\ Referred(E) /\ Tabled(C, E, files) /\ Aged(lru', E) /\ Within(E)
      /\ \A d \in Ids : d > made => E[d] = NoEntry
  BY <1>2, <1>3, ErasedKeeps
<1>6. C[f] = 0 \/ Capacity = 0
  BY CacheAssumption DEF Uncached, Displaced
<1>7. x.step = "holds" /\ x.file = f /\ x.entry = e /\ x.how = "none"
  BY DEF ReaderAt
<1>8. /\ new \in AnyEntry /\ new.file = f /\ new.how = how
      /\ new.inCache <=> Capacity > 0
      /\ new.refs = (IF new.inCache THEN 1 ELSE 0) + 1
  <2>1. CASE Capacity > 0
    <3>1. new = [file |-> f, how |-> how, refs |-> 2, inCache |-> TRUE]
      BY <2>1 DEF NewEntry
    <3> HIDE DEF new
    <3> QED BY <2>1, <3>1 DEF AnyEntry
  <2>2. CASE ~ (Capacity > 0)
    <3>1. new = [file |-> f, how |-> how, refs |-> 1, inCache |-> FALSE]
      <4>1. (Capacity > 0) = FALSE
        BY <2>2
      <4>2. new = [file |-> f, how |-> how, refs |-> IF Capacity > 0 THEN 2 ELSE 1,
                   inCache |-> Capacity > 0]
        BY DEF NewEntry
      <4> HIDE DEF new
      <4> QED BY <4>1, <4>2, Zenon
    <3> HIDE DEF new
    <3> QED BY <2>2, <3>1 DEF AnyEntry
  <2> QED BY <2>1, <2>2
<1>9. Capacity = 0 => C = cached
  BY CacheAssumption DEF Uncached, FcInv, FcTypeOK
<1>10. /\ made \in 0..MaxEntry /\ MaxEntry \in Nat /\ e \in 1..MaxEntry
       /\ reader \in [Readers -> [step: Steps, file: CacheFiles \cup {0}, entry: 0..made, how: Hows]]
  BY CacheAssumption DEF FcInv, FcTypeOK, Ids
<1> HIDE DEF E, C, x, new, out
<1>11. entry'[e] = new /\ \A d \in Ids \ {e} : entry'[d] = E[d]
  BY <1>1, <1>2, <1>4
<1>12. E[e] = NoEntry
  BY <1>1, <1>5, <1>10
<1>13. \A q \in Readers : reader'[q] = IF q = r THEN x ELSE reader[q]
  BY <1>2, <1>10
<1>14. Clients(e)' = {r} /\ \A d \in Ids \ {e} : Clients(d)' = Clients(d)
  <2>1. \A q \in Readers : reader[q].entry # e
    BY <1>1, <1>10
  <2> QED BY <1>1, <1>7, <1>13, <2>1 DEF Clients, Ids
<1>15. FcTypeOK'
  <2>1. entry' \in [Ids -> AnyEntry]
    BY <1>2, <1>4, <1>8
  <2>2. made' \in 0..MaxEntry /\ \A n \in 0..made : n \in 0..made'
    BY <1>1, <1>2, <1>10
  <2>3. cached' \in [CacheFiles -> 0..made']
    <3>1. C \in [CacheFiles -> 0..made'] /\ e \in 0..made'
      BY <1>2, <1>5, <1>10, <2>2
    <3>2. cached \in [CacheFiles -> 0..made']
      BY <2>2 DEF FcInv, FcTypeOK
    <3> QED BY <1>2, <3>1, <3>2
  <2>4. reader' \in [Readers -> [step: Steps, file: CacheFiles \cup {0}, entry: 0..made', how: Hows]]
    <3>1. \A q \in Readers : reader[q] \in [step: Steps, file: CacheFiles \cup {0}, entry: 0..made', how: Hows]
      BY <1>10, <2>2
    <3>2. x \in [step: Steps, file: CacheFiles \cup {0}, entry: 0..made', how: Hows]
      <4>1. e \in 0..made'
        BY <1>2, <1>10
      <4> QED BY <4>1 DEF x, ReaderAt, Steps, Hows
    <3> QED BY <1>2, <1>10, <3>1, <3>2
  <2>5. allowed' \in [mmap: Int, fd: Int]
    <3>1. \A d \in Ids : E[d].refs \in Nat /\ entry[d].refs \in Nat
      BY <1>4 DEF AnyEntry, FcInv, FcTypeOK
    <3>2. \A d \in Ids : E[d].refs > 0 => entry[d].refs > 0
      BY <1>4, <3>1
    <3> QED BY <1>2, <1>4, <3>1, <3>2, ReturnedIs
  <2> QED BY <1>2, <1>5, <2>1, <2>2, <2>3, <2>4, <2>5 DEF FcInv, FcTypeOK
<1>16. Reading'
  <2>1. ASSUME NEW q \in Readers
        PROVE  /\ reader'[q].step = "idle" <=> reader'[q].file = 0
               /\ reader'[q].file # 0 => reader'[q].file \in files'
               /\ reader'[q].step = "holds" <=> reader'[q].entry # 0
               /\ reader'[q].step = "holds" => entry'[reader'[q].entry].file = reader'[q].file
               /\ reader'[q].how # "none" => reader'[q].step = "open"
    <3>1. CASE q = r
      BY <1>1, <1>2, <1>7, <1>8, <1>10, <1>11, <1>13, <3>1, CacheAssumption
    <3>2. CASE q # r
      <4>1. reader[q].entry # 0 => reader[q].entry \in Ids \ {e}
        BY <1>1, <1>10 DEF Ids
      <4>2. reader[q].entry # 0 => entry'[reader[q].entry].file = entry[reader[q].entry].file
        BY <1>4, <1>11, <4>1
      <4>3. reader'[q] = reader[q]
        BY <1>13, <3>2
      <4> QED BY <1>2, <4>2, <4>3 DEF FcInv, Reading
    <3> QED BY <3>1, <3>2
  <2> QED BY <2>1 DEF Reading
<1>17. Referred(entry)'
  <2> SUFFICES ASSUME NEW d \in Ids
               PROVE  entry'[d].refs = (IF entry'[d].inCache THEN 1 ELSE 0) + Cardinality(Clients(d)')
    BY DEF Referred
  <2>1. CASE d = e
    <3>1. Cardinality(Clients(e)') = 1
      BY <1>14, FS_Singleton
    <3> QED BY <1>8, <1>11, <2>1, <3>1
  <2>2. CASE d # e
    BY <1>5, <1>11, <1>14, <2>2 DEF Referred
  <2> QED BY <2>1, <2>2
<1>18. Unmade'
  <2>1. \A d \in Ids : d > made' => d > made /\ d # e
    BY <1>1, <1>2, <1>10 DEF Ids
  <2> QED BY <1>5, <1>11, <2>1 DEF Unmade, NoEntry
<1>19. Tabled(cached, entry, files)'
  <2>1. ASSUME NEW g \in CacheFiles, cached'[g] # 0
        PROVE  entry'[cached'[g]].inCache /\ entry'[cached'[g]].file = g
    <3>1. CASE Capacity > 0 /\ g = f
      <4>1. cached'[g] = e
        BY <1>2, <1>5, <3>1
      <4> QED BY <1>8, <1>11, <3>1, <4>1
    <3>2. CASE ~ (Capacity > 0 /\ g = f)
      <4>1. cached'[g] = C[g]
        BY <1>2, <1>5, <1>9, <3>2, CacheAssumption
      <4>2. C[g] \in Ids \ {e}
        BY <1>1, <1>5, <1>10, <2>1, <4>1 DEF Ids
      <4> QED BY <1>5, <1>11, <2>1, <4>1, <4>2 DEF Tabled
    <3> QED BY <3>1, <3>2
  <2>2. ASSUME NEW d \in Ids, entry'[d].inCache
        PROVE  entry'[d].file \in files' /\ cached'[entry'[d].file] = d
    <3>1. CASE d = e
      <4>1. Capacity > 0 /\ entry'[d].file = f
        BY <1>8, <1>11, <2>2, <3>1
      <4> QED BY <1>1, <1>2, <1>5, <3>1, <4>1
    <3>2. CASE d # e
      <4>1. entry'[d] = E[d] /\ E[d].file \in files /\ C[E[d].file] = d
        BY <1>5, <1>11, <2>2, <3>2 DEF Tabled
      <4>2. E[d].file \in CacheFiles /\ d # 0
        BY <4>1 DEF FcInv, FcTypeOK, Ids
      <4>3. Capacity > 0 => E[d].file # f
        BY <1>6, <4>1, <4>2
      <4>4. cached'[E[d].file] = C[E[d].file]
        BY <1>2, <1>5, <1>9, <4>2, <4>3, CacheAssumption
      <4> QED BY <1>2, <4>1, <4>4
    <3> QED BY <3>1, <3>2
  <2> QED BY <2>1, <2>2 DEF Tabled
<1>20. Aged(lru, entry)'
  <2>1. Listed(lru)' = Listed(lru')
    BY DEF Listed
  <2>2. ~ E[e].inCache
    BY <1>12 DEF NoEntry
  <2>3. \A d \in Ids : d \in Listed(lru') <=> entry'[d].inCache /\ Clients(d)' = {}
    BY <1>5, <1>11, <1>14, <2>2 DEF Aged
  <2> QED BY <1>5, <2>1, <2>3 DEF Aged
<1>21. Within(entry)'
  <2> SUFFICES ASSUME NEW g \in CacheFiles
               PROVE  \/ Cardinality(Held(entry', ShardOf[g])) <= Capacity
                      \/ Cardinality(Held(entry', ShardOf[g])) <= Cardinality(Readers)
    BY DEF Within, Held
  <2> DEFINE s == ShardOf[g]
  <2>1. ~ E[e].inCache
    BY <1>12 DEF NoEntry
  <2>2. CASE Capacity = 0 \/ ShardOf[f] # s
    <3>1. Held(entry', s) = Held(E, s)
      BY <1>8, <1>11, <2>1, <2>2 DEF Held
    <3> QED BY <1>5, <3>1 DEF Within
  <2>3. CASE Capacity # 0 /\ ShardOf[f] = s
    <3>1. Capacity > 0 /\ out = Displaced(f) \cup Oldest(f)
      BY <2>3, CacheAssumption DEF out
    <3>2. Held(E, s) = Held(entry, s) \ out
      BY <1>4 DEF Held
    <3>3. Held(entry', s) = Held(E, s) \cup {e} /\ e \notin Held(E, s)
      BY <1>8, <1>11, <2>1, <2>3, <3>1 DEF Held
    <3>4. \/ Cardinality(Held(E, s)) + 1 <= Capacity
          \/ \A d \in Held(E, s) : Clients(d) # {}
      BY <2>3, <3>1, <3>2, OldestLeaves
    <3>5. CASE Cardinality(Held(E, s)) + 1 <= Capacity
      <4>1. Held(E, s) \in SUBSET Ids
        BY DEF Held
      <4>2. IsFiniteSet(Held(E, s))
        BY <4>1, FinitelyMany
      <4>3. Cardinality(Held(E, s) \cup {e}) = Cardinality(Held(E, s)) + 1
        BY <3>3, <4>2, OneMore
      <4> QED BY <3>3, <3>5, <4>3
    <3>6. CASE \A d \in Held(E, s) : Clients(d) # {}
      <4> DEFINE at == [q \in Readers |-> reader'[q].entry]
      <4>1. \A d \in Held(entry', s) : Clients(d)' # {}
        BY <1>14, <3>3, <3>6 DEF Held
      <4>2. \A d \in Held(entry', s) : \E q \in Readers : at[q] = d
        BY <4>1 DEF Clients
      <4>3. Held(entry', s) \in SUBSET Ids
        BY DEF Held
      <4> HIDE DEF at, s
      <4>4. Cardinality(Held(entry', s)) <= Cardinality(Readers)
        BY <4>2, <4>3, OneEach
      <4> QED BY <4>4 DEF s
    <3> QED BY <3>4, <3>5, <3>6
  <2> QED BY <2>2, <2>3
<1>22. Permitted(entry, allowed)'
  <2>1. Permitted(E, allowed')
    <3>1. \A d \in Ids : E[d].refs \in Nat /\ entry[d].refs \in Nat
      BY <1>4 DEF AnyEntry, FcInv, FcTypeOK
    <3>2. \A d \in Ids : E[d].refs > 0 => entry[d].refs > 0
      BY <1>4, <3>1
    <3> QED BY <1>2, <1>4, <3>1, <3>2, ReturnedIs
  <2>2. ASSUME NEW k \in {"mmap", "fd"}
        PROVE  Cardinality(OpenIn(entry', k)) + Cardinality(Opening(k)') =
               Cardinality(OpenIn(E, k)) + Cardinality(Opening(k))
    <3>1. Opening(k)' = IF how = k THEN Opening(k) \ {r} ELSE Opening(k)
      BY <1>1, <1>2, <1>7, EndsOpening
    <3>2. ~ (E[e].refs > 0)
      BY <1>12 DEF NoEntry
    <3>3. OpenIn(entry', k) = IF how = k THEN OpenIn(E, k) \cup {e} ELSE OpenIn(E, k)
      <4>1. new.refs > 0
        BY <1>8
      <4> QED BY <1>8, <1>11, <3>2, <4>1 DEF OpenIn
    <3>4. /\ IsFiniteSet(OpenIn(E, k)) /\ Cardinality(OpenIn(E, k)) \in Nat
          /\ IsFiniteSet(Opening(k)) /\ Cardinality(Opening(k)) \in Nat
      BY FinitelyMany DEF OpenIn, Opening
    <3>5. CASE how = k
      <4>1. r \in Opening(k) /\ e \notin OpenIn(E, k)
        BY <1>1, <3>2, <3>5 DEF Opening, OpenIn
      <4>2. Cardinality(Opening(k) \ {r}) = Cardinality(Opening(k)) - 1
        BY <3>4, <4>1, OneMore
      <4>3. Cardinality(OpenIn(E, k) \cup {e}) = Cardinality(OpenIn(E, k)) + 1
        BY <3>4, <4>1, OneMore
      <4> QED BY <3>1, <3>3, <3>4, <3>5, <4>2, <4>3
    <3>6. CASE how # k
      BY <3>1, <3>3, <3>6
    <3> QED BY <3>5, <3>6
  <2>3. \A k : /\ Cardinality(OpenIn(E, k)) \in Nat /\ Cardinality(OpenIn(entry', k)) \in Nat
               /\ Cardinality(Opening(k)) \in Nat /\ Cardinality(Opening(k)') \in Nat
    BY FinitelyMany DEF OpenIn, Opening
  <2>4. /\ Cardinality(OpenIn(entry', "mmap")) + Cardinality(Opening("mmap")') =
             Cardinality(OpenIn(E, "mmap")) + Cardinality(Opening("mmap"))
        /\ Cardinality(OpenIn(entry', "fd")) + Cardinality(Opening("fd")') =
             Cardinality(OpenIn(E, "fd")) + Cardinality(Opening("fd"))
    BY <2>2
  <2>5. \A k : OpenIn(entry, k)' = OpenIn(entry', k)
    BY DEF OpenIn
  <2> QED BY <2>1, <2>3, <2>4, <2>5, CacheAssumption DEF Permitted
<1> QED
  BY <1>2, <1>5, <1>15, <1>16, <1>17, <1>18, <1>19, <1>20, <1>21, <1>22 DEF FcInv

LEMMA InitCache == FcInit => FcInv
<1> SUFFICES ASSUME FcInit PROVE FcInv
  OBVIOUS
<1>1. /\ cached = [f \in CacheFiles |-> 0] /\ entry = [e \in Ids |-> NoEntry]
      /\ lru = {} /\ made = 0 /\ reader = [r \in Readers |-> Idle]
      /\ allowed = [mmap |-> Mmaps, fd |-> Fds] /\ files = CacheFiles
  BY DEF FcInit
<1>2. \A e \in Ids : Clients(e) = {}
  BY <1>1 DEF Clients, Idle, ReaderAt, Ids
<1>3. FcTypeOK
  BY <1>1, CacheAssumption DEF FcTypeOK, AnyEntry, NoEntry, Idle, ReaderAt, Steps, Hows
<1>4. Reading
  BY <1>1 DEF Reading, Idle, ReaderAt
<1>5. Referred(entry)
  BY <1>1, <1>2, FS_EmptySet DEF Referred, NoEntry
<1>6. Unmade /\ Tabled(cached, entry, files)
  BY <1>1 DEF Unmade, Tabled, NoEntry
<1>7. Aged(lru, entry)
  BY <1>1 DEF Aged, Listed, NoEntry
<1>8. Within(entry)
  <2>1. \A s : Held(entry, s) = {}
    BY <1>1 DEF Held, NoEntry
  <2> QED BY <2>1, FS_EmptySet, CacheAssumption DEF Within
<1>9. Permitted(entry, allowed)
  <2>1. OpenIn(entry, "mmap") = {} /\ OpenIn(entry, "fd") = {}
    BY <1>1 DEF OpenIn, NoEntry
  <2>2. Opening("mmap") = {} /\ Opening("fd") = {}
    BY <1>1 DEF Opening, Lacking, Idle, ReaderAt
  <2> QED BY <1>1, <2>1, <2>2, FS_EmptySet, CacheAssumption DEF Permitted
<1> QED
  BY <1>3, <1>4, <1>5, <1>6, <1>7, <1>8, <1>9 DEF FcInv

LEMMA StepCache == FcInv /\ [FcNext]_fcVars => FcInv'
<1> SUFFICES ASSUME FcInv, [FcNext]_fcVars PROVE FcInv'
  OBVIOUS
<1>1. ASSUME NEW r \in Readers, NEW f \in CacheFiles, FcLookup(r, f) PROVE FcInv'
  BY <1>1, MissKeeps, HitKeeps
<1>2. ASSUME NEW r \in Readers, FcAcquire(r) PROVE FcInv'
  BY <1>2, AcquireKeeps
<1>3. ASSUME NEW r \in Readers, FcGiveBack(r) PROVE FcInv'
  BY <1>3, GiveBackKeeps
<1>4. ASSUME NEW r \in Readers, FcFails(r) PROVE FcInv'
  BY <1>4, FailsKeeps
<1>5. ASSUME NEW r \in Readers, FcInsert(r) PROVE FcInv'
  BY <1>5, InsertKeeps
<1>6. ASSUME NEW r \in Readers, FcRelease(r) PROVE FcInv'
  BY <1>6, ReleaseKeeps
<1>7. ASSUME NEW f \in CacheFiles, FcDelete(f) PROVE FcInv'
  BY <1>7, DeleteKeeps
<1>8. CASE FcPrune
  BY <1>8, PruneKeeps
<1>9. CASE UNCHANGED fcVars
  <2>1. UNCHANGED <<cached, entry, lru, made, reader, allowed, files>>
    BY <1>9 DEF fcVars
  <2>2. FcTypeOK' /\ Reading' /\ Unmade'
    BY <2>1 DEF FcInv, FcTypeOK, Reading, Unmade
  <2>3. Referred(entry)' /\ Tabled(cached, entry, files)'
    BY <2>1 DEF FcInv, Referred, Tabled, Clients
  <2>4. Aged(lru, entry)'
    BY <2>1 DEF FcInv, Aged, Listed, Clients
  <2>5. Within(entry)' /\ Permitted(entry, allowed)'
    BY <2>1 DEF FcInv, Within, Held, Permitted, OpenIn, Opening
  <2> QED BY <2>2, <2>3, <2>4, <2>5 DEF FcInv
<1> QED
  BY <1>1, <1>2, <1>3, <1>4, <1>5, <1>6, <1>7, <1>8, <1>9 DEF FcNext

\* A reader's table is not closed under it, and is that of the file it asked for
\* (table_cache.cc, cache.cc): for any readers, files, capacities and limits.
THEOREM HandlesStayAlive == FcSpec => []HandlesAlive
<1> QED
  BY InitCache, StepCache, InvMeans, PTL DEF FcSpec

\* No table and no permit of a limiter is leaked, the cache grows beyond its capacity
\* only by tables that readers have, and nothing of a deleted file stays open: for any
\* readers, files, capacities and limits.
THEOREM FilesAreReturned == FcSpec => []FilesReturned
<1> QED
  BY InitCache, StepCache, InvMeans, PTL DEF FcSpec
==============================================================================

------------------------------ MODULE BlockReads ------------------------------
(* Reading a block of a table: ReadBlock of format.cc over the two kinds of   *)
(* file PosixEnv makes, one mapped into memory and one that is read with      *)
(* pread, with a descriptor of its own or one for each read (env_posix.cc),   *)
(* and the Block that owns the bytes or does not (block.cc). Who frees the    *)
(* buffers, and whether an error of any kind is reported as one.              *)
(*                                                                            *)
(* Offsets and sizes have OffsetBits bits (64 in the code), the trailer of a  *)
(* block is TrailerSize long (5), a number in it Fixed32Size (4). What a      *)
(* stretch of the file is read as, is [type, sound, inflates, restarts]: its  *)
(* type byte, whether the checksum fits, whether the decompression succeeds   *)
(* (to one number more than there was), and what the last number of the       *)
(* contents says of how many restart points there are.                        *)
EXTENDS Integers, FiniteSets

CONSTANTS
    OffsetBits, TrailerSize, Fixed32Size,
    Length,         \* of the file
    Handles,        \* the handles that are read, [offset, size]
    Stretches,      \* what a stretch may be
    HaveSnappy,     \* whether the decompressor is built in
    MaxHeld         \* bounds the blocks held

VARIABLES
    reader,         \* "closed", "mmap", "fd" or "reopen"
    buffers,        \* the buffers allocated
    held,           \* the blocks: [buf, owned, cachable, handle, contents, restarts,
                    \* size, offset, iterator]
    readStatus      \* of the last read: [ok, handle, stretch, failed]

brVars == <<reader, buffers, held, readStatus>>

Unread == [ok |-> TRUE, read |-> FALSE]

-----------------------------------------------------------------------------
(* RandomAccessFile::Read: ok, how many bytes, and where they are             *)

\* (Mutant: the last byte of the file is taken for one past it.)
BeyondEnd(offset, n) == (offset + n) % 2 ^ OffsetBits >= Length

Beyond(offset, n) == (offset + n) % 2 ^ OffsetBits > Length

\* PosixMmapReadableFile: all of it, in the mapping, or EINVAL.
ReadMapped(offset, n) ==
    IF Beyond(offset, n) THEN [ok |-> FALSE, n |-> 0, at |-> "none"] ELSE [ok |-> TRUE, n |-> n, at |-> "mapping"]

\* PosixRandomAccessFile: what there is, in the buffer; open (when it is opened for
\* each read) or pread may fail.
ReadAt(offset, n, fails) ==
    LET rest == IF offset >= Length THEN 0 ELSE Length - offset
    IN IF fails THEN [ok |-> FALSE, n |-> 0, at |-> "none"]
       ELSE [ok |-> TRUE, n |-> IF n < rest THEN n ELSE rest, at |-> "buffer"]

Read(offset, n, fails) == IF reader = "mmap" THEN ReadMapped(offset, n) ELSE ReadAt(offset, n, fails)

-----------------------------------------------------------------------------
(* ReadBlock                                                                  *)

Buffer == CHOOSE b \in 1..2 * (MaxHeld + 1) : b \notin buffers
Uncompressed == CHOOSE b \in 1..2 * (MaxHeld + 1) : b \notin buffers \union {Buffer}

\* An error: the buffers go, nothing is held.
Failed == buffers' = buffers /\ UNCHANGED held

\* Block::Block: too short for the restart points it says it has, it is empty.
SizeInBlock(size, restarts) ==
    IF size < Fixed32Size THEN 0
    ELSE IF restarts > (size - Fixed32Size) \div Fixed32Size THEN 0 ELSE size

\* Block::NewIterator
BlockIterator(size, restarts) ==
    IF SizeInBlock(size, restarts) < Fixed32Size THEN "error" ELSE IF restarts = 0 THEN "empty" ELSE "entries"

Holds(buf, owned, handle, size, restarts) ==
    held' = held \union {[buf |-> buf, owned |-> owned, cachable |-> owned, handle |-> handle,
                          contents |-> size, restarts |-> restarts, size |-> SizeInBlock(size, restarts),
                          offset |-> size - (1 + restarts) * Fixed32Size,
                          iterator |-> BlockIterator(size, restarts)]}

\* (Mutant: the buffer is kept beside the mapping.)
MappedBeside(handle, restarts) ==
    /\ buffers' = buffers \union {Buffer}
    /\ Holds(0, FALSE, handle, handle.size, restarts)

\* The bytes are used where they are mapped, as long as the file is open.
Mapped(handle, restarts) ==
    /\ buffers' = buffers
    /\ Holds(0, FALSE, handle, handle.size, restarts)

Plain(handle, restarts) ==
    /\ buffers' = buffers \union {Buffer}
    /\ Holds(Buffer, TRUE, handle, handle.size, restarts)

Inflated(handle, restarts) ==
    /\ buffers' = buffers \union {Uncompressed}
    /\ Holds(Uncompressed, TRUE, handle, handle.size + Fixed32Size, restarts)

\* The bytes of the block, its type and its checksum come with one read. A short
\* read is a truncated block; the checksum is looked at if the options ask for it.
Readable(got, handle, stretch, verify) ==
    /\ got.ok
    /\ got.n = handle.size + TrailerSize
    /\ verify => stretch.sound
    /\ stretch.type \in {"none", "snappy"}
    /\ stretch.type = "snappy" => HaveSnappy /\ stretch.inflates

ReadBlock(handle, stretch, verify, fails) ==
    LET got == Read(handle.offset, handle.size + TrailerSize, fails)
        ok == Readable(got, handle, stretch, verify)
    IN /\ reader # "closed" /\ Cardinality(held) < MaxHeld
       /\ IF ~ok THEN Failed
          ELSE IF stretch.type = "snappy" THEN Inflated(handle, stretch.restarts)
          ELSE IF got.at = "mapping" THEN Mapped(handle, stretch.restarts) ELSE Plain(handle, stretch.restarts)
       /\ readStatus' = [ok |-> ok, read |-> TRUE, handle |-> handle, stretch |-> stretch,
                         verify |-> verify, fails |-> fails /\ reader # "mmap"]
       /\ UNCHANGED reader

\* Block::~Block
DropBlock(b) ==
    /\ held' = held \ {b}
    /\ buffers' = IF b.owned THEN buffers \ {b.buf} ELSE buffers
    /\ UNCHANGED <<reader, readStatus>>

-----------------------------------------------------------------------------
\* With a region free for it, the file is mapped; else it keeps its descriptor if
\* one is free for that.
OpenFile ==
    /\ reader = "closed"
    /\ reader' \in {"mmap", "fd", "reopen"}
    /\ UNCHANGED <<buffers, held, readStatus>>

\* A table is deleted when no block of it that lies in the mapping is in use: an
\* iterator over it keeps the table in the cache. Blocks in the block cache
\* (cachable) may stay.
CloseFile ==
    /\ reader # "closed"
    /\ \A b \in held : b.cachable
    /\ reader' = "closed"
    /\ UNCHANGED <<buffers, held, readStatus>>

BrInit == reader = "closed" /\ buffers = {} /\ held = {} /\ readStatus = Unread

BrNext ==
    \/ OpenFile
    \/ CloseFile
    \/ \E h \in Handles, s \in Stretches, verify, fails \in BOOLEAN : ReadBlock(h, s, verify, fails)
    \/ \E b \in held : DropBlock(b)

BrSpec == BrInit /\ [][BrNext]_brVars

-----------------------------------------------------------------------------
\* Every buffer belongs to one block, and to none after an error: none is lost on any
\* of the returns. What a block says is in the file: a read that succeeded lies
\* within it, whatever kind of file read it, and one that lies within it
\* succeeded unless the system, the checksum, the type or the decompression said no.
\* Blocks in the mapping are gone before it is.
\* The restart points of a block that has entries lie in it, whatever its bytes say.
BlocksRead ==
    /\ \A b \in held : b.iterator = "entries" =>
         /\ b.size = b.contents /\ b.offset >= 0
         /\ b.offset + b.restarts * Fixed32Size + Fixed32Size = b.contents
    /\ buffers = {b.buf : b \in {c \in held : c.owned}}
    /\ \A b, c \in held : b # c /\ b.owned /\ c.owned => b.buf # c.buf
    /\ reader = "closed" => \A b \in held : b.owned
    /\ readStatus.read =>
        LET h == readStatus.handle
            s == readStatus.stretch
            within == h.offset + h.size + TrailerSize <= Length
        IN readStatus.ok <=>
            /\ within /\ ~readStatus.fails
            /\ readStatus.verify => s.sound
            /\ s.type = "none" \/ (s.type = "snappy" /\ HaveSnappy /\ s.inflates)
=============================================================================

------------------------------ MODULE LogFormat ------------------------------
(* The log files of LevelDB (db/log_writer.cc, db/log_reader.cc): records cut *)
(* into blocks so that a reader finds its way again behind bytes that are     *)
(* damaged or torn off by a crash.                                            *)
(*                                                                            *)
(* A file is a sequence of bytes. A header is three of them here: checksum,   *)
(* length and type (4, 2 and 1 in the code); the checksum is a number of its  *)
(* own for each type and payload, as if CRC32C had no collisions.             *)
EXTENDS Integers, SequencesExt

CONSTANTS
    LogBlock,      \* kBlockSize
    RecordSizes,   \* the lengths of records
    ReadOffsets,   \* where a reader is told to start
    MaxRecords,    \* bound: records written
    MaxFaults      \* bound: bytes changed, appends that fail, crashes

VARIABLES
    log,      \* the file
    lw,       \* log::Writer: [open, offset, astray], offset the block_offset_,
              \* astray if that is not where the file is (not in the code)
    logged,   \* the records AddRecord returned OK for, as far as they are in
              \* the file: [at, end, data]
    dirty,    \* the blocks with bytes that are not what a writer wrote there
    faults,
    lr        \* log::Reader

lgVars == <<log, lw, logged, dirty, faults, lr>>

HeaderSize == 3
kZeroType == 0
kFullType == 1
kFirstType == 2
kMiddleType == 3
kLastType == 4
kEof == 5
kBadRecord == 6

Crc(type, data) == 100 + FoldLeft(LAMBDA sum, byte : sum * 5 + byte, type, data)

Block(position) == position \div LogBlock

-----------------------------------------------------------------------------
(* Writer *)

PhysicalRecord(type, data) == <<Crc(type, data), Len(data), type>> \o data

\* (Mutant: what is left of a block is not filled.)
TrailerUnfilled(offset) == 0

\* The bytes that are left of a block in which no header fits any more.
Trailer(offset) ==
    IF LogBlock - offset < HeaderSize THEN LogBlock - offset ELSE 0

\* AddRecord: the bytes of the record, from the given offset in a block on.
RECURSIVE Fragments(_, _, _)
Fragments(data, offset, begin) ==
    LET fill == Trailer(offset)
        start == IF LogBlock - offset < HeaderSize THEN 0 ELSE offset
        avail == LogBlock - start - HeaderSize
        n == IF Len(data) < avail THEN Len(data) ELSE avail
        end == n = Len(data)
        type == IF begin /\ end THEN kFullType ELSE IF begin THEN kFirstType
                ELSE IF end THEN kLastType ELSE kMiddleType
    IN [i \in 1..fill |-> 0] \o PhysicalRecord(type, SubSeq(data, 1, n))
       \o (IF end THEN <<>>
           ELSE Fragments(SubSeq(data, n + 1, Len(data)), start + HeaderSize + n, FALSE))

\* The last block is full, or not.
OffsetAfter(bytes, offset) ==
    LET end == (offset + Len(bytes)) % LogBlock
    IN IF end = 0 /\ bytes # <<>> THEN LogBlock ELSE end

Record(size) == [i \in 1..size |-> Len(logged) + 1]

LgAdd(size) ==
    LET data == Record(size)
        bytes == Fragments(data, lw.offset, TRUE)
    IN /\ lw.open /\ Len(logged) < MaxRecords
       /\ log' = log \o bytes
       /\ lw' = [lw EXCEPT !.offset = OffsetAfter(bytes, @)]
       /\ logged' = Append(logged, [at |-> Len(log) + Trailer(lw.offset),
                                    end |-> Len(log) + Len(bytes), data |-> data])
       /\ dirty' = IF lw.astray THEN dirty \union (Block(Len(log))..Block(Len(log')))
                   ELSE dirty
       /\ UNCHANGED <<faults, lr>>

\* An Append fails after n bytes. Writer counts the fragment as written: its
\* blocks are then not those of the file.
LgAddFails(size) ==
    LET bytes == Fragments(Record(size), lw.offset, TRUE)
        End(n) == LET next == n + LogBlock - ((lw.offset + n) % LogBlock)
                  IN IF next < Len(bytes) THEN next ELSE Len(bytes)
    IN /\ lw.open /\ Len(logged) < MaxRecords /\ faults < MaxFaults
       /\ \E n \in Trailer(lw.offset)..(Len(bytes) - 1) :
            /\ log' = log \o SubSeq(bytes, 1, n)
            /\ lw' = [lw EXCEPT !.offset = OffsetAfter(SubSeq(bytes, 1, End(n)), @),
                                !.astray = TRUE]
            /\ dirty' = dirty \union (Block(Len(log))..Block(Len(log')))
       /\ faults' = faults + 1
       /\ UNCHANGED <<logged, lr>>

\* The program ends; a crash takes what was not yet on the disk.
LgCrash(kept) ==
    /\ lw.open
    /\ kept < Len(log) => faults < MaxFaults
    /\ log' = SubSeq(log, 1, kept)
    /\ logged' = SelectSeq(logged, LAMBDA r : r.end <= kept)
    /\ lw' = [lw EXCEPT !.open = FALSE]
    /\ faults' = IF kept < Len(log) THEN faults + 1 ELSE faults
    /\ dirty' = IF kept < Len(log) /\ kept > 0 THEN dirty \union {Block(kept - 1)} ELSE dirty
    /\ UNCHANGED lr

\* Options::reuse_logs: Writer(dest, dest_length)
LgReopen ==
    /\ ~lw.open /\ lr.mode = "none"
    /\ lw' = [open |-> TRUE, offset |-> Len(log) % LogBlock, astray |-> FALSE]
    /\ UNCHANGED <<log, logged, dirty, faults, lr>>

\* A byte changes on the disk.
LgDamage(i, byte) ==
    /\ ~lw.open /\ lr.mode = "none" /\ faults < MaxFaults
    /\ log[i] # byte
    /\ log' = [log EXCEPT ![i] = byte]
    /\ dirty' = dirty \union {Block(i - 1)}
    /\ faults' = faults + 1
    /\ UNCHANGED <<lw, logged, lr>>

-----------------------------------------------------------------------------
(* Reader: place is how much of the file was read, buffer what of it is left, *)
(* end the end_of_buffer_offset_, last the last_record_offset_; drops counts  *)
(* the calls of the Reporter, got what ReadRecord returned.                   *)

NewReader(offset) ==
    [mode |-> "open", initial |-> offset, resyncing |-> offset > 0, place |-> 0,
     buffer |-> <<>>, eof |-> FALSE, last |-> 0, end |-> 0, drops |-> 0, got |-> <<>>]

NoReader == [NewReader(0) EXCEPT !.mode = "none"]

Drop(r, bytes) ==
    IF r.end - Len(r.buffer) - bytes >= r.initial THEN [r EXCEPT !.drops = @ + 1] ELSE r

Skipped(r, n) == [r EXCEPT !.buffer = SubSeq(@, n + 1, Len(@))]
Emptied(r) == [r EXCEPT !.buffer = <<>>]

\* To the block of the initial offset, or the next one if that is in a trailer.
SkipToInitialBlock(r) ==
    LET in == r.initial % LogBlock
        start == r.initial - in + (IF in > LogBlock - (HeaderSize - 1) THEN LogBlock ELSE 0)
    IN [r EXCEPT !.end = start, !.place = @ + start]

Refilled(r) ==
    LET to == IF r.place + LogBlock < Len(log) THEN r.place + LogBlock ELSE Len(log)
        read == SubSeq(log, r.place + 1, to)
    IN [r EXCEPT !.buffer = read, !.place = @ + Len(read), !.end = @ + Len(read),
                 !.eof = Len(read) < LogBlock]

\* [r, type, data]: the next fragment, kEof or kBadRecord
RECURSIVE ReadPhysicalRecord(_)
ReadPhysicalRecord(r) ==
    LET Result(rd, type, data) == [r |-> rd, type |-> type, data |-> data]
        length == r.buffer[2]
        type == r.buffer[3]
        data == SubSeq(r.buffer, HeaderSize + 1, HeaderSize + length)
        behind == Skipped(r, HeaderSize + length)
        cut == Drop(Emptied(r), Len(r.buffer))
    IN IF Len(r.buffer) < HeaderSize
       THEN IF r.eof THEN Result(Emptied(r), kEof, <<>>)
            ELSE ReadPhysicalRecord(Refilled(r))
       ELSE IF HeaderSize + length > Len(r.buffer)
       THEN IF r.eof THEN Result(Emptied(r), kEof, <<>>) ELSE Result(cut, kBadRecord, <<>>)
       ELSE IF type = kZeroType /\ length = 0 THEN Result(Emptied(r), kBadRecord, <<>>)
       ELSE IF r.buffer[1] # Crc(type, data) THEN Result(cut, kBadRecord, <<>>)
       ELSE IF r.end - Len(behind.buffer) - HeaderSize - length < r.initial
       THEN Result(behind, kBadRecord, <<>>)
       ELSE Result(behind, type, data)

\* ReadRecord: the reader with a record more, or at the end. fragmented says
\* that scratch is the beginning of a record, the one at start.
RECURSIVE Assemble(_, _, _, _)
Assemble(r, fragmented, scratch, start) ==
    LET p == ReadPhysicalRecord(r)
        at == p.r.end - Len(p.r.buffer) - HeaderSize - Len(p.data)
        skip == r.resyncing /\ p.type \in {kMiddleType, kLastType}
        now == [p.r EXCEPT !.resyncing = @ /\ p.type = kMiddleType]
        partial == IF fragmented /\ scratch # <<>> THEN Drop(now, Len(scratch)) ELSE now
        lost == Drop(now, Len(p.data))
        Got(rd, from, data) ==
            [rd EXCEPT !.last = from, !.got = Append(@, [at |-> from, data |-> data])]
    IN CASE skip -> Assemble(now, fragmented, scratch, start)
         [] ~skip /\ p.type = kFullType -> Got(partial, at, p.data)
         [] ~skip /\ p.type = kFirstType -> Assemble(partial, TRUE, p.data, at)
         [] ~skip /\ p.type = kMiddleType ->
              IF fragmented THEN Assemble(now, TRUE, scratch \o p.data, start)
              ELSE Assemble(lost, FALSE, scratch, start)
         [] ~skip /\ p.type = kLastType ->
              IF fragmented THEN Got(now, start, scratch \o p.data)
              ELSE Assemble(lost, FALSE, scratch, start)
         [] p.type = kEof -> [now EXCEPT !.mode = "ended"]
         [] p.type = kBadRecord ->
              Assemble(IF fragmented THEN Drop(now, Len(scratch)) ELSE now, FALSE, <<>>, start)

LgOpenReader(offset) ==
    /\ ~lw.open /\ lr.mode = "none"
    /\ lr' = NewReader(offset)
    /\ UNCHANGED <<log, lw, logged, dirty, faults>>

LgReadRecord ==
    /\ lr.mode = "open"
    /\ lr' = Assemble(IF lr.last < lr.initial THEN SkipToInitialBlock(lr) ELSE lr,
                      FALSE, <<>>, 0)
    /\ UNCHANGED <<log, lw, logged, dirty, faults>>

\* The reader is done; the log may be written to again, or read again.
LgCloseReader ==
    /\ lr.mode = "ended"
    /\ lr' = NoReader
    /\ UNCHANGED <<log, lw, logged, dirty, faults>>

LgInit ==
    /\ log = <<>> /\ lw = [open |-> TRUE, offset |-> 0, astray |-> FALSE] /\ logged = <<>>
    /\ dirty = {} /\ faults = 0 /\ lr = NoReader

LgNext ==
    \/ \E n \in RecordSizes : LgAdd(n) \/ LgAddFails(n)
    \/ \E kept \in 0..Len(log) : LgCrash(kept)
    \/ LgReopen
    \/ \E i \in DOMAIN log, byte \in {0, 1, 2} : LgDamage(i, byte)
    \/ \E offset \in ReadOffsets : LgOpenReader(offset)
    \/ LgReadRecord
    \/ LgCloseReader

LgSpec == LgInit /\ [][LgNext]_lgVars

-----------------------------------------------------------------------------
\* A reader of a log returns records that were written, each once and in their
\* order, from the place it was told to start at, and at the end it has returned
\* every record that no block with changed or torn bytes has a part of: damage
\* never costs more than the records that touch its block, and never makes up a
\* record of pieces of others. Of a log without damage nothing is reported lost
\* when it is read from its beginning.
LogRecovers ==
    LET Written(g) == \E i \in DOMAIN logged :
            logged[i].at = g.at /\ logged[i].data = g.data
        Whole(w) == /\ w.at >= lr.initial
                    /\ \A b \in Block(w.at)..Block(w.end - 1) : b \notin dirty
    IN /\ \A i \in DOMAIN lr.got :
            /\ Written(lr.got[i]) /\ lr.got[i].at >= lr.initial
            /\ i > 1 => lr.got[i - 1].at < lr.got[i].at
       /\ lr.mode = "ended" => \A i \in DOMAIN logged : Whole(logged[i]) =>
                      \E j \in DOMAIN lr.got : lr.got[j].at = logged[i].at
       /\ dirty = {} /\ lr.initial = 0 => lr.drops = 0
=============================================================================

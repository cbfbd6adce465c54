------------------------------ MODULE DumpFiles ------------------------------
(* DumpFile (dumpfile.cc): a log, a descriptor or a table of a database as    *)
(* text. A file is given by what the readers of its kind deliver: the records *)
(* of a log with their offsets, and the corruptions reported between them;    *)
(* the entries of a table, and the status at the end. Texts are sequences of  *)
(* bytes; a line is a tuple, its literal parts named for what they introduce. *)
EXTENDS Integers, SequencesExt

CONSTANTS
    Dumped,     \* the files: [type, opens, items, status]
    Keys        \* some texts

VARIABLES file, at, lines, status

dumpVars == <<file, at, lines, status>>

-----------------------------------------------------------------------------
(* logging.cc                                                                 *)

HexDigit(n) == IF n < 10 THEN 48 + n ELSE 87 + n

\* (Mutant: a byte above 126 is taken for printable.)
PrintableFrom(c) == c >= 32

\* From ' ' to '~'.
Printable(c) == c >= 32 /\ c <= 126

AppendEscaped(c) == IF Printable(c) THEN <<c>> ELSE <<92, 120, HexDigit(c \div 16), HexDigit(c % 16)>>
Escaped(text) == FlattenSeq([i \in DOMAIN text |-> AppendEscaped(text[i])])

-----------------------------------------------------------------------------
(* One record of a log, one of a descriptor, one entry of a table             *)

Corruption(bytes) == <<"corruption", bytes>>

\* WriteBatch::Iterate: the operations before the first it cannot read, whose tag
\* is then neither, and an error also if they are not as many as the header says.
Readable(ops) == SelectInSeq(ops, LAMBDA op : op.tag \notin {"put", "del"})
IterateItems(batch) ==
    LET bad == Readable(batch.ops)
    IN IF bad = 0 THEN batch.ops ELSE SubSeq(batch.ops, 1, bad - 1)
IterateFails(batch) == Readable(batch.ops) # 0 \/ Len(batch.ops) # batch.count

ItemPrinted(op) ==
    IF op.tag = "put" THEN <<"put", Escaped(op.key), Escaped(op.value)>> ELSE <<"del", Escaped(op.key)>>

HeaderSize == 12
WriteBatchPrinter(r) ==
    IF r.size < HeaderSize THEN << <<"too small", r.offset, r.size>> >>
    ELSE << <<"sequence", r.offset, r.batch.sequence>> >>
         \o [i \in DOMAIN IterateItems(r.batch) |-> ItemPrinted(IterateItems(r.batch)[i])]
         \o IF IterateFails(r.batch) THEN << <<"error">> >> ELSE <<>>

\* VersionEdit::DebugString: what the edit sets, in this order.
DebugString(edit) ==
    << <<"VersionEdit">> >>
    \o SelectSeq([i \in 1..5 |-> LET f == <<"Comparator", "LogNumber", "PrevLogNumber", "NextFile", "LastSeq">>[i]
                                 IN IF f \in DOMAIN edit.set THEN <<f, edit.set[f]>> ELSE <<>>],
                 LAMBDA line : line # <<>>)
    \o [i \in DOMAIN edit.pointers |-> <<"CompactPointer">> \o edit.pointers[i]]
    \o [i \in DOMAIN edit.deleted |-> <<"DeleteFile">> \o edit.deleted[i]]
    \o [i \in DOMAIN edit.added |-> <<"AddFile">> \o edit.added[i]]

VersionEditPrinter(r) ==
    << <<"offset", r.offset>> >> \o IF r.edit.decodes THEN DebugString(r.edit) ELSE << <<"error">> >>

\* The last eight bytes are the number and the type.
ParseInternalKey(e) == e.size >= 8 /\ e.type <= 1
EntryPrinted(e) ==
    IF ParseInternalKey(e)
    THEN <<"entry", Escaped(e.key), e.sequence, IF e.type = 0 THEN "del" ELSE "val", Escaped(e.value)>>
    ELSE <<"badkey", Escaped(e.key), Escaped(e.value)>>

-----------------------------------------------------------------------------
(* DumpFile                                                                   *)

Dumpable == {"log", "descriptor", "table"}

\* A bad record does not end it.
PrintLogContents(item) ==
    IF item.kind = "corruption" THEN <<Corruption(item.bytes)>>
    ELSE IF file.type = "log" THEN WriteBatchPrinter(item) ELSE VersionEditPrinter(item)

DumpTable(item) == <<EntryPrinted(item)>>

\* The kind is guessed from the name.
DumpRefused ==
    /\ status = "running" /\ at = 0
    /\ \/ file.type \notin Dumpable /\ status' = "InvalidArgument"
       \/ file.type \in Dumpable /\ ~file.opens /\ status' = "NotOpened"
    /\ UNCHANGED <<file, at, lines>>

DumpItem ==
    /\ status = "running" /\ file.type \in Dumpable /\ file.opens
    /\ at < Len(file.items)
    /\ at' = at + 1
    /\ lines' = lines \o (IF file.type = "table" THEN DumpTable(file.items[at + 1])
                          ELSE PrintLogContents(file.items[at + 1]))
    /\ UNCHANGED <<file, status>>

\* What the iterator of a table says at the end is printed, not returned.
DumpEnds ==
    /\ status = "running" /\ file.type \in Dumpable /\ file.opens
    /\ at = Len(file.items)
    /\ lines' = lines \o IF file.type = "table" /\ file.status # "OK" THEN << <<"iterator error">> >> ELSE <<>>
    /\ status' = "OK"
    /\ UNCHANGED <<file, at>>

DumpInit ==
    /\ file \in Dumped
    /\ at = 0 /\ lines = <<>> /\ status = "running"

DumpNext == DumpRefused \/ DumpItem \/ DumpEnds
DumpSpec == DumpInit /\ [][DumpNext]_dumpVars

-----------------------------------------------------------------------------
Shown(name) == SelectSeq(lines, LAMBDA line : line[1] = name)

\* Everything the file's reader delivered is shown: an operation of a batch that can be
\* read, and a line for what cannot; an entry of a table; each once and in its
\* place, also behind what is damaged. A text is shown on one line, so no key
\* can look like another line, and two texts without a backslash look different.
DumpShows ==
    /\ status = "OK" =>
        LET records == SelectSeq(file.items, LAMBDA item : item.kind = "record")
            batches == SelectSeq(records, LAMBDA r : r.size >= HeaderSize)
        IN /\ file.type = "log" =>
                /\ Len(Shown("sequence")) + Len(Shown("too small")) = Len(records)
                /\ Len(Shown("put")) + Len(Shown("del")) =
                     FoldLeft(LAMBDA n, r : n + Len(IterateItems(r.batch)), 0, batches)
                /\ Len(Shown("error")) = Len(SelectSeq(batches, LAMBDA r : IterateFails(r.batch)))
           /\ file.type = "descriptor" =>
                /\ [i \in DOMAIN Shown("offset") |-> Shown("offset")[i][2]] =
                     [i \in DOMAIN records |-> records[i].offset]
                /\ Len(Shown("VersionEdit")) + Len(Shown("error")) = Len(records)
                /\ Len(Shown("AddFile")) =
                     FoldLeft(LAMBDA n, r : n + IF r.edit.decodes THEN Len(r.edit.added) ELSE 0, 0, records)
           /\ file.type = "table" =>
                Len(lines) = Len(file.items) + IF file.status = "OK" THEN 0 ELSE 1
           /\ Len(Shown("corruption")) = Len(file.items) - Len(records)
    /\ \A k \in Keys :
        /\ \A i \in DOMAIN Escaped(k) : Escaped(k)[i] \in 32..126
        /\ \A l \in Keys : 92 \notin ToSet(k) \union ToSet(l) /\ Escaped(k) = Escaped(l) => k = l
=============================================================================

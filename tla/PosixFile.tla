------------------------------ MODULE PosixFile ------------------------------
(* A file LevelDB writes (PosixWritableFile of util/env_posix.cc): a buffer in *)
(* the process, the pages of the operating system behind it, the disk behind  *)
(* them, and what is left after an error, the end of the process or a loss of *)
(* power. Bytes are numbered as they are appended. The file is a manifest, so *)
(* Sync first makes the names of the files it speaks of durable.              *)
EXTENDS Integers, SequencesExt

CONSTANTS
    BufferSize,     \* kWritableFileBufferSize
    AppendSizes,    \* lengths of what is appended
    MaxBytes,       \* bound: bytes appended
    MaxErrors       \* bound: calls of the system that fail

VARIABLES
    wf,        \* the file object: [open, buf]
    page,      \* the contents as a read sees them
    durable,   \* how many bytes of them are on the disk
    names,     \* [made, durable]: files made, and of these the names on the disk
    sent,      \* how many bytes were appended
    since,     \* the first byte appended after the last error
    promised,  \* the bytes for which Sync returned OK
    told,      \* [flushed, names]: what the last OK of Flush and Sync stood for
    pfErrors

pfVars == <<wf, page, durable, names, sent, since, promised, told, pfErrors>>

-----------------------------------------------------------------------------
(* A file object with the pages: [buf, page, ok] *)

\* The bytes up to the call that fails; short writes and EINTR go on.
WriteUnbuffered(f, data, failsAfter) ==
    [f EXCEPT !.ok = failsAfter >= Len(data),
              !.page = @ \o IF failsAfter >= Len(data) THEN data
                            ELSE SubSeq(data, 1, failsAfter)]

\* (Mutant: after an error the buffer is written once more by the next call.)
FlushBufferAgain(f, failsAfter) ==
    LET w == WriteUnbuffered(f, f.buf, failsAfter)
    IN [w EXCEPT !.buf = IF w.ok THEN <<>> ELSE @]

\* The buffer is empty then, also after an error.
FlushBuffer(f, failsAfter) == [WriteUnbuffered(f, f.buf, failsAfter) EXCEPT !.buf = <<>>]

\* What fits goes into the buffer; the rest after it is flushed, or to the file
\* at once if it would not fit.
Appended(f, data, fails) ==
    LET room == BufferSize - Len(f.buf)
        n == IF Len(data) < room THEN Len(data) ELSE room
        filled == [f EXCEPT !.buf = @ \o SubSeq(data, 1, n)]
        rest == SubSeq(data, n + 1, Len(data))
        flushed == FlushBuffer(filled, fails[1])
    IN IF rest = <<>> THEN filled
       ELSE IF ~flushed.ok THEN flushed
       ELSE IF Len(rest) < BufferSize THEN [flushed EXCEPT !.buf = rest]
       ELSE WriteUnbuffered(flushed, rest, fails[2])

File == [buf |-> wf.buf, page |-> page, ok |-> TRUE]

\* An error: what was appended before is not promised any more.
After(f, appended) ==
    /\ wf' = [wf EXCEPT !.buf = f.buf]
    /\ page' = f.page
    /\ sent' = appended
    /\ pfErrors' = IF f.ok THEN pfErrors ELSE pfErrors + 1
    /\ since' = IF f.ok THEN since ELSE appended + 1

MayFail(f) == f.ok \/ pfErrors < MaxErrors

\* How far a write of at most MaxBytes may come.
Reach == 0..MaxBytes

PfAppend(n) ==
    LET data == [i \in 1..n |-> sent + i]
    IN \E one \in Reach, two \in Reach :
        LET f == Appended(File, data, <<one, two>>)
        IN /\ wf.open /\ sent + n <= MaxBytes /\ MayFail(f)
           /\ After(f, sent + n)
           /\ told' = [told EXCEPT !.flushed = FALSE]
           /\ UNCHANGED <<durable, names, promised>>

PfFlush ==
    \E n \in Reach :
        LET f == FlushBuffer(File, n)
        IN /\ wf.open /\ MayFail(f)
           /\ After(f, sent)
           /\ told' = [told EXCEPT !.flushed = f.ok]
           /\ UNCHANGED <<durable, names, promised>>

\* The directory, the buffer, the file: fails says which of them fails, if any.
PfSync(fails) ==
    \E n \in Reach :
        LET dir == [File EXCEPT !.ok = FALSE]
            f == FlushBuffer(File, n)
            done == IF fails = "dir" THEN dir
                    ELSE IF ~f.ok THEN f ELSE [f EXCEPT !.ok = (fails # "file")]
        IN /\ wf.open /\ MayFail(done)
           /\ (fails = "flush") = (fails # "dir" /\ ~f.ok)
           /\ After(done, sent)
           /\ names' = IF fails = "dir" THEN names ELSE [names EXCEPT !.durable = names.made]
           /\ durable' = IF done.ok THEN Len(f.page) ELSE durable
           /\ promised' = IF done.ok THEN promised \union (since..sent) ELSE promised
           /\ told' = IF done.ok THEN [flushed |-> TRUE, names |-> names.made] ELSE told

\* Close, and the destructor, which does not look at the result.
PfClose ==
    \E n \in Reach :
        LET f == FlushBuffer(File, n)
        IN /\ wf.open /\ MayFail(f)
           /\ wf' = [open |-> FALSE, buf |-> <<>>]
           /\ page' = f.page
           /\ pfErrors' = IF f.ok THEN pfErrors ELSE pfErrors + 1
           /\ since' = IF f.ok THEN since ELSE sent + 1
           /\ told' = [told EXCEPT !.flushed = f.ok]
           /\ UNCHANGED <<durable, names, promised, sent>>

\* NewAppendableFile (Options::reuse_logs)
PfReopen ==
    /\ ~wf.open
    /\ wf' = [open |-> TRUE, buf |-> <<>>]
    /\ UNCHANGED <<page, durable, names, sent, since, promised, told, pfErrors>>

\* NewWritableFile of a table the manifest will speak of.
PfNewTable ==
    /\ names.made < 1
    /\ names' = [names EXCEPT !.made = @ + 1]
    /\ UNCHANGED <<wf, page, durable, sent, since, promised, told, pfErrors>>

\* The process is killed: the buffer is gone.
PfKill ==
    /\ wf.open
    /\ wf' = [open |-> FALSE, buf |-> <<>>]
    /\ since' = sent + 1
    /\ told' = [told EXCEPT !.flushed = FALSE]
    /\ UNCHANGED <<page, durable, names, sent, promised, pfErrors>>

\* Of what was not synced the disk may have any beginning.
PfPowerLoss(kept) ==
    /\ wf' = [open |-> FALSE, buf |-> <<>>]
    /\ page' = SubSeq(page, 1, kept)
    /\ durable' = kept
    /\ names' = [names EXCEPT !.made = names.durable]
    /\ since' = sent + 1
    /\ told' = [flushed |-> FALSE, names |-> 0]
    /\ UNCHANGED <<sent, promised, pfErrors>>

PfInit ==
    /\ wf = [open |-> TRUE, buf |-> <<>>]
    /\ page = <<>> /\ durable = 0 /\ names = [made |-> 0, durable |-> 0]
    /\ sent = 0 /\ since = 1 /\ promised = {} /\ pfErrors = 0
    /\ told = [flushed |-> FALSE, names |-> 0]

PfNext ==
    \/ \E n \in AppendSizes : PfAppend(n)
    \/ PfFlush
    \/ \E fails \in {"none", "dir", "flush", "file"} : PfSync(fails)
    \/ PfClose
    \/ PfReopen
    \/ PfNewTable
    \/ PfKill
    \/ \E kept \in durable..Len(page) : PfPowerLoss(kept)

PfSpec == PfInit /\ [][PfNext]_pfVars

-----------------------------------------------------------------------------
\* What Sync said is on the disk stays in the file, through errors, the end of
\* the process and losses of power; bytes are never doubled nor out of order; and
\* as long as nothing failed the file with the buffer is what was appended, all
\* of it in the file after a Flush or a Close that returned OK. A Sync that
\* returned OK has the names of the files made before it on the disk as well.
SyncedStays ==
    /\ promised \subseteq ToSet(page)
    /\ \A i \in 1..(Len(page) - 1) : page[i] < page[i + 1]
    /\ wf.open => \A b \in since..sent : b \in ToSet(page \o wf.buf)
    /\ told.flushed => wf.buf = <<>> /\ (since..sent) \subseteq ToSet(page)
    /\ told.names <= names.durable
=============================================================================

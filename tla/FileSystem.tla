------------------------------ MODULE FileSystem ------------------------------
(* How LevelDB replaces a small file and reads it back: SetCurrentFile over   *)
(* DoWriteStringToFile, RenameFile and DeleteFile of the Env, next to a       *)
(* ReadFileToString of another thread, with calls of the system that fail and *)
(* a loss of power. And the buffer of a line of the information log           *)
(* (PosixLogger::Logv).                                                       *)
(*                                                                            *)
(* A name leads to an inode, which an open file keeps when the name goes.     *)
EXTENDS Integers, Sequences, SequencesExt

CONSTANTS
    MaxInstalls,    \* bound: calls of SetCurrentFile
    ChunkSize,      \* kBufferSize of ReadFileToString
    StackSize,      \* kStackBufferSize of Logv
    HeaderSizes, MessageSizes

VARIABLES
    names,      \* the directory: the inode of "CURRENT" and of "tmp", 0 for none
    oldNames,   \* the directory as the disk may still have it
    inodes,     \* [data, synced]
    writer,     \* SetCurrentFile: [pc, n, status]
    reader,     \* ReadFileToString: [pc, inode, at, data, first]
    installed,  \* the last call whose rename was done
    logLine     \* header and message of a line to be logged

fsVars == <<names, oldNames, inodes, writer, reader, installed, logLine>>

\* The name of the n-th manifest, with the newline behind it.
ContentsOf(n) == [i \in 1..3 |-> IF i = 3 THEN "newline" ELSE <<n, i>>]

-----------------------------------------------------------------------------
(* Logv: a buffer with what is in it, "nul" where a string ends.              *)

\* snprintf: what fits, and the end of the string behind it. The result counts all.
Printed(buffer, size, text) ==
    buffer \o SubSeq(text, 1, IF Len(text) < size - Len(buffer) THEN Len(text)
                              ELSE size - Len(buffer) - 1) \o <<"nul">>

\* (Mutant: a message that fills the buffer to the last byte but one is kept.)
FitsTightly(offset, size) == offset <= size

\* There must be room for a newline behind what was printed.
Fits(offset, size) == offset < size - 1

\* One try with a buffer of the size given: [fits, offset, text]
Attempt(header, message, size) ==
    LET offset == Len(header) + Len(message)
        buffer == Printed(header, size, message)
    IN IF ~Fits(offset, size) THEN [fits |-> FALSE, offset |-> offset, text |-> <<>>]
       ELSE [fits |-> TRUE, offset |-> offset,
             text |-> SubSeq(buffer, 1, offset)
                      \o (IF buffer[offset] # "newline" THEN <<"newline">> ELSE <<>>)]

\* The stack first, then a buffer with room for a newline and the end of the string.
Logv(header, message) ==
    LET one == Attempt(header, message, StackSize)
    IN IF one.fits THEN one ELSE Attempt(header, message, one.offset + 2)

-----------------------------------------------------------------------------
(* The calls of the system *)

\* The status for errno
PosixError(exists) == IF exists THEN "IOError" ELSE "NotFound"

Inode(data) == [data |-> data, synced |-> 0]

\* open with O_TRUNC | O_CREAT
Truncated(name) ==
    IF names[name] # 0
    THEN inodes' = [inodes EXCEPT ![names[name]] = Inode(<<>>)] /\ UNCHANGED names
    ELSE inodes' = Append(inodes, Inode(<<>>)) /\ names' = [names EXCEPT ![name] = Len(inodes) + 1]

Unlinked(name) == names' = [names EXCEPT ![name] = 0]

Renamed == names' = [names EXCEPT !["CURRENT"] = names["tmp"], !["tmp"] = 0]

-----------------------------------------------------------------------------
(* DoWriteStringToFile and SetCurrentFile: a step for each call of the Env.   *)

To(pc) == writer' = [writer EXCEPT !.pc = pc]
Written == inodes[names["tmp"]]

FsCreate ==
    /\ writer.pc = "idle" /\ writer.n < MaxInstalls
    /\ \/ /\ Truncated("tmp")
          /\ writer' = [pc |-> "append", n |-> writer.n + 1, status |-> "OK"]
       \/ /\ writer' = [pc |-> "discard", n |-> writer.n + 1, status |-> "IOError"]
          /\ UNCHANGED <<names, inodes>>
    /\ UNCHANGED <<oldNames, reader, installed, logLine>>

\* Append, Sync and Close together write the contents or, if they fail, a part.
FsWrite ==
    /\ writer.pc = "append"
    /\ \E n \in 0..Len(ContentsOf(writer.n)) :
        /\ inodes' = [inodes EXCEPT ![names["tmp"]].data = SubSeq(ContentsOf(writer.n), 1, n)]
        /\ \/ n = Len(ContentsOf(writer.n)) /\ To("sync")
           \/ writer' = [writer EXCEPT !.pc = "delete", !.status = "IOError"]
    /\ UNCHANGED <<names, oldNames, reader, installed, logLine>>

\* (Mutant: should_sync is not looked at.)
FsSyncLeftOut ==
    /\ writer.pc = "sync"
    /\ To("rename")
    /\ UNCHANGED <<names, oldNames, inodes, reader, installed, logLine>>

\* The other way it fails is in Close.
FsSync ==
    /\ writer.pc = "sync"
    /\ \/ inodes' = [inodes EXCEPT ![names["tmp"]].synced = Len(Written.data)] /\ To("rename")
       \/ /\ writer' = [writer EXCEPT !.pc = "delete", !.status = "IOError"]
          /\ UNCHANGED inodes
    /\ UNCHANGED <<names, oldNames, reader, installed, logLine>>

\* What could not be written is deleted, and the deletion may fail as well.
FsDelete ==
    /\ writer.pc = "delete"
    /\ Unlinked("tmp") \/ UNCHANGED names
    /\ To("discard")
    /\ UNCHANGED <<oldNames, inodes, reader, installed, logLine>>

FsRename ==
    /\ writer.pc = "rename"
    /\ \/ Renamed /\ To("idle") /\ installed' = writer.n
       \/ /\ writer' = [writer EXCEPT !.pc = "discard", !.status = "IOError"]
          /\ UNCHANGED <<names, installed>>
    /\ UNCHANGED <<oldNames, inodes, reader, logLine>>

\* SetCurrentFile deletes the temporary file after any error.
FsDiscard ==
    /\ writer.pc = "discard"
    /\ Unlinked("tmp") \/ UNCHANGED names
    /\ To("idle")
    /\ UNCHANGED <<oldNames, inodes, reader, installed, logLine>>

-----------------------------------------------------------------------------
(* ReadFileToString of CURRENT *)

NoReader == [pc |-> "idle", inode |-> 0, at |-> 0, data |-> <<>>, first |-> 0]

\* NotFound if there is no such file; or another error.
FsOpen ==
    /\ reader.pc = "idle"
    /\ \/ /\ names["CURRENT"] # 0
          /\ reader' = [pc |-> "read", inode |-> names["CURRENT"], at |-> 0, data |-> <<>>,
                        first |-> installed]
       \/ /\ names["CURRENT"] = 0
          /\ reader' = [NoReader EXCEPT !.pc = PosixError(FALSE), !.first = installed]
       \/ reader' = [NoReader EXCEPT !.pc = PosixError(TRUE)]
    /\ UNCHANGED <<names, oldNames, inodes, writer, installed, logLine>>

\* A read gives up to ChunkSize bytes, fewer at the system's pleasure, none at the
\* end of the file, where the loop ends. EINTR is tried again.
FsRead ==
    LET data == inodes[reader.inode].data
        left == Len(data) - reader.at
    IN /\ reader.pc = "read"
       /\ \/ \E n \in 1..ChunkSize :
                /\ n <= left
                /\ reader' = [reader EXCEPT !.at = @ + n,
                                 !.data = @ \o SubSeq(data, reader.at + 1, reader.at + n)]
          \/ left <= 0 /\ reader' = [reader EXCEPT !.pc = "OK"]
          \/ reader' = [reader EXCEPT !.pc = "IOError"]
       /\ UNCHANGED <<names, oldNames, inodes, writer, installed, logLine>>

FsReadDone ==
    /\ reader.pc \in {"OK", "NotFound", "IOError"}
    /\ reader' = NoReader
    /\ UNCHANGED <<names, oldNames, inodes, writer, installed, logLine>>

-----------------------------------------------------------------------------
(* The system makes the directory durable when it likes. A loss of power      *)
(* leaves the directory as it is or was, and of an inode what was synced and  *)
(* any part of the rest.                                                      *)

FsDirectoryWritten ==
    /\ oldNames # names
    /\ oldNames' = names
    /\ UNCHANGED <<names, inodes, writer, reader, installed, logLine>>

FsPowerLoss ==
    /\ names' \in {names, oldNames}
    /\ oldNames' = names'
    /\ \E lengths \in [1..Len(inodes) -> 0..3] :
        /\ \A i \in 1..Len(inodes) : inodes[i].synced <= lengths[i] /\ lengths[i] <= Len(inodes[i].data)
        /\ inodes' = [i \in 1..Len(inodes) |->
                        [data |-> SubSeq(inodes[i].data, 1, lengths[i]), synced |-> lengths[i]]]
    /\ writer' = [writer EXCEPT !.pc = "idle", !.status = "OK"]
    /\ reader' = NoReader
    /\ installed' = 0
    /\ UNCHANGED logLine

-----------------------------------------------------------------------------
FsInit ==
    /\ names = [f \in {"CURRENT", "tmp"} |-> 0] /\ oldNames = names
    /\ inodes = <<>>
    /\ writer = [pc |-> "idle", n |-> 0, status |-> "OK"]
    /\ reader = NoReader /\ installed = 0
    /\ logLine = [header |-> 1, message |-> 0, ends |-> FALSE]

FsLog ==
    /\ writer.n = 0 /\ reader = NoReader
    /\ logLine' \in [header : HeaderSizes, message : MessageSizes, ends : BOOLEAN]
    /\ UNCHANGED <<names, oldNames, inodes, writer, reader, installed>>

FsNext ==
    \/ FsCreate \/ FsWrite \/ FsSync \/ FsDelete \/ FsRename \/ FsDiscard
    \/ FsOpen \/ FsRead \/ FsReadDone
    \/ FsDirectoryWritten
    \/ FsPowerLoss
    \/ FsLog

FsSpec == FsInit /\ [][FsNext]_fsVars

-----------------------------------------------------------------------------
\* CURRENT, once there, is always one of the whole contents installed, also after a
\* failure or a loss of power in the middle; a reader gets the whole of one, and not
\* of one that was replaced before it began. No name leads to two contents.
CurrentWhole ==
    /\ \A dir \in {names, oldNames} :
        dir["CURRENT"] # 0 =>
            LET f == inodes[dir["CURRENT"]]
            IN /\ \E n \in 1..writer.n : f.data = ContentsOf(n)
               /\ f.synced = Len(f.data)
    /\ reader.pc = "OK" =>
            \E n \in 1..writer.n : reader.data = ContentsOf(n) /\ n >= reader.first
    /\ reader.pc = "NotFound" => reader.first = 0

\* A line of the log has its header, its whole message and one newline at its end,
\* whatever their lengths, and is no longer than its buffer.
LinesWhole ==
    LET header == [i \in 1..logLine.header |-> <<"h", i>>]
        letters == [i \in 1..logLine.message |-> <<"m", i>>]
        message == IF logLine.ends THEN Append(letters, "newline") ELSE letters
        line == Logv(header, message)
    IN line.fits /\ line.text = header \o letters \o <<"newline">>
=============================================================================

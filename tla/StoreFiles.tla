----------------------------- MODULE StoreFiles -----------------------------
(* What LevelDB keeps on disk: CURRENT, the manifests, the logs and the      *)
(* tables, how a process that opens the database finds its way through them, *)
(* and what a crash of the process or a loss of power leaves behind.         *)
(*                                                                           *)
(* A file is a sequence of records, of which the first synced[f] survive a   *)
(* loss of power.  The directory is kept with its history since the last     *)
(* sync: any of these directories may be what a loss of power leaves.        *)
EXTENDS Integers, FiniteSets, Sequences, SequencesExt, FiniteSetsExt, TLC

CONSTANTS
  WriteBuffer,    \* records in a memtable that is not full yet
  Writes,         \* bound: writes begun
  Crashes,        \* bound: ends of the process
  PowerLosses,    \* bound: losses of power
  Errors,         \* bound: manifest writes that fail
  ReuseLogs,      \* the values of options.reuse_logs a process may open with
  LossOfDescriptor, \* may the power be lost while a descriptor in use was not synced
  None

VARIABLES
  disk,      \* the files
  db,        \* the process that has the database open, or None
  issued,    \* number of writes begun
  acked,     \* the acknowledged writes that no loss of power may have taken
  promised,  \* of these, the ones written with sync
  budget     \* the crashes, losses and errors so far

vars == <<disk, db, issued, acked, promised, budget>>

ASSUME BoundsOK == /\ {WriteBuffer, Writes, Crashes, PowerLosses, Errors} \subseteq Nat
                   /\ ReuseLogs \subseteq BOOLEAN /\ LossOfDescriptor \in BOOLEAN

-----------------------------------------------------------------------------
(* Files                                                                     *)

LogFileName(n)        == <<"log", n>>
TableFileName(n)      == <<"table", n>>
DescriptorFileName(n) == <<"manifest", n>>
TempFileName(n)       == <<"temp", n>>

NumbersOf(names, type) == {f[2] : f \in {g \in names : g[1] = type}}

\* The directory as the processes see it.
Dir(d) == Last(d.dirs)

ChangeDir(d, dir) == [d EXCEPT !.dirs = Append(@, dir)]

NewWritableFile(d, f) ==
  [ChangeDir(d, [Dir(d) EXCEPT !.files = @ \cup {f}]) EXCEPT
     !.data = (f :> << >>) @@ @, !.synced = (f :> 0) @@ @]

AppendTo(d, f, record) == [d EXCEPT !.data[f] = Append(@, record)]

\* fsync makes the file's records and the directory so far durable.
Sync(d, f) == [d EXCEPT !.synced[f] = Len(d.data[f]), !.dirs = <<Dir(d)>>]

\* What is known of files that no directory names is forgotten.
Trim(d) ==
  LET names == UNION {d.dirs[i].files : i \in DOMAIN d.dirs}
  IN  [d EXCEPT !.data = [f \in names |-> d.data[f]], !.synced = [f \in names |-> d.synced[f]]]

DeleteFiles(d, names) ==
  IF names \cap Dir(d).files = {} THEN d
  ELSE ChangeDir(d, [Dir(d) EXCEPT !.files = @ \ names])

\* The rename of the temporary file, whose contents are the manifest's number.
RenameToCurrent(d, n) ==
  ChangeDir(d, [files |-> Dir(d).files \ {TempFileName(n)}, current |-> n])

-----------------------------------------------------------------------------
(* Version edits                                                             *)

\* A record of the manifest; None stands for a field that is not there.
VersionEdit(log, next, last, add, del) ==
  [log |-> log, next |-> next, last |-> last, add |-> add, del |-> del]

Later(old, new) == IF new = None THEN old ELSE new

\* The edits of a manifest applied in turn.
ApplyEdit(r, e) ==
  [log |-> Later(r.log, e.log), next |-> Later(r.next, e.next),
   last |-> Later(r.last, e.last), tables |-> (r.tables \ e.del) \cup e.add]

Replayed(edits) ==
  FoldLeft(ApplyEdit, [log |-> None, next |-> None, last |-> None, tables |-> {}], edits)

-----------------------------------------------------------------------------
(* Opening                                                                   *)

Live(d) == d.tables \cup d.pending

\* The VersionSet of a new process: the next file number, the last sequence number, the
\* log and the descriptor in use, whether the descriptor is open, the current tables.
VersionSet ==
  [next |-> 2, last |-> 0, log |-> 0, manifest |-> 0, appending |-> FALSE, tables |-> {}]

\* A DBImpl: where its thread is, its memtables and log, what is left to recover, the edit
\* being logged, and the error that stops it.
DBImpl(reuse) ==
  [pc |-> "read", reuse |-> reuse, pending |-> {}, mem |-> {}, imm |-> None,
   logfile |-> None, logs |-> {}, max |-> 0, save |-> FALSE, apply |-> "none",
   edit |-> None, writing |-> None, error |-> FALSE] @@ VersionSet

\* The first descriptor: appended and closed, but not synced.
NewDB ==
  /\ db = None /\ Dir(disk).current = None
  /\ disk' = AppendTo(NewWritableFile(disk, DescriptorFileName(1)), DescriptorFileName(1),
                      VersionEdit(0, 2, 0, {}, {}))
  /\ \E reuse \in ReuseLogs :
       db' = [DBImpl(reuse) EXCEPT !.pc = "create", !.manifest = 1, !.apply = "temp"]
  /\ UNCHANGED <<issued, acked, promised, budget>>

OpenExisting ==
  /\ db = None /\ Dir(disk).current # None
  /\ \E reuse \in ReuseLogs : db' = DBImpl(reuse)
  /\ UNCHANGED <<disk, issued, acked, promised, budget>>

\* What is wrong with the descriptor CURRENT names, if anything.
Corrupt(files, manifest) ==
  \/ DescriptorFileName(manifest) \notin files
  \/ LET r == Replayed(disk.data[DescriptorFileName(manifest)])
     IN  \/ None \in {r.next, r.log, r.last}
         \/ ~ r.tables \subseteq {f[2] : f \in files}

\* The logs the descriptor does not name are newer ones.
LogsToRecover(files, log) == {n \in NumbersOf(files, "log") : n >= log}

\* ReuseManifest: the descriptor goes on being used if the option says so and it is not
\* too big.  It may have records no sync covered.
ReuseManifest(f) ==
  {FALSE} \cup {db.reuse /\ (LossOfDescriptor \/ disk.synced[f] = Len(disk.data[f]))}

\* VersionSet::Recover, and the list of the logs.
Recover ==
  /\ db # None /\ db.pc = "read"
  /\ LET dir == Dir(disk)
     IN  IF Corrupt(dir.files, dir.current)
         THEN db' = [db EXCEPT !.pc = "corrupt"]
         ELSE LET r == Replayed(disk.data[DescriptorFileName(dir.current)])
              IN  \E keep \in ReuseManifest(DescriptorFileName(dir.current)) :
                    db' = [db EXCEPT !.pc = "replay",
                      !.manifest = IF keep THEN dir.current ELSE r.next,
                      !.appending = keep, !.save = ~keep,
                      !.next = r.next + 1, !.last = r.last, !.log = r.log,
                      !.tables = r.tables, !.edit = VersionEdit(None, None, None, {}, {}),
                      !.logs = LogsToRecover(dir.files, r.log)]
  /\ UNCHANGED <<disk, issued, acked, promised, budget>>

\* The memtables that the records of a log fill, the last one not full.
Filled(records) ==
  FoldLeft(LAMBDA m, e : IF Cardinality(m.mem) + 1 > WriteBuffer
                         THEN [mem |-> {}, full |-> Append(m.full, m.mem \cup {e})]
                         ELSE [m EXCEPT !.mem = @ \cup {e}],
           [mem |-> {}, full |-> << >>], records)

\* WriteLevel0Table, BuildTable: the table is synced before anything names it.
BuildTable(d, n, entries) ==
  Sync(AppendTo(NewWritableFile(d, TableFileName(n)), TableFileName(n), entries), TableFileName(n))

MarkFileNumberUsed(next, number) == IF next <= number THEN number + 1 ELSE next

\* RecoverLogFile: the oldest log left goes to tables; the last one may be kept as the
\* log, with its memtable, if it fits into one.
RecoverLogFile ==
  /\ db # None /\ db.pc = "replay" /\ db.logs # {}
  /\ LET l       == Min(db.logs)
         records == disk.data[LogFileName(l)]
         filled  == Filled(records)
         kept    == db.reuse /\ db.logs = {l} /\ filled.full = << >>
         mems    == IF kept \/ filled.mem = {} THEN filled.full ELSE Append(filled.full, filled.mem)
         numbers == {db.next + i - 1 : i \in DOMAIN mems}
     IN  /\ disk' = FoldLeft(LAMBDA d, i : BuildTable(d, db.next + i - 1, mems[i]),
                             disk, [i \in DOMAIN mems |-> i])
         /\ db' = [db EXCEPT
              !.logs = @ \ {l},
              !.next = MarkFileNumberUsed(@ + Len(mems), l),
              !.max = Max({@} \cup {records[i].seq : i \in DOMAIN records}),
              !.save = @ \/ mems # << >>,
              !.edit.add = @ \cup numbers,
              !.mem = IF kept THEN filled.mem ELSE {},
              !.logfile = IF kept THEN l ELSE None]
  /\ UNCHANGED <<issued, acked, promised, budget>>

\* The edit with what every edit says when it is logged.
Completed(d, edit) ==
  [edit EXCEPT !.log = Later(d.log, @), !.next = d.next, !.last = d.last]

LogAndApply(d, edit) == [d EXCEPT !.edit = Completed(d, edit), !.apply = "manifest"]

SequenceAfter(d) == Max({d.last, d.max})

\* The rest of DB::Open: a new log if none is kept, and the edit if there is one.
OpenLog ==
  /\ db # None /\ db.pc = "replay" /\ db.logs = {}
  /\ LET fresh  == db.logfile = None
         number == IF fresh THEN db.next ELSE db.logfile
         d      == [db EXCEPT !.pc = "open", !.last = SequenceAfter(db), !.logfile = number,
                              !.next = IF fresh THEN @ + 1 ELSE @]
     IN  /\ disk' = IF fresh THEN NewWritableFile(disk, LogFileName(number)) ELSE disk
         /\ db' = IF db.save THEN LogAndApply(d, [db.edit EXCEPT !.log = number])
                             ELSE [d EXCEPT !.apply = "collect"]
  /\ UNCHANGED <<issued, acked, promised, budget>>

-----------------------------------------------------------------------------
(* Logging an edit                                                           *)

\* The edit is appended; the first one of a process starts a new descriptor with a
\* snapshot of the version (WriteSnapshot).
WriteManifest ==
  /\ db # None /\ db.apply = "manifest"
  /\ LET f == DescriptorFileName(db.manifest)
     IN  disk' = AppendTo(IF db.appending THEN disk
                          ELSE AppendTo(NewWritableFile(disk, f), f,
                                        VersionEdit(None, None, None, db.tables, {})),
                          f, db.edit)
  /\ db' = [db EXCEPT !.apply = "sync"]
  /\ UNCHANGED <<issued, acked, promised, budget>>

\* (Mutant: CURRENT is switched, or the version installed, before the sync.)
NotSynced(d, f) == d

SyncedManifest(d, f) == Sync(d, f)

SyncManifest ==
  /\ db # None /\ db.apply = "sync"
  /\ disk' = SyncedManifest(disk, DescriptorFileName(db.manifest))
  /\ db' = [db EXCEPT !.apply = IF db.appending THEN "install" ELSE "temp"]
  /\ UNCHANGED <<issued, acked, promised, budget>>

\* SetCurrentFile: WriteStringToFileSync of a temporary file, then its rename.
WriteTemp ==
  /\ db # None /\ db.apply = "temp"
  /\ disk' = LET f == TempFileName(db.manifest)
             IN  Sync(AppendTo(NewWritableFile(disk, f), f, db.manifest), f)
  /\ db' = [db EXCEPT !.apply = "rename"]
  /\ UNCHANGED <<issued, acked, promised, budget>>

SetCurrentFile ==
  /\ db # None /\ db.apply = "rename"
  /\ disk' = Trim(RenameToCurrent(disk, db.manifest))
  /\ db' = IF db.pc = "create" THEN DBImpl(db.reuse) ELSE [db EXCEPT !.apply = "install"]
  /\ UNCHANGED <<issued, acked, promised, budget>>

\* The version is installed; CompactMemTable and InstallCompactionResults commit.
InstallVersion ==
  /\ db # None /\ db.apply = "install"
  /\ db' = [db EXCEPT !.apply = "collect", !.appending = TRUE, !.log = db.edit.log,
                      !.tables = (@ \ db.edit.del) \cup db.edit.add,
                      !.pending = {},
                      !.imm = IF db.edit.del = {} THEN None ELSE @]
  /\ UNCHANGED <<disk, issued, acked, promised, budget>>

\* (Mutant: the logs up to the current one are deleted.)
KeptNewestLog(d) == {LogFileName(n) : n \in {d.logfile}}

KeptLogs(d) == {LogFileName(n) : n \in {m \in NumbersOf(Dir(disk).files, "log") : m >= d.log}}

\* The files DeleteObsoleteFiles removes.
ObsoleteFiles ==
  LET files == Dir(disk).files
  IN  files \ (KeptLogs(db)
        \cup {DescriptorFileName(n) : n \in {m \in NumbersOf(files, "manifest") : m >= db.manifest}}
        \cup {TableFileName(n) : n \in Live(db)} \cup {TempFileName(n) : n \in Live(db)})

DeleteObsoleteFiles ==
  /\ db # None /\ db.apply = "collect"
  /\ disk' = Trim(IF db.error THEN disk ELSE DeleteFiles(disk, ObsoleteFiles))
  /\ db' = [db EXCEPT !.apply = "none", !.pc = "run"]
  /\ UNCHANGED <<issued, acked, promised, budget>>

\* The record or its sync fails.  While opening, the new descriptor is removed and the
\* call fails; later the error stops writes and compactions, the imm memtable stays.
ManifestFails ==
  /\ db # None /\ db.apply = "sync" /\ budget.errors < Errors
  /\ budget' = [budget EXCEPT !.errors = @ + 1]
  /\ IF db.pc = "open"
     THEN /\ disk' = IF db.appending THEN disk
                     ELSE Trim(DeleteFiles(disk, {DescriptorFileName(db.manifest)}))
          /\ db' = None
     ELSE /\ db' = [db EXCEPT !.apply = "none", !.error = TRUE, !.pending = {}]
          /\ UNCHANGED disk
  /\ UNCHANGED <<issued, acked, promised>>

-----------------------------------------------------------------------------
(* Running                                                                   *)

Running == db # None /\ db.pc = "run" /\ ~db.error

\* A writer appends its record to the log, without the mutex.
LogWrite(sync) ==
  /\ Running /\ db.writing = None /\ issued < Writes
  /\ Cardinality(db.mem) <= WriteBuffer
  /\ LET e == [id |-> issued + 1, seq |-> db.last + 1]
     IN  /\ disk' = AppendTo(disk, LogFileName(db.logfile), e)
         /\ db' = [db EXCEPT !.writing = [entry |-> e, sync |-> sync]]
  /\ issued' = issued + 1
  /\ UNCHANGED <<acked, promised, budget>>

\* It syncs the log if it must, inserts into the memtable and returns.
WriteDone ==
  /\ db # None /\ db.pc = "run" /\ db.writing # None
  /\ LET w == db.writing
     IN  /\ disk' = IF w.sync THEN Sync(disk, LogFileName(db.logfile)) ELSE disk
         /\ db' = [db EXCEPT !.writing = None, !.mem = @ \cup {w.entry}, !.last = w.entry.seq]
         /\ acked' = acked \cup {w.entry}
         /\ promised' = IF w.sync THEN promised \cup {w.entry} ELSE promised
  /\ UNCHANGED <<issued, budget>>

\* MakeRoomForWrite: a full memtable becomes the imm one, with a new log.
SwitchLog ==
  /\ Running /\ db.writing = None /\ db.imm = None
  /\ Cardinality(db.mem) > WriteBuffer
  /\ disk' = NewWritableFile(disk, LogFileName(db.next))
  /\ db' = [db EXCEPT !.next = @ + 1, !.logfile = db.next, !.imm = db.mem, !.mem = {}]
  /\ UNCHANGED <<issued, acked, promised, budget>>

\* CompactMemTable up to LogAndApply: earlier logs are no longer needed.
CompactMemTable ==
  /\ Running /\ db.apply = "none" /\ db.imm # None
  /\ disk' = BuildTable(disk, db.next, db.imm)
  /\ db' = LogAndApply([db EXCEPT !.next = @ + 1],
             VersionEdit(db.logfile, None, None, {db.next}, {}))
  /\ UNCHANGED <<issued, acked, promised, budget>>

\* A compaction writes its output, which stays pending until the edit is logged.
CompactTables ==
  /\ Running /\ db.apply = "none" /\ db.imm = None /\ Cardinality(db.tables) > 1
  /\ disk' = BuildTable(disk, db.next, UNION {disk.data[TableFileName(n)][1] : n \in db.tables})
  /\ db' = LogAndApply([db EXCEPT !.next = @ + 1, !.pending = {db.next}],
             VersionEdit(None, None, None, {db.next}, db.tables))
  /\ UNCHANGED <<issued, acked, promised, budget>>

-----------------------------------------------------------------------------
(* Crashes                                                                   *)

\* The process ends, killed or closed: the system keeps what was written.  It may end in
\* the middle of deleting files.
ProcessEnds ==
  /\ db # None /\ budget.crashes < Crashes
  /\ \E some \in IF db.apply = "collect" /\ ~db.error THEN SUBSET ObsoleteFiles ELSE {{}} :
       disk' = Trim(DeleteFiles(disk, some))
  /\ db' = None
  /\ budget' = [budget EXCEPT !.crashes = @ + 1]
  /\ UNCHANGED <<issued, acked, promised>>

\* The files of a directory with records that were not synced.
Unsynced(dir) == {f \in dir.files : disk.synced[f] < Len(disk.data[f])}

\* CURRENT no longer names the descriptor of NewDB, which is never synced.
Created == \A dir \in Range(disk.dirs) : dir.current \notin {None, 1}

\* The power is lost: a directory since the last sync, and of each file what was synced
\* and perhaps more.
PowerLoss ==
  /\ budget.losses < PowerLosses
  /\ LossOfDescriptor \/ Created
  /\ \E dir \in Range(disk.dirs) :
       LET open == Unsynced(dir)
       IN  \E left \in [open -> 0..Max({0} \cup {Len(disk.data[f]) : f \in open})] :
             /\ \A f \in open : left[f] \in disk.synced[f]..Len(disk.data[f])
             /\ LET kept == [f \in dir.files |-> IF f \in open THEN left[f] ELSE disk.synced[f]]
                IN  disk' = [dirs |-> <<dir>>, synced |-> kept,
                             data |-> [f \in dir.files |-> SubSeq(disk.data[f], 1, kept[f])]]
  /\ db' = None
  /\ acked' = promised
  /\ budget' = [budget EXCEPT !.losses = @ + 1]
  /\ UNCHANGED <<issued, promised>>

Init ==
  /\ disk = [dirs |-> <<[files |-> {}, current |-> None]>>, data |-> << >>, synced |-> << >>]
  /\ db = None /\ issued = 0 /\ acked = {} /\ promised = {}
  /\ budget = [crashes |-> 0, losses |-> 0, errors |-> 0]

Opening == NewDB \/ OpenExisting \/ Recover \/ RecoverLogFile \/ OpenLog

Logging ==
  \/ WriteManifest \/ SyncManifest \/ WriteTemp \/ SetCurrentFile
  \/ InstallVersion \/ DeleteObsoleteFiles \/ ManifestFails

Working ==
  \/ \E sync \in BOOLEAN : LogWrite(sync)
  \/ WriteDone \/ SwitchLog \/ CompactMemTable \/ CompactTables

Next == Opening \/ Logging \/ Working \/ ProcessEnds \/ PowerLoss

Spec == Init /\ [][Next]_vars

-----------------------------------------------------------------------------
(* Properties                                                                *)

Contents(d) ==
  d.mem \cup (IF d.imm = None THEN {} ELSE d.imm)
    \cup UNION {disk.data[TableFileName(n)][1] : n \in d.tables}

\* Whatever ended the processes before, the database can be opened again
\* (VersionSet::Recover, DBImpl::Recover).
Openable == db # None => db.pc # "corrupt"

\* An open database has every acknowledged write: all of them after the end of a
\* process, the synced ones after a loss of power (options.h, WriteOptions::sync).
KeepsAcknowledged == db # None /\ db.pc = "run" => acked \subseteq Contents(db)

\* And every write has a number above those of all entries there were, so that it hides
\* older ones of its key, across recoveries (SetLastSequence in Recover).
KeepsWrites ==
  /\ KeepsAcknowledged
  /\ db # None /\ db.pc = "run" =>
       \A e, f \in Contents(db) : e.id < f.id => e.seq < f.seq

=============================================================================

----------------------------- MODULE LevelStore -----------------------------
(***************************************************************************)
(* LevelDB below its write queue: memtables, versions, the background      *)
(* thread that flushes and compacts, snapshots, and readers that keep the  *)
(* memtables and the version they started with (db_impl.cc, snapshot.h).   *)
(* A write is one step here; WriteQueue has its details.  A memtable is    *)
(* the set of its entries, and the value of an entry is its sequence       *)
(* number, so that two writes of a key always differ.                      *)
(*                                                                         *)
(* The mutex is free between two steps of the background thread exactly    *)
(* where the code unlocks it: while a table is built and while entries are *)
(* merged.                                                                 *)
(***************************************************************************)
EXTENDS LevelFiles, FiniteSetTheorems, WellFoundedInduction, TLAPS

CONSTANTS
  Readers,          \* threads that read
  WriteBufferSize,  \* options_.write_buffer_size, in entries
  Types,            \* what is written: "value" (Put), "deletion" (Delete)
  Writes,           \* bound: writes
  Reads,            \* bound: reads
  Snapshots,        \* bound: snapshots alive at a time
  RangeCalls        \* the calls of CompactRange to make, see RangeCall

ASSUME LevelStoreAssumption ==
  /\ WriteBufferSize \in Nat \ {0} /\ {Writes, Reads, Snapshots} \subseteq Nat
  /\ Writes < MaxSequenceNumber /\ Types \subseteq {"value", "deletion"}

VARIABLES
  mem, imm,    \* the entries of mem_; those of imm_, or None
  lastSequence,\* versions_->LastSequence()
  snapshots,   \* snapshots_, oldest first
  versions,    \* the live versions: id -> Version
  current,     \* the id of versions_->current()
  pointers,    \* compact_pointer_
  nextFile,    \* next_file_number_
  seeks,       \* allowed_seeks of the metadata of live versions
  tables,      \* the table files on disk: number -> entries
  pending,     \* pending_outputs_
  flush,       \* the table file a memtable is being written to, or None
  merge,       \* the compaction under way, see Merge, or None
  bgError,     \* ~bg_error_.ok()
  readers,     \* per reader: what it holds, see Reader, or None
  reads,       \* reads so far
  ranges,      \* the calls of CompactRange still to be made
  manual       \* the call of CompactRange under way, see Manual, or None

vars == <<mem, imm, lastSequence, snapshots, versions, current, pointers, nextFile,
          seeks, tables, pending, flush, merge, bgError, readers, reads, ranges, manual>>

readVars   == <<readers, reads>>
manualVars == <<ranges, manual>>
fileVars   == <<nextFile, tables, pending>>
writeVars  == <<mem, lastSequence>>

Entry == Keys \X (1..Writes) \X {"value", "deletion"}

\* What a read holds references to: IterState, or the locals of DBImpl::Get.
Reader == [key : Keys \cup {None}, seq : 0..Writes, mem : SUBSET Entry,
           imm : SUBSET Entry \cup {None}, version : Nat]

\* CompactionState with the locals of DoCompactionWork, at the start of the merge: the
\* compaction c of the version "version", the entries not yet merged, the user key and
\* the number of the last entry, the open output (a file number) and the finished ones.
Merge(c, version, smallest, input, isManual) ==
  [c |-> c, version |-> version, smallest |-> smallest, input |-> input, key |-> None,
   last |-> MaxSequenceNumber, place |-> MergeStart, open |-> None, outputs |-> << >>,
   isManual |-> isManual]

\* A range CompactRange is asked for, and where the call is: waiting for the
\* memtable, or at a level; active when it is manual_compaction_.
RangeCall == [begin : Keys \cup {None}, end : Keys \cup {None}]

\* CompactRange(nullptr, nullptr): the entire database.
AllRange == {[begin |-> None, end |-> None]}

Manual == [begin : Keys \cup {None}, end : Keys \cup {None}, from : Keys \cup {None},
           at : {"switch", "flushing", "levels"}, level : Nat, top : Nat, active : BOOLEAN]

Latest == versions[current]

--------------------------------------------------------------------------
(* References: a version lives while it is current or somebody holds it,  *)
(* and its files' metadata with it.                                       *)

Referenced(rs, m) ==
  {rs[r].version : r \in {x \in Readers : rs[x] # None}}
    \cup IF m = None THEN {} ELSE {m.version}

Alive(vs, cur, rs, m) == [id \in {cur} \cup Referenced(rs, m) |-> vs[id]]

FreshId == Min((0..Cardinality(DOMAIN versions)) \ DOMAIN versions)

\* The metadata the versions list.
Listed(vs) ==
  UNION {{MetaData(l, f) : f \in Range(vs[id].files[l])} : id \in DOMAIN vs, l \in Levels}

\* Files that are new at their level start with allowed_seeks of their own.
SeeksOf(vs) ==
  [n \in Listed(vs) |-> IF n \in DOMAIN seeks THEN seeks[n] ELSE InitialSeeks]

\* LogAndApply: the edit makes the next version, which becomes the current one.
LogAndApply(edit, rs, m) ==
  \E next \in {NextVersion(Latest, e) : e \in {edit}}, fresh \in {FreshId} :
    /\ current' = fresh
    /\ versions' = Alive([id \in DOMAIN versions \cup {fresh} |->
                            IF id = fresh THEN next ELSE versions[id]], fresh, rs, m)
    /\ seeks' = SeeksOf(versions')

KeptCurrentOnly(live, outputs) == AddLiveFiles({versions'[current']}) \cup outputs

\* DeleteObsoleteFiles, for table files: those of no live version and not pending go;
\* none after an error, since the manifest may or may not list them.
Kept(live, outputs) == live \cup outputs

DeleteObsoleteFiles(ts, vs, outputs) ==
  IF bgError THEN ts
  ELSE [n \in DOMAIN ts \cap Kept(AddLiveFiles(Range(vs)), outputs) |-> ts[n]]

--------------------------------------------------------------------------
Init ==
  /\ mem = {} /\ imm = None /\ lastSequence = 0
  /\ snapshots = << >>
  /\ versions = [id \in {0} |-> Finalize(EmptyVersion)] /\ current = 0
  /\ pointers = [l \in Levels |-> None]
  /\ nextFile = 1 /\ seeks = << >> /\ tables = << >> /\ pending = {}
  /\ flush = None /\ merge = None /\ bgError = FALSE
  /\ readers = [r \in Readers |-> None] /\ reads = 0
  /\ ranges = RangeCalls /\ manual = None

--------------------------------------------------------------------------
(* Writers                                                                *)

\* Put and Delete: into mem_, after a switch to a new memtable when it is full.
Write(k, type) ==
  LET entry == <<k, lastSequence + 1, type>>
      full  == Cardinality(mem) >= WriteBufferSize
  IN  /\ ~bgError /\ lastSequence < Writes
      /\ full => imm = None
      /\ mem' = IF full THEN {entry} ELSE mem \cup {entry}
      /\ imm' = IF full THEN mem ELSE imm
      /\ lastSequence' = lastSequence + 1
      /\ UNCHANGED <<snapshots, versions, current, pointers, fileVars, seeks, flush,
                     merge, bgError, readVars, manualVars>>

--------------------------------------------------------------------------
(* Snapshots and reads                                                    *)

GetSnapshot ==
  /\ Len(snapshots) < Snapshots
  /\ snapshots' = Append(snapshots, lastSequence)
  /\ UNCHANGED <<writeVars, imm, versions, current, pointers, fileVars, seeks, flush,
                 merge, bgError, readVars, manualVars>>

ReleaseSnapshot(i) ==
  /\ snapshots' = RemoveAt(snapshots, i)
  /\ UNCHANGED <<writeVars, imm, versions, current, pointers, fileVars, seeks, flush,
                 merge, bgError, readVars, manualVars>>

\* The first part of Get (a key) or NewInternalIterator (no key): references taken.
Start(r, key, seq) ==
  /\ readers[r] = None /\ reads < Reads
  /\ readers' = [readers EXCEPT ![r] =
       [key |-> key, seq |-> seq, mem |-> mem, imm |-> imm, version |-> current]]
  /\ reads' = reads + 1
  /\ UNCHANGED <<writeVars, imm, snapshots, versions, current, pointers, fileVars, seeks,
                 flush, merge, bgError, manualVars>>

\* The memtables first, the newer one before the other; then the version's files.
InMemTable(entries, key) == IF entries = None THEN {} ELSE SaveValue(entries, key)

Lookup(m, i, v, key) ==
  IF InMemTable(m, key) # {} THEN InMemTable(m, key)
  ELSE IF InMemTable(i, key) # {} THEN InMemTable(i, key)
  ELSE VersionGet(v, key, tables)

\* A read that the memtables do not answer may charge a file of its version.
ReadCharges(rd, key) ==
  IF rd.key = None \/ InMemTable(rd.mem, key) \cup InMemTable(rd.imm, key) # {} THEN None
  ELSE Charged(versions[rd.version], key, tables)

\* A version takes its references back and may be charged for a seek.
Charge(id, charged, rs) ==
  LET left == ChargeSeek(seeks, charged)
      vs   == [versions EXCEPT ![id] = UpdateStats(@, seeks, charged)]
      kept == Alive(vs, current, rs, merge)
  IN  /\ versions' = kept
      /\ seeks' = [n \in Listed(kept) |-> left[n]]

\* The last part of Get, or the end of an iterator (CleanupIteratorState).
End(r) ==
  /\ readers[r] # None
  /\ readers' = [readers EXCEPT ![r] = None]
  /\ LET rd == readers[r]
     IN  Charge(rd.version, ReadCharges(rd, <<rd.key, rd.seq, "value">>), readers')
  /\ UNCHANGED <<writeVars, imm, snapshots, current, pointers, fileVars, flush, merge,
                 bgError, reads, manualVars>>

\* An iterator samples the key it is at: the current version is charged.
Sample(r, u) ==
  /\ readers[r] # None /\ readers[r].key = None /\ reads < Reads
  /\ reads' = reads + 1
  /\ Charge(current, RecordReadSample(Latest, <<u, readers[r].seq, "value">>), readers)
  /\ UNCHANGED <<writeVars, imm, snapshots, current, pointers, fileVars, flush, merge,
                 bgError, readers, manualVars>>

--------------------------------------------------------------------------
(* CompactRange                                                           *)

TopLevel(v, begin, end) ==
  Max({1} \cup {l \in 1..(NumLevels - 1) : OverlapInLevel(v, l, begin, end)})

CallCompactRange(range) ==
  /\ manual = None /\ range \in ranges
  /\ ranges' = ranges \ {range}
  /\ manual' = [begin |-> range.begin, end |-> range.end, from |-> range.begin,
                at |-> "switch", level |-> 0,
                top |-> TopLevel(Latest, range.begin, range.end), active |-> FALSE]
  /\ UNCHANGED <<writeVars, imm, snapshots, versions, current, pointers, fileVars, seeks,
                 flush, merge, bgError, readVars>>

\* TEST_CompactMemTable: a new memtable, and the wait for the old one's table.
SwitchMemTable ==
  /\ manual # None /\ manual.at = "switch" /\ imm = None /\ ~bgError
  /\ imm' = mem /\ mem' = {}
  /\ manual' = [manual EXCEPT !.at = "flushing"]
  /\ UNCHANGED <<lastSequence, snapshots, versions, current, pointers, fileVars, seeks,
                 flush, merge, bgError, readVars, ranges>>

MemTableWritten ==
  /\ manual # None /\ manual.at = "flushing" /\ imm = None
  /\ manual' = [manual EXCEPT !.at = "levels", !.active = TRUE]
  /\ UNCHANGED <<writeVars, imm, snapshots, versions, current, pointers, fileVars, seeks,
                 flush, merge, bgError, readVars, ranges>>

\* TEST_CompactRange asks again for the rest of the range of its level, or the next
\* call asks for the next level.  Until then the thread may compact something else.
AskAgain ==
  /\ manual # None /\ manual.at = "levels" /\ ~manual.active /\ ~bgError
  /\ manual' = [manual EXCEPT !.active = TRUE]
  /\ UNCHANGED <<writeVars, imm, snapshots, versions, current, pointers, fileVars, seeks,
                 flush, merge, bgError, readVars, ranges>>

\* After an error the call gives up.  The code then follows a null pointer where a
\* merge for the call ends (ManualAfter leaves the call alone there): the process dies
\* at that step, which has written what it writes.
GiveUp ==
  /\ manual # None /\ bgError
  /\ manual' = None
  /\ UNCHANGED <<writeVars, imm, snapshots, versions, current, pointers, fileVars, seeks,
                 flush, merge, bgError, readVars, ranges>>

\* A level is done: TEST_CompactRange returns, and its caller goes on with the next
\* one, from the start of the range, or returns.
LevelDone(m) ==
  IF m.level + 1 < m.top
  THEN [m EXCEPT !.level = @ + 1, !.from = m.begin, !.active = FALSE] ELSE None

ManualActive == manual # None /\ manual.active

--------------------------------------------------------------------------
(* The background thread                                                  *)

\* WriteLevel0Table writes the immutable memtable, before a compaction or between two
\* entries of a merge; the merge tries again after an error.
BuildTable ==
  /\ imm # None /\ flush = None
  /\ ~bgError \/ merge # None
  /\ flush' = nextFile
  /\ nextFile' = nextFile + 1
  /\ pending' = pending \cup {nextFile}
  /\ tables' = IF imm = {} THEN tables
               ELSE [n \in DOMAIN tables \cup {nextFile} |->
                       IF n = nextFile THEN imm ELSE tables[n]]
  /\ UNCHANGED <<writeVars, imm, snapshots, versions, current, pointers, seeks, merge,
                 bgError, readVars, manualVars>>

\* The edit with the table written, at the level picked for it.
FlushEdit ==
  LET entries == InKeyOrder(imm)
      level   == PickLevelForMemTableOutput(Latest, User(entries[1]), User(entries[Len(entries)]))
  IN  IF imm = {} THEN EmptyEdit ELSE AddFile(EmptyEdit, level, FileOver(flush, entries))

\* CompactMemTable commits: the version with the table replaces the memtable.
CommitMemTable ==
  /\ flush # None
  /\ LogAndApply(FlushEdit, readers, merge)
  /\ imm' = None /\ flush' = None
  /\ pending' = pending \ {flush}
  /\ tables' = DeleteObsoleteFiles(tables, versions', pending')
  /\ UNCHANGED <<writeVars, snapshots, pointers, nextFile, merge, bgError, readVars, manualVars>>

\* The manual compaction after its level was compacted, or had nothing left.
ManualAfter(c) ==
  IF ~ManualActive THEN manual
  ELSE IF c = None THEN LevelDone(manual)
  ELSE [manual EXCEPT !.from = User(Last(c.inputs[1]).largest), !.active = FALSE]

\* (Mutant: only a manual compaction is ever chosen.)
ChosenManually ==
  IF ManualActive THEN CompactRange(Latest, manual.level, manual.from, manual.end) ELSE None

\* BackgroundCompaction chooses: the manual compaction first.
Chosen ==
  IF ManualActive THEN CompactRange(Latest, manual.level, manual.from, manual.end)
                  ELSE PickCompaction(Latest, pointers)

Idle == flush = None /\ merge = None /\ imm = None /\ ~bgError

NothingToCompact ==
  /\ Idle /\ ManualActive /\ Chosen = None
  /\ manual' = ManualAfter(None)
  /\ UNCHANGED <<writeVars, imm, snapshots, versions, current, pointers, fileVars, seeks,
                 flush, merge, bgError, readVars, ranges>>

\* One file with nothing under it is moved to the next level as it is.
MovesTrivially(c) == ~ManualActive /\ IsTrivialMove(c)

MoveFile ==
  /\ Idle
  /\ \E c \in {Chosen} \ {None} :
       /\ MovesTrivially(c)
       /\ LET f == c.inputs[1][1]
              e == AddFile(DeleteFile(c.edit, c.level, f.number), c.level + 1, f)
          IN  /\ LogAndApply(e, readers, merge)
              /\ pointers' = PointersAfter(pointers, e)
  /\ UNCHANGED <<writeVars, imm, snapshots, fileVars, flush, merge, bgError, readVars, manualVars>>

SmallestSnapshot == IF snapshots = << >> THEN lastSequence ELSE snapshots[1]

StartCompaction ==
  /\ Idle
  /\ \E c \in {Chosen} \ {None} :
       /\ ~MovesTrivially(c)
       /\ merge' = Merge(c, current, SmallestSnapshot, MakeInputIterator(c, tables), ManualActive)
       /\ pointers' = PointersAfter(pointers, c.edit)
  /\ UNCHANGED <<writeVars, imm, snapshots, versions, current, fileVars, seeks, flush,
                 bgError, readVars, manualVars>>

\* (Mutant: any newer entry of the key hides it.)
HiddenByNewer(last, smallest) == last < MaxSequenceNumber

\* An entry is dropped when a newer one of its key hides it from every snapshot, or
\* when it is a deletion every snapshot sees and no older entry is left to hide.
Hidden(last, smallest) == last <= smallest

ObsoleteDeletion(entry, smallest, isBase) ==
  entry[3] = "deletion" /\ SequenceOf(entry) <= smallest /\ isBase

\* One turn of DoCompactionWork's loop.
MergeEntry ==
  /\ merge # None /\ merge.input # << >> /\ flush = None
  /\ LET e     == Head(merge.input)
         cut   == ShouldStopBefore(merge.c, merge.place, e)
         last  == IF User(e) = merge.key THEN merge.last ELSE MaxSequenceNumber
         hides == Hidden(last, merge.smallest)
         asked == ~hides /\ e[3] = "deletion" /\ SequenceOf(e) <= merge.smallest
         base  == IsBaseLevelForKey(versions[merge.version], merge.c, cut.place, User(e))
         drop  == hides \/ ObsoleteDeletion(e, merge.smallest, base.base)
         kept  == IF cut.stop THEN None ELSE merge.open
         out   == IF kept = None THEN nextFile ELSE kept
         ended == IF merge.open # None /\ cut.stop
                  THEN Append(merge.outputs, merge.open) ELSE merge.outputs
         data  == (IF kept = None THEN {} ELSE tables[out]) \cup {e}
         full  == ~drop /\ Cardinality(data) >= MaxFileSize
     IN  /\ merge' = [merge EXCEPT
              !.input = Tail(@), !.key = User(e), !.last = SequenceOf(e),
              !.place = IF asked THEN base.place ELSE cut.place,
              !.open = IF full THEN None ELSE IF drop THEN kept ELSE out,
              !.outputs = IF full THEN Append(ended, out) ELSE ended]
         /\ IF drop THEN UNCHANGED fileVars
            ELSE /\ tables' = [n \in DOMAIN tables \cup {out} |-> IF n = out THEN data ELSE tables[n]]
                 /\ nextFile' = IF kept = None THEN nextFile + 1 ELSE nextFile
                 /\ pending' = pending \cup {out}
  /\ UNCHANGED <<writeVars, imm, snapshots, versions, current, pointers, seeks, flush,
                 bgError, readVars, manualVars>>

\* The outputs in the order they were made, the open one last.
Outputs == IF merge.open = None THEN merge.outputs ELSE Append(merge.outputs, merge.open)

\* The edit takes the inputs out and adds the outputs to the next level.
MergeEdit ==
  [AddInputDeletions(merge.c) EXCEPT !.added = @ \o
     [i \in DOMAIN Outputs |->
        [level |-> merge.c.level + 1,
         file  |-> FileOver(Outputs[i], InKeyOrder(tables[Outputs[i]]))]]]

InstallCompactionResults ==
  /\ merge # None /\ merge.input = << >> /\ flush = None
  /\ LogAndApply(MergeEdit, readers, None)
  /\ pending' = pending \ Range(Outputs)
  /\ tables' = DeleteObsoleteFiles(tables, versions', pending')
  /\ merge' = None
  /\ manual' = IF merge.isManual THEN ManualAfter(merge.c) ELSE manual
  /\ UNCHANGED <<writeVars, imm, snapshots, pointers, nextFile, flush, bgError, readVars, ranges>>

\* A table or the manifest could not be written (bound: one error).  RecordBackgroundError
\* stops the writers, and no file is deleted from now on.  The table of a memtable may
\* be left behind or not; a merge goes on after the failure of such a table.
FlushError ==
  /\ flush # None /\ ~bgError
  /\ bgError' = TRUE
  /\ flush' = None
  /\ pending' = pending \ {flush}
  /\ \E left \in BOOLEAN :
       tables' = IF left THEN tables ELSE [n \in DOMAIN tables \ {flush} |-> tables[n]]
  /\ UNCHANGED <<writeVars, imm, snapshots, versions, current, pointers, nextFile, seeks,
                 merge, readVars, manualVars>>

\* The merge ends without being installed, and a manual compaction with it.
MergeError ==
  /\ merge # None /\ flush = None /\ ~bgError
  /\ bgError' = TRUE
  /\ merge' = None
  /\ pending' = pending \ Range(Outputs)
  /\ LET vs == Alive(versions, current, readers, None)
     IN  versions' = vs /\ seeks' = SeeksOf(vs)
  /\ manual' = IF merge.isManual THEN None ELSE manual
  /\ UNCHANGED <<writeVars, imm, snapshots, current, pointers, nextFile, tables, flush,
                 readVars, ranges>>

Background ==
  \/ BuildTable \/ CommitMemTable
  \/ NothingToCompact \/ MoveFile \/ StartCompaction
  \/ MergeEntry \/ InstallCompactionResults

Clients ==
  \/ \E k \in Keys, type \in Types : Write(k, type)
  \/ GetSnapshot
  \/ \E i \in DOMAIN snapshots : ReleaseSnapshot(i)
  \/ \E r \in Readers, key \in Keys \cup {None} :
       \E seq \in {lastSequence} \cup Range(snapshots) : Start(r, key, seq)
  \/ \E r \in Readers : End(r)
  \/ \E r \in Readers, u \in Keys : Sample(r, u)

RangeCompaction ==
  \/ \E range \in ranges : CallCompactRange(range)
  \/ SwitchMemTable \/ MemTableWritten \/ AskAgain \/ GiveUp

Next == Clients \/ RangeCompaction \/ Background \/ FlushError \/ MergeError

Spec == Init /\ [][Next]_vars

\* The background thread runs whenever there is work, and a caller of CompactRange
\* goes on when it is signalled.
FairSpec ==
  /\ Spec /\ WF_vars(Background)
  /\ WF_vars(SwitchMemTable \/ MemTableWritten \/ AskAgain \/ GiveUp)

--------------------------------------------------------------------------
(* Properties                                                             *)

\* Above level 0 the files of a level are sorted and share no key (the assertion in
\* Builder::SaveTo): otherwise binary search would miss entries.
LevelsDisjoint ==
  \A id \in DOMAIN versions : \A l \in Levels \ {0} :
    LET files == versions[id].files[l]
    IN  \A i \in 1..(Len(files) - 1) : Less(files[i].largest, files[i + 1].smallest)

\* GetApproximateSizes tells what the files of the current version hold of a range of
\* user keys, though it adds whole files up and stops early in a level, and whatever
\* was moved, merged or flushed into a level before.
SizesMean ==
  LET live == AddLiveFiles({Latest})
      entries == {p \in live \X UNION {tables[n] : n \in live} : p[2] \in tables[p[1]]}
  IN  \A start \in Keys, limit \in {u + 1 : u \in Keys} :
        GetApproximateSizes(Latest, start, limit, tables) =
          Cardinality({p \in entries : start <= User(p[2]) /\ User(p[2]) < limit})

\* No file that a live version lists, or that is being written, is deleted: readers
\* and the merge still open it.
PinnedFilesExist ==
  /\ AddLiveFiles(Range(versions)) \subseteq DOMAIN tables
  /\ merge # None => Range(Outputs) \subseteq DOMAIN tables

\* Every read answers from the store as it was when it began, and every snapshot
\* stays readable, whatever is flushed, compacted or deleted meanwhile.
ValueOf(found) ==
  IF \E e \in found : e[3] = "value" THEN CHOOSE n \in {SequenceOf(e) : e \in found} : TRUE ELSE None
View(m, i, v, seq) == [u \in Keys |-> ValueOf(Lookup(m, i, v, <<u, seq, "value">>))]

Contract == INSTANCE SnapshotStore WITH
  Absent    <- None,
  writes    <- lastSequence,
  store     <- View(mem, imm, Latest, lastSequence),
  snapshots <- [i \in DOMAIN snapshots |-> View(mem, imm, Latest, snapshots[i])],
  views     <- [r \in Readers |->
                  IF readers[r] = None THEN None
                  ELSE View(readers[r].mem, readers[r].imm,
                            versions[readers[r].version], readers[r].seq)]

KeepsContract == Contract!Spec

\* The background work ends: with no more writes, no memtable waits and no level
\* needs a compaction, unless an error stopped it; and CompactRange returns.
SettlesDown ==
  /\ <>[](bgError \/ (imm = None /\ flush = None /\ merge = None /\ ~NeedsCompaction(Latest)))
  /\ []<>(manual = None)

--------------------------------------------------------------------------
(* Proofs: PinnedFilesExist.  A version lists only files of finished tables, *)
(* each as it is written (Proper): what is still written is pending, and no  *)
(* version has it.  Everything else says that what is chosen from the files  *)
(* of a version are files of it.                                             *)

\* The files of the tables ts that are not being written.
Proper(ts, unfinished) ==
  {FileOver(n, InKeyOrder(ts[n])) : n \in DOMAIN ts \ unfinished}

\* A file of v that a compaction may begin with: there is a level below its own.
Compactable(v, c) == c.level \in 0..(NumLevels - 2) /\ c.file \in Range(v.files[c.level])

VersionOK(v, files) ==
  /\ DOMAIN v = {"files", "toCompact", "level", "score"}
  /\ v.files \in [Levels -> Seq(files)]
  /\ SizeCompaction(v) => v.level \in 0..(NumLevels - 2) /\ v.files[v.level] # << >>
  /\ v.toCompact # None => Compactable(v, v.toCompact)

AllOK(vs, files) == \A id \in DOMAIN vs : VersionOK(vs[id], files)

Data == {S \in SUBSET Entry : IsFiniteSet(S)}

MemoryOK ==
  /\ lastSequence \in 0..Writes /\ mem \in Data /\ (imm # None => imm \in Data)
  /\ \A n \in DOMAIN tables : tables[n] \in Data \ {{}}

NumbersOK ==
  nextFile \in Nat /\ DOMAIN tables \cup pending \subseteq 0..(nextFile - 1)

\* Whoever reads or merges holds a version that lives.
HeldOK ==
  /\ current \in DOMAIN versions
  /\ DOMAIN readers = Readers
  /\ \A r \in Readers : readers[r] # None => readers[r].version \in DOMAIN versions

FlushOK ==
  flush # None => /\ flush \in pending /\ imm # None
                  /\ imm # {} => flush \in DOMAIN tables /\ tables[flush] = imm

MergeOK ==
  merge # None =>
    /\ {"c", "version", "input", "open", "outputs"} \subseteq DOMAIN merge
    /\ "added" \in DOMAIN merge.c.edit /\ merge.c.edit.added = << >>
    /\ merge.version \in DOMAIN versions
    /\ merge.input \in Seq(Entry)
    /\ merge.outputs \in Seq(Nat)
    /\ Range(Outputs) \subseteq pending \cap DOMAIN tables
    /\ flush # None => flush \notin Range(Outputs)

ManualOK ==
  manual # None =>
    /\ {"level", "top"} \subseteq DOMAIN manual
    /\ manual.level \in Nat /\ manual.top \in 0..(NumLevels - 1)
    /\ manual.level < manual.top

LevelInv ==
  /\ AllOK(versions, Proper(tables, pending))
  /\ MemoryOK /\ NumbersOK /\ HeldOK /\ FlushOK /\ MergeOK /\ ManualOK


\* What SetupOtherInputs makes: a compaction of files of a level and of the next one.
CompactionOf(v, c) ==
  \E level \in 0..(NumLevels - 2) :
    \E above \in Seq(Range(v.files[level])), below \in Seq(Range(v.files[level + 1])) :
      c = Compaction(v, level, <<above, below>>)

\* A set of numbers has a least one.
LEMMA Least ==
  ASSUME NEW T, T \subseteq Nat, T # {}
  PROVE  \E m \in T : \A t \in T : m <= t
<1>1. PICK m \in T : \A t \in T : ~ (<<t, m>> \in OpToRel(<, Nat))
  BY NatLessThanWellFounded, WFMin
<1>2. \A t \in T : ~ (t < m)
  BY <1>1 DEF OpToRel
<1> QED
  BY <1>2

LEMMA MinIs ==
  ASSUME NEW T, T \subseteq Nat, T # {}
  PROVE  Min(T) \in T /\ \A t \in T : Min(T) <= t
<1>1. \E m \in T : \A t \in T : m <= t
  BY Least
<1> QED
  BY <1>1 DEF Min

\* What holds at 0 and is handed on by each step holds up to N.
LEMMA Steps ==
  ASSUME NEW N \in Nat, NEW G, 0 \in G, \A n \in 1..N : n - 1 \in G => n \in G
  PROVE  0..N \subseteq G
<1> DEFINE T == {n \in 0..N : n \notin G}
<1> SUFFICES ASSUME T # {} PROVE FALSE
  OBVIOUS
<1>1. PICK m \in T : \A t \in T : m <= t
  <2>1. T \subseteq Nat
    OBVIOUS
  <2> HIDE DEF T
  <2> QED BY <2>1, Least
<1>2. m \in 1..N
  BY <1>1
<1>3. m - 1 \in 0..N /\ m - 1 \notin T
  BY <1>1, <1>2
<1> QED
  BY <1>1, <1>2, <1>3

\* A function that is defined step by step exists.
Loop(f, N, a, step) == f[0] = a /\ \A n \in 1..N : f[n] = step[<<f[n - 1], n>>]

LEMMA Recursion ==
  ASSUME NEW N \in Nat, NEW A, NEW a \in A, NEW step \in [A \X (1..N) -> A]
  PROVE  \E f \in [0..N -> A] : Loop(f, N, a, step)
<1> DEFINE P(m) == \E f \in [0..N -> A] :
                     f[0] = a /\ \A n \in 1..m : f[n] = step[<<f[n - 1], n>>]
           T == {m \in 0..N : ~P(m)}
<1> SUFFICES ASSUME T # {} PROVE FALSE
  <2>1. ASSUME T = {} PROVE P(N)
    <3>1. N \in 0..N
      OBVIOUS
    <3> HIDE DEF P
    <3> QED BY <3>1, <2>1
  <2> QED BY <2>1 DEF Loop
<1>1. PICK m \in T : \A t \in T : m <= t
  <2>1. T \subseteq Nat
    <3> HIDE DEF P
    <3> QED OBVIOUS
  <2> HIDE DEF T
  <2> QED BY <2>1, Least
<1>2. P(0)
  <2> DEFINE g == [n \in 0..N |-> a]
  <2>1. g \in [0..N -> A] /\ g[0] = a /\ 1..0 = {}
    OBVIOUS
  <2> HIDE DEF g
  <2> QED BY <2>1
<1>3. m \in 1..N /\ m - 1 \in 0..N
  BY <1>1, <1>2
<1>4. P(m - 1)
  <2>1. m - 1 \notin T
    <3> HIDE DEF T
    <3> QED BY <1>1, <1>3
  <2> HIDE DEF P
  <2> QED BY <2>1, <1>3
<1>5. PICK f \in [0..N -> A] : f[0] = a /\ \A n \in 1..(m - 1) : f[n] = step[<<f[n - 1], n>>]
  BY <1>4
<1> DEFINE x == step[<<f[m - 1], m>>]
           g == [f EXCEPT ![m] = x]
<1>6. x \in A
  <2>1. <<f[m - 1], m>> \in A \X (1..N)
    BY <1>3
  <2> QED BY <2>1
<1>7. g \in [0..N -> A] /\ g[m] = x /\ \A n \in 0..N : n # m => g[n] = f[n]
  <2> HIDE DEF x
  <2> QED BY <1>6, <1>3
<1>8. \A n \in 1..m : g[n] = step[<<g[n - 1], n>>]
  <2> HIDE DEF g
  <2> SUFFICES ASSUME NEW n \in 1..m PROVE g[n] = step[<<g[n - 1], n>>]
    OBVIOUS
  <2>1. n \in 1..N /\ n - 1 \in 0..N /\ n - 1 # m
    BY <1>3
  <2>2. CASE n = m
    BY <2>1, <2>2, <1>7
  <2>3. CASE n # m
    <3>1. n \in 1..(m - 1)
      BY <2>3, <1>3
    <3> QED BY <3>1, <2>1, <2>3, <1>5, <1>7
  <2> QED BY <2>2, <2>3
<1>9. g[0] = a
  <2>1. 0 \in 0..N /\ 0 # m
    BY <1>3
  <2> QED BY <2>1, <1>5, <1>7
<1>10. P(m)
  <2> HIDE DEF g
  <2> QED BY <1>7, <1>8, <1>9
<1> QED
  BY <1>10

\* In a finite set with a strict order, each rank is that of one element.
LEMMA Ranks ==
  ASSUME NEW S, IsFiniteSet(S), NEW R,
         \A a \in S : <<a, a>> \notin R,
         \A a, b, c \in S : <<a, b>> \in R /\ <<b, c>> \in R => <<a, c>> \in R,
         \A a, b \in S : a # b => <<a, b>> \in R \/ <<b, a>> \in R
  PROVE  \A i \in 1..Cardinality(S) :
           \E e \in S : Cardinality({g \in S : <<g, e>> \in R}) = i - 1
<1> DEFINE below(e) == {g \in S : <<g, e>> \in R}
           N == Cardinality(S)
           rank == [e \in S |-> Cardinality(below(e))]
<1>1. N \in Nat
  BY FS_CardinalityType
<1>2. ASSUME NEW e \in S PROVE /\ IsFiniteSet(below(e)) /\ Cardinality(below(e)) \in 0..(N - 1)
  <2>1. IsFiniteSet(S \ {e}) /\ Cardinality(S \ {e}) = N - 1
    BY FS_RemoveElement
  <2>2. below(e) \in SUBSET (S \ {e})
    OBVIOUS
  <2>3. IsFiniteSet(below(e)) /\ Cardinality(below(e)) <= N - 1
    <3> HIDE DEF below, N
    <3> QED BY <2>1, <2>2, FS_Subset
  <2> HIDE DEF below
  <2> QED BY <2>3, <1>1, FS_CardinalityType
<1>3. ASSUME NEW a \in S, NEW b \in S, <<a, b>> \in R
      PROVE  Cardinality(below(a)) < Cardinality(below(b))
  <2>1. below(a) \cup {a} \in SUBSET below(b) /\ a \notin below(a)
    BY <1>3
  <2>2. IsFiniteSet(below(a)) /\ IsFiniteSet(below(b))
    BY <1>2
  <2>3. Cardinality(below(a) \cup {a}) = Cardinality(below(a)) + 1
    <3> HIDE DEF below
    <3> QED BY <2>1, <2>2, FS_AddElement
  <2>4. Cardinality(below(a) \cup {a}) <= Cardinality(below(b))
    <3> HIDE DEF below
    <3> QED BY <2>1, <2>2, FS_Subset
  <2>5. Cardinality(below(a)) \in 0..(N - 1) /\ Cardinality(below(b)) \in 0..(N - 1)
    BY <1>2
  <2> HIDE DEF below
  <2> QED BY <2>3, <2>4, <2>5, <1>1
<1>4. rank \in Injection(S, 0..(N - 1))
  <2>1. rank \in [S -> 0..(N - 1)]
    BY <1>2
  <2>2. ASSUME NEW a \in S, NEW b \in S, rank[a] = rank[b] PROVE a = b
    <3>1. Cardinality(below(a)) = Cardinality(below(b)) /\ Cardinality(below(a)) \in Int
      <4>1. rank[a] = Cardinality(below(a)) /\ rank[b] = Cardinality(below(b))
        OBVIOUS
      <4>2. Cardinality(below(a)) \in 0..(N - 1)
        BY <1>2
      <4> HIDE DEF rank, below
      <4> QED BY <4>1, <4>2, <2>2
    <3>2. <<a, b>> \notin R /\ <<b, a>> \notin R
      <4> HIDE DEF below
      <4> QED BY <3>1, <1>3
    <3> QED BY <3>2
  <2> HIDE DEF rank
  <2> QED BY <2>1, <2>2 DEF Injection, IsInjective
<1>5. IsFiniteSet(0..(N - 1)) /\ Cardinality(0..(N - 1)) = N
  <2> HIDE DEF N
  <2>1. N - 1 \in Int
    BY <1>1
  <2> QED BY <2>1, <1>1, FS_Interval
<1>6. rank \in Surjection(S, 0..(N - 1))
  <2> HIDE DEF rank
  <2> QED BY <1>4, <1>5, FS_Injection
<1> SUFFICES ASSUME NEW i \in 1..N PROVE \E e \in S : Cardinality(below(e)) = i - 1
  OBVIOUS
<1>7. i - 1 \in 0..(N - 1)
  BY <1>1
<1>8. PICK e \in S : rank[e] = i - 1
  <2> HIDE DEF rank
  <2> QED BY <1>6, <1>7 DEF Surjection
<1> QED
  BY <1>8

\* What a sequence has is finite.
LEMMA RangeFinite ==
  ASSUME NEW A, NEW s \in Seq(A)
  PROVE  IsFiniteSet(Range(s)) /\ Range(s) \subseteq A
<1>1. Len(s) \in Nat /\ DOMAIN s = 1..Len(s) /\ IsFiniteSet(1..Len(s))
  BY FS_Interval
<1>2. s \in Surjection(1..Len(s), Range(s))
  BY <1>1 DEF Surjection, Range
<1>3. IsFiniteSet(Range(s))
  BY <1>1, <1>2, FS_Surjection
<1>4. Range(s) \subseteq A
  BY <1>1 DEF Range
<1> QED
  BY <1>3, <1>4

\* Less is a strict order of the entries.
LEMMA LessOrders ==
  /\ \A a \in Entry : ~Less(a, a)
  /\ \A a, b, c \in Entry : Less(a, b) /\ Less(b, c) => Less(a, c)
  /\ \A a, b \in Entry : a # b => Less(a, b) \/ Less(b, a)
<1>0. Keys \subseteq Int /\ 1..Writes \subseteq Int
  BY LevelFilesAssumption, LevelStoreAssumption
<1>1. \A a \in Entry : a = <<a[1], a[2], a[3]>> /\ a[1] \in Int /\ a[2] \in Int
                       /\ a[3] \in {"value", "deletion"}
  <2> SUFFICES ASSUME NEW k \in Keys, NEW n \in 1..Writes, NEW t \in {"value", "deletion"},
                      NEW a, a = <<k, n, t>>
               PROVE  /\ a = <<a[1], a[2], a[3]>> /\ a[1] \in Int /\ a[2] \in Int
                      /\ a[3] \in {"value", "deletion"}
    BY DEF Entry
  <2> QED BY <1>0
<1> QED
  BY <1>1 DEF Less, User, SequenceOf

LEMMA EntriesInOrder ==
  ASSUME NEW S \in Data
  PROVE  /\ InKeyOrder(S) \in Seq(S) /\ Len(InKeyOrder(S)) = Cardinality(S)
         /\ S # {} => InKeyOrder(S)[1] \in S
<1> DEFINE R == {p \in S \X S : Less(p[1], p[2])}
           N == Cardinality(S)
           P(e, i) == Cardinality({g \in S : Less(g, e)}) = i - 1
           at(i) == CHOOSE e \in S : P(e, i)
<1>0. S \subseteq Entry /\ IsFiniteSet(S) /\ N \in Nat
  BY FS_CardinalityType DEF Data
<1>1. \A a, b \in S : <<a, b>> \in R <=> Less(a, b)
  OBVIOUS
<1>2. \A i \in 1..N : \E e \in S : Cardinality({g \in S : <<g, e>> \in R}) = i - 1
  <2>1. /\ \A a \in S : <<a, a>> \notin R
        /\ \A a, b, c \in S : <<a, b>> \in R /\ <<b, c>> \in R => <<a, c>> \in R
        /\ \A a, b \in S : a # b => <<a, b>> \in R \/ <<b, a>> \in R
    <3> HIDE DEF R
    <3> QED BY <1>0, <1>1, LessOrders
  <2> HIDE DEF R
  <2> QED BY <1>0, <2>1, Ranks
<1>3. \A i \in 1..N : \E e \in S : P(e, i)
  <2> SUFFICES ASSUME NEW i \in 1..N PROVE \E e \in S : P(e, i)
    OBVIOUS
  <2>1. PICK e \in S : Cardinality({g \in S : <<g, e>> \in R}) = i - 1
    BY <1>2
  <2>2. {g \in S : <<g, e>> \in R} = {g \in S : Less(g, e)}
    <3> HIDE DEF R
    <3> QED BY <1>1
  <2> QED BY <2>1, <2>2
<1>4. \A i \in 1..N : at(i) \in S
  <2> HIDE DEF P
  <2> QED BY <1>3
<1>5. InKeyOrder(S) = [i \in 1..N |-> at(i)]
  BY DEF InKeyOrder
<1> HIDE DEF at, N
<1>6. InKeyOrder(S) \in Seq(S) /\ Len(InKeyOrder(S)) = N
  BY <1>4, <1>5, <1>0
<1>7. S # {} => 1 \in 1..N
  BY <1>0, FS_EmptySet DEF N
<1> QED
  BY <1>4, <1>5, <1>6, <1>7 DEF N

\* Files that have a number each, and a smallest key.
Distinct(files) ==
  \A f \in files : /\ f.number \in Nat /\ f.smallest \in Entry
                   /\ \A g \in files : f.number = g.number => f = g

LEMMA FilesInOrder ==
  ASSUME NEW S, IsFiniteSet(S), Distinct(S)
  PROVE  InFileOrder(S) \in Seq(S)
<1> DEFINE R == {p \in S \X S : BySmallestKey(p[1], p[2])}
           N == Cardinality(S)
           P(e, i) == Cardinality({g \in S : BySmallestKey(g, e)}) = i - 1
           at(i) == CHOOSE e \in S : P(e, i)
<1>0. N \in Nat
  BY FS_CardinalityType
<1>1. \A a, b \in S : <<a, b>> \in R <=> BySmallestKey(a, b)
  OBVIOUS
<1>2. \A i \in 1..N : \E e \in S : Cardinality({g \in S : <<g, e>> \in R}) = i - 1
  <2>1. \A a \in S : a.number \in Nat /\ a.smallest \in Entry
    BY DEF Distinct
  <2>2. \A a \in S : ~BySmallestKey(a, a)
    BY <2>1, LessOrders DEF BySmallestKey
  <2>3. \A a, b, c \in S :
          BySmallestKey(a, b) /\ BySmallestKey(b, c) => BySmallestKey(a, c)
    BY <2>1, LessOrders DEF BySmallestKey
  <2>4. \A a, b \in S : a # b => BySmallestKey(a, b) \/ BySmallestKey(b, a)
    <3> SUFFICES ASSUME NEW a \in S, NEW b \in S, a # b
                 PROVE  BySmallestKey(a, b) \/ BySmallestKey(b, a)
      OBVIOUS
    <3>1. a.number # b.number
      BY DEF Distinct
    <3>2. CASE a.smallest = b.smallest
      BY <3>1, <3>2, <2>1 DEF BySmallestKey
    <3>3. CASE a.smallest # b.smallest
      BY <3>3, <2>1, LessOrders DEF BySmallestKey
    <3> QED BY <3>2, <3>3
  <2> HIDE DEF R
  <2>5. /\ \A a \in S : <<a, a>> \notin R
        /\ \A a, b, c \in S : <<a, b>> \in R /\ <<b, c>> \in R => <<a, c>> \in R
        /\ \A a, b \in S : a # b => <<a, b>> \in R \/ <<b, a>> \in R
    BY <2>2, <2>3, <2>4, <1>1
  <2> QED BY <2>5, Ranks
<1>3. \A i \in 1..N : \E e \in S : P(e, i)
  <2> SUFFICES ASSUME NEW i \in 1..N PROVE \E e \in S : P(e, i)
    OBVIOUS
  <2>1. PICK e \in S : Cardinality({g \in S : <<g, e>> \in R}) = i - 1
    BY <1>2
  <2>2. {g \in S : <<g, e>> \in R} = {g \in S : BySmallestKey(g, e)}
    <3> HIDE DEF R
    <3> QED BY <1>1
  <2> QED BY <2>1, <2>2
<1>4. \A i \in 1..N : at(i) \in S
  <2> HIDE DEF P
  <2> QED BY <1>3
<1>5. InFileOrder(S) = [i \in 1..N |-> at(i)]
  BY DEF InFileOrder
<1> HIDE DEF at, N
<1> QED
  BY <1>4, <1>5, <1>0

LEMMA NewestInOrder ==
  ASSUME NEW files, NEW fs \in Seq(files), Distinct(files), NEW u
  PROVE  NewestFirst(fs, u) \in Seq(Range(fs))
<1> DEFINE S == {f \in Range(fs) : User(f.smallest) <= u /\ u <= User(f.largest)}
           R == {p \in S \X S : p[1].number > p[2].number}
           N == Cardinality(S)
           P(e, i) == Cardinality({g \in S : g.number > e.number}) = i - 1
           at(i) == CHOOSE e \in S : P(e, i)
<1>0. IsFiniteSet(S) /\ N \in Nat /\ S \subseteq Range(fs) /\ S \subseteq files
  <2>1. IsFiniteSet(Range(fs)) /\ Range(fs) \subseteq files
    BY RangeFinite
  <2>2. S \in SUBSET Range(fs)
    OBVIOUS
  <2> HIDE DEF S
  <2> QED BY <2>1, <2>2, FS_Subset, FS_CardinalityType
<1>5. NewestFirst(fs, u) = [i \in 1..N |-> at(i)]
  BY DEF NewestFirst
<1> HIDE DEF S
<1>1. \A a, b \in S : <<a, b>> \in R <=> a.number > b.number
  OBVIOUS
<1>2. \A i \in 1..N : \E e \in S : Cardinality({g \in S : <<g, e>> \in R}) = i - 1
  <2>1. \A a \in S : a.number \in Nat
    BY <1>0 DEF Distinct
  <2>2. \A a, b \in S : a # b => a.number # b.number
    BY <1>0 DEF Distinct
  <2> HIDE DEF R
  <2>5. /\ \A a \in S : <<a, a>> \notin R
        /\ \A a, b, c \in S : <<a, b>> \in R /\ <<b, c>> \in R => <<a, c>> \in R
        /\ \A a, b \in S : a # b => <<a, b>> \in R \/ <<b, a>> \in R
    BY <2>1, <2>2, <1>1
  <2> QED BY <2>5, <1>0, Ranks
<1>3. \A i \in 1..N : \E e \in S : P(e, i)
  <2> SUFFICES ASSUME NEW i \in 1..N PROVE \E e \in S : P(e, i)
    OBVIOUS
  <2>1. PICK e \in S : Cardinality({g \in S : <<g, e>> \in R}) = i - 1
    BY <1>2
  <2>2. {g \in S : <<g, e>> \in R} = {g \in S : g.number > e.number}
    <3> HIDE DEF R
    <3> QED BY <1>1
  <2> QED BY <2>1, <2>2
<1>4. \A i \in 1..N : at(i) \in Range(fs)
  <2> HIDE DEF P
  <2> QED BY <1>3, <1>0
<1> HIDE DEF at, N
<1> QED
  BY <1>4, <1>5, <1>0

LEMMA TheOne ==
  ASSUME NEW x
  PROVE  The({x}) = x
  BY DEF The

\* The loop of Overlapping.
OverlappingTo(f, fs, begin, end) ==
  f = [n \in 0..Len(fs) |->
         IF n = 0 THEN << >>
         ELSE IF /\ begin = None \/ User(fs[n].largest) >= begin
                 /\ end = None \/ User(fs[n].smallest) <= end
         THEN Append(f[n - 1], fs[n]) ELSE f[n - 1]]

LEMMA OverlappingIs ==
  ASSUME NEW files, NEW fs \in Seq(files), NEW begin, NEW end
  PROVE  Overlapping(fs, begin, end) \in Seq(Range(fs))
<1> DEFINE N == Len(fs)
           A == Seq(Range(fs))
           In(n) == /\ begin = None \/ User(fs[n].largest) >= begin
                    /\ end = None \/ User(fs[n].smallest) <= end
           Body(s, n) == IF In(n) THEN Append(s, fs[n]) ELSE s
           step == [p \in A \X (1..N) |-> Body(p[1], p[2])]
           g == CHOOSE f : OverlappingTo(f, fs, begin, end)
<1>0. N \in Nat /\ << >> \in A /\ \A n \in 1..N : fs[n] \in Range(fs)
  BY DEF Range
<1> HIDE DEF In
<1>1. \A s \in A, n \in 1..N : Body(s, n) \in A /\ step[<<s, n>>] = Body(s, n)
  <2> SUFFICES ASSUME NEW s \in A, NEW n \in 1..N
               PROVE  Body(s, n) \in A /\ step[<<s, n>>] = Body(s, n)
    OBVIOUS
  <2>1. Append(s, fs[n]) \in A
    BY <1>0
  <2>2. Body(s, n) \in A
    BY <2>1
  <2>3. step[<<s, n>>] = Body(s, n)
    <3> HIDE DEF Body
    <3> QED OBVIOUS
  <2> QED BY <2>2, <2>3
<1> HIDE DEF Body
<1>2. step \in [A \X (1..N) -> A]
  BY <1>1
<1> HIDE DEF step, A
<1>3. PICK f \in [0..N -> A] : Loop(f, N, << >>, step)
  BY <1>0, <1>2, Recursion, Zenon
<1>4. \A n \in 1..N : f[n] = Body(f[n - 1], n)
  <2> SUFFICES ASSUME NEW n \in 1..N PROVE f[n] = Body(f[n - 1], n)
    OBVIOUS
  <2>1. n - 1 \in 0..N
    BY <1>0
  <2> QED BY <2>1, <1>3, <1>1 DEF Loop
<1>5. OverlappingTo(f, fs, begin, end)
  <2>1. f = [n \in 0..N |-> IF n = 0 THEN << >> ELSE Body(f[n - 1], n)]
    BY <1>3, <1>4 DEF Loop
  <2> QED BY <2>1 DEF OverlappingTo, Body, In
<1>6. OverlappingTo(g, fs, begin, end)
  BY <1>5
<1>7. Overlapping(fs, begin, end) = g[N]
  BY DEF Overlapping, OverlappingTo
<1>8. g[0] = << >> /\ \A n \in 1..N : g[n] = Body(g[n - 1], n)
  <2>1. g = [n \in 0..N |-> IF n = 0 THEN << >> ELSE Body(g[n - 1], n)]
    <3> HIDE DEF g
    <3> QED BY <1>6 DEF OverlappingTo, Body, In
  <2> HIDE DEF g
  <2> QED BY <2>1, <1>0
<1> HIDE DEF g
<1>9. \A n \in 0..N : g[n] \in A
  <2> DEFINE G == {n \in 0..N : g[n] \in A}
  <2>1. 0 \in G
    BY <1>0, <1>8
  <2>2. ASSUME NEW n \in 1..N, n - 1 \in G PROVE n \in G
    <3>1. n \in 0..N /\ g[n - 1] \in A
      BY <2>2, <1>0
    <3> QED BY <3>1, <1>1, <1>8
  <2>3. 0..N \subseteq G
    <3> HIDE DEF G
    <3> QED BY <2>1, <2>2, <1>0, Steps
  <2> QED BY <2>3
<1> QED
  BY <1>0, <1>7, <1>9 DEF A

\* What is taken of a level is taken from its files.
LEMMA InputsAre ==
  ASSUME NEW files, NEW v, NEW level \in Nat, v.files[level] \in Seq(files),
         NEW begin, NEW end
  PROVE  GetOverlappingInputs(v, level, begin, end) \in Seq(Range(v.files[level]))
<1>1. \A b, e : Overlapping(v.files[level], b, e) \in Seq(Range(v.files[level]))
  BY OverlappingIs
<1>2. \E b, e : GetOverlappingInputs(v, level, begin, end) = Overlapping(v.files[level], b, e)
  <2>1. CASE level > 0
    BY <2>1 DEF GetOverlappingInputs
  <2>2. CASE level = 0
    <3>1. \E r : GetOverlappingInputs(v, level, begin, end)
                   = IF level > 0 THEN Overlapping(v.files[level], begin, end)
                     ELSE Overlapping(v.files[0], r[1], r[2])
      BY DEF GetOverlappingInputs
    <3>2. ~(level > 0)
      BY <2>2
    <3> QED BY <3>1, <3>2, <2>2
  <2> QED BY <2>1, <2>2
<1> QED
  BY <1>1, <1>2

LEMMA NoFilesNoBytes == TotalFileSize(<< >>) = 0
<1> DEFINE Def(f) == f = [n \in 0..Len(<< >>) |-> IF n = 0 THEN 0 ELSE f[n - 1] + << >>[n].size]
           g == CHOOSE f : Def(f)
           h == [n \in {0} |-> 0]
<1>1. 0..Len(<< >>) = {0}
  OBVIOUS
<1>2. Def(h)
  BY <1>1
<1>3. Def(g)
  <2> HIDE DEF Def, h
  <2> QED BY <1>2
<1>4. TotalFileSize(<< >>) = g[0]
  BY DEF TotalFileSize
<1>5. g[0] = 0
  <2> HIDE DEF g
  <2> QED BY <1>1, <1>3
<1> QED
  BY <1>4, <1>5

\* The recursion of MaxBytesForLevel.
LimitsTo(f, level) ==
  f = [l \in 0..level |-> IF l > 1 THEN LevelFactor * f[l - 1] ELSE LevelOneSize]

LEMMA LimitsArePositive ==
  ASSUME NEW level \in Nat
  PROVE  MaxBytesForLevel(level) \in Nat \ {0}
<1> DEFINE A == Nat \ {0}
           Body(x, l) == IF l > 1 THEN LevelFactor * x ELSE LevelOneSize
           step == [p \in A \X (1..level) |-> Body(p[1], p[2])]
           g == CHOOSE f : LimitsTo(f, level)
<1>0. LevelFactor \in A /\ LevelOneSize \in A
  BY LevelFilesAssumption
<1>1. \A x \in A, l \in 1..level : Body(x, l) \in A /\ step[<<x, l>>] = Body(x, l)
  <2> SUFFICES ASSUME NEW x \in A, NEW l \in 1..level
               PROVE  Body(x, l) \in A /\ step[<<x, l>>] = Body(x, l)
    OBVIOUS
  <2>1. LevelFactor * x \in A
    BY <1>0
  <2>2. Body(x, l) \in A
    BY <2>1, <1>0
  <2>3. step[<<x, l>>] = Body(x, l)
    <3> HIDE DEF Body
    <3> QED OBVIOUS
  <2> QED BY <2>2, <2>3
<1> HIDE DEF Body
<1>2. step \in [A \X (1..level) -> A]
  BY <1>1
<1> HIDE DEF step, A
<1>3. PICK f \in [0..level -> A] : Loop(f, level, LevelOneSize, step)
  BY <1>0, <1>2, Recursion, Zenon
<1>4. \A n \in 1..level : f[n] = Body(f[n - 1], n)
  <2> SUFFICES ASSUME NEW n \in 1..level PROVE f[n] = Body(f[n - 1], n)
    OBVIOUS
  <2>1. n - 1 \in 0..level
    OBVIOUS
  <2> QED BY <2>1, <1>3, <1>1 DEF Loop
<1>5. LimitsTo(f, level)
  <2>1. \A l \in 0..level :
          f[l] = IF l > 1 THEN LevelFactor * f[l - 1] ELSE LevelOneSize
    BY <1>3, <1>4 DEF Body, Loop
  <2>2. f = [l \in 0..level |-> f[l]]
    OBVIOUS
  <2> QED BY <2>1, <2>2 DEF LimitsTo
<1>6. LimitsTo(g, level)
  BY <1>5
<1>7. MaxBytesForLevel(level) = g[level]
  BY DEF MaxBytesForLevel, LimitsTo
<1>8. g[0] = LevelOneSize /\ \A n \in 1..level : g[n] = Body(g[n - 1], n)
  <2> HIDE DEF g
  <2> QED BY <1>6 DEF LimitsTo, Body
<1> HIDE DEF g
<1>9. \A n \in 0..level : g[n] \in A
  <2> DEFINE G == {n \in 0..level : g[n] \in A}
  <2>1. 0 \in G
    BY <1>0, <1>8
  <2>2. ASSUME NEW n \in 1..level, n - 1 \in G PROVE n \in G
    <3>1. n \in 0..level /\ g[n - 1] \in A
      BY <2>2, <1>0
    <3> QED BY <3>1, <1>1, <1>8
  <2>3. 0..level \subseteq G
    <3> HIDE DEF G
    <3> QED BY <2>1, <2>2, <1>0, Steps
  <2> QED BY <2>3
<1> QED
  BY <1>7, <1>9 DEF A

LEMMA Widen ==
  ASSUME NEW S, NEW T, S \subseteq T, NEW s \in Seq(S)
  PROVE  s \in Seq(T)
<1>1. Len(s) \in Nat /\ DOMAIN s = 1..Len(s) /\ \A i \in 1..Len(s) : s[i] \in T
  OBVIOUS
<1>2. s = [i \in 1..Len(s) |-> s[i]]
  BY <1>1
<1> QED
  BY <1>1, <1>2

\* Of two files visited the first has a level below it: above level 0 there is one of a level.
LEMMA VisitsAre ==
  ASSUME NEW files, Distinct(files), NEW v, v.files \in [Levels -> Seq(files)], NEW key
  PROVE  /\ ForEachOverlapping(v, key) \in Seq([level : Levels, file : files])
         /\ Len(ForEachOverlapping(v, key)) >= 2
              => Compactable(v, ForEachOverlapping(v, key)[1])
<1> DEFINE at(level) == IF level = 0 THEN NewestFirst(v.files[0], User(key))
                                     ELSE FileAt(v.files[level], key)
           visits(level) == [i \in DOMAIN at(level) |-> [level |-> level, file |-> at(level)[i]]]
           V == {x \in [level : Levels, file : files] : x.file \in Range(v.files[x.level])}
           Def(f) == f = [n \in 0..NumLevels |-> IF n = 0 THEN << >> ELSE f[n - 1] \o visits(n - 1)]
           g == CHOOSE f : Def(f)
           A == Seq(V)
           step == [p \in A \X (1..NumLevels) |-> p[1] \o visits(p[2] - 1)]
<1>0. NumLevels \in Nat /\ NumLevels >= 2 /\ << >> \in A
  BY LevelFilesAssumption
<1>1. ASSUME NEW l \in Levels
      PROVE  /\ at(l) \in Seq(Range(v.files[l]))
             /\ l > 0 => Len(at(l)) <= 1
  <2>0. v.files[l] \in Seq(files)
    OBVIOUS
  <2>1. CASE l = 0
    BY <2>0, <2>1, NewestInOrder
  <2>2. CASE l # 0
    <3>1. FileAt(v.files[l], key) = << >> \/ \E i \in DOMAIN v.files[l] : FileAt(v.files[l], key) = <<v.files[l][i]>>
      BY DEF FileAt
    <3>2. CASE FileAt(v.files[l], key) = << >>
      BY <3>2, <2>2
    <3>3. ASSUME NEW i \in DOMAIN v.files[l], FileAt(v.files[l], key) = <<v.files[l][i]>>
          PROVE  at(l) \in Seq(Range(v.files[l])) /\ Len(at(l)) <= 1
      BY <3>3, <2>2 DEF Range
    <3> QED BY <3>1, <3>2, <3>3
  <2> QED BY <2>1, <2>2
<1>2. ASSUME NEW l \in Levels
      PROVE  /\ visits(l) \in Seq(V) /\ (l > 0 => Len(visits(l)) <= 1)
             /\ \A i \in DOMAIN visits(l) : visits(l)[i].level = l
  <2> HIDE DEF at
  <2>1. DOMAIN at(l) = 1..Len(at(l)) /\ Len(at(l)) \in Nat
    BY <1>1
  <2>2. ASSUME NEW i \in DOMAIN at(l) PROVE at(l)[i] \in Range(v.files[l]) /\ at(l)[i] \in files
    <3>1. at(l)[i] \in Range(v.files[l])
      BY <1>1
    <3>2. Range(v.files[l]) \subseteq files
      BY RangeFinite
    <3> QED BY <3>1, <3>2
  <2>3. \A i \in DOMAIN at(l) : [level |-> l, file |-> at(l)[i]] \in V
    BY <2>2
  <2> QED BY <1>1, <2>1, <2>3
<1> HIDE DEF at, visits
<1>3. \A n \in 1..NumLevels : n - 1 \in Levels
  BY <1>0 DEF Levels
<1>4. \A s \in A, n \in 1..NumLevels : s \o visits(n - 1) \in A
  BY <1>2, <1>3
<1>5. /\ step \in [A \X (1..NumLevels) -> A]
      /\ \A s \in A, n \in 1..NumLevels : step[<<s, n>>] = s \o visits(n - 1)
  <2> HIDE DEF A
  <2> QED BY <1>4
<1> HIDE DEF step
<1>6. PICK f \in [0..NumLevels -> A] : Loop(f, NumLevels, << >>, step)
  <2> HIDE DEF A
  <2> QED BY <1>0, <1>5, Recursion, Zenon
<1>7. Def(f)
  <2> HIDE DEF A
  <2>1. \A n \in 0..NumLevels : f[n] = IF n = 0 THEN << >> ELSE f[n - 1] \o visits(n - 1)
    <3> SUFFICES ASSUME NEW n \in 0..NumLevels
                 PROVE  f[n] = IF n = 0 THEN << >> ELSE f[n - 1] \o visits(n - 1)
      OBVIOUS
    <3>1. CASE n = 0
      BY <3>1, <1>6 DEF Loop
    <3>2. CASE n # 0
      <4>1. n \in 1..NumLevels /\ n - 1 \in 0..NumLevels
        BY <3>2, <1>0
      <4> QED BY <4>1, <3>2, <1>5, <1>6 DEF Loop
    <3> QED BY <3>1, <3>2
  <2> QED BY <2>1
<1>8. Def(g)
  <2> HIDE DEF Def
  <2> QED BY <1>7
<1>9. ForEachOverlapping(v, key) = g[NumLevels]
  BY DEF ForEachOverlapping, at, visits
<1> HIDE DEF g
<1>10. g[0] = << >> /\ \A n \in 1..NumLevels : g[n] = g[n - 1] \o visits(n - 1)
  <2>1. g = [n \in 0..NumLevels |-> IF n = 0 THEN << >> ELSE g[n - 1] \o visits(n - 1)]
    BY <1>8
  <2>2. \A n \in 0..NumLevels : g[n] = IF n = 0 THEN << >> ELSE g[n - 1] \o visits(n - 1)
    BY <2>1
  <2>3. 0 \in 0..NumLevels /\ \A n \in 1..NumLevels : n \in 0..NumLevels /\ n # 0
    BY <1>0
  <2> HIDE DEF Def
  <2> QED BY <2>2, <2>3
<1> DEFINE First(n) == /\ g[n] \in Seq(V)
                       /\ g[n] # << >> => g[n][1].level < n
                       /\ Len(g[n]) >= 2 => g[n][1].level <= NumLevels - 2
           G == {n \in 0..NumLevels : First(n)}
<1>11. 0 \in G
  <2>1. << >> \in Seq(V) /\ 0 \in 0..NumLevels
    BY <1>0
  <2>2. g[0] \in Seq(V) /\ g[0] = << >> /\ Len(g[0]) = 0
    BY <2>1, <1>10
  <2> HIDE DEF V, g
  <2>3. Len(g[0]) >= 2 => g[0][1].level <= NumLevels - 2
    BY <2>2
  <2>4. First(0)
    BY <2>2, <2>3
  <2> HIDE DEF First
  <2> QED BY <2>1, <2>4
<1>12. ASSUME NEW n \in 1..NumLevels, n - 1 \in G PROVE n \in G
  <2> DEFINE s == g[n - 1]
             t == visits(n - 1)
  <2>1. n - 1 \in Levels /\ First(n - 1)
    BY <1>3, <1>12
  <2>2. t \in Seq(V) /\ (n - 1 > 0 => Len(t) <= 1) /\ \A i \in DOMAIN t : t[i].level = n - 1
    BY <2>1, <1>2
  <2>3. g[n] = s \o t /\ s \in Seq(V)
    BY <2>1, <1>10
  <2> HIDE DEF t, V
  <2>4. CASE s = << >>
    <3>1. g[n] = t
      BY <2>2, <2>3, <2>4
    <3>2. t # << >> => t[1].level = n - 1
      BY <2>2
    <3>3. Len(t) >= 2 => n - 1 <= NumLevels - 2
      BY <2>1, <2>2, <1>0 DEF Levels
    <3>4. t # << >> => n - 1 < n
      BY <2>1 DEF Levels
    <3>5. First(n)
      <4>1. t \in Seq(V) /\ (Len(t) >= 2 => t # << >>)
        BY <2>2
      <4> QED BY <3>1, <3>2, <3>3, <3>4, <4>1
    <3> QED BY <3>5, <1>0
  <2>5. CASE s # << >>
    <3>1. g[n] \in Seq(V) /\ g[n] # << >> /\ g[n][1] = s[1]
      BY <2>2, <2>3, <2>5
    <3>2. s[1].level < n - 1 /\ s[1].level \in Nat
      <4>1. s[1] \in V
        BY <2>3, <2>5
      <4> QED BY <4>1, <2>1, <2>5 DEF V, Levels
    <3>3. s[1].level < n /\ s[1].level <= NumLevels - 2
      BY <3>2, <1>0
    <3>4. First(n)
      <4>1. PICK x, y : x = g[n] /\ y = s[1]
        OBVIOUS
      <4> QED BY <3>1, <3>3, <4>1
    <3> QED BY <3>4, <1>0
  <2> QED BY <2>4, <2>5
<1>13. NumLevels \in G
  <2> HIDE DEF G
  <2>1. 0..NumLevels \subseteq G
    BY <1>0, <1>11, <1>12, Steps
  <2> QED BY <2>1, <1>0
<1> DEFINE s == g[NumLevels]
<1>a. s \in Seq(V)
  BY <1>13
<1>b. s \in Seq([level : Levels, file : files])
  <2>1. V \subseteq [level : Levels, file : files]
    OBVIOUS
  <2> HIDE DEF s, V
  <2> QED BY <1>a, <2>1, Widen
<1> SUFFICES ASSUME Len(s) >= 2 PROVE Compactable(v, s[1])
  BY <1>9, <1>b
<1>14. s \in Seq(V) /\ s[1].level <= NumLevels - 2
  BY <1>13
<1>15. s[1] \in V
  <2> HIDE DEF V, s
  <2> QED BY <1>14
<1>16. PICK x : x = s[1]
  OBVIOUS
<1> HIDE DEF s
<1>17. x.level \in Levels /\ x.file \in Range(v.files[x.level]) /\ x.level <= NumLevels - 2
  BY <1>14, <1>15, <1>16
<1> QED
  BY <1>16, <1>17, <1>0 DEF Compactable, Levels

\* So the file that a read charges for its seek can be compacted.
LEMMA ChargedIs ==
  ASSUME NEW files, Distinct(files), NEW v, v.files \in [Levels -> Seq(files)], NEW key, NEW ts
  PROVE  /\ Charged(v, key, ts) = None \/ Compactable(v, Charged(v, key, ts))
         /\ RecordReadSample(v, key) = None \/ Compactable(v, RecordReadSample(v, key))
<1> DEFINE visits == ForEachOverlapping(v, key)
           hits == {i \in DOMAIN visits : SaveValue(ts[visits[i].file.number], key) # {}}
<1>1. /\ Len(visits) >= 2 => Compactable(v, visits[1])
      /\ visits \in Seq([level : Levels, file : files])
  BY VisitsAre
<1>2. FirstHit(visits, key, ts) > 1 => Len(visits) >= 2
  <2> SUFFICES ASSUME FirstHit(visits, key, ts) > 1 PROVE Len(visits) >= 2
    OBVIOUS
  <2> HIDE DEF visits
  <2>1. CASE hits = {}
    BY <2>1, <1>1 DEF FirstHit
  <2>2. CASE hits # {}
    <3>1. hits \subseteq 1..Len(visits) /\ hits \subseteq Nat /\ Len(visits) \in Nat
      BY <1>1
    <3>2. FirstHit(visits, key, ts) = Min(hits)
      BY <2>2 DEF FirstHit
    <3> HIDE DEF hits
    <3>3. Min(hits) \in hits
      BY <3>1, <2>2, MinIs
    <3>4. Min(hits) \in 1..Len(visits) /\ Min(hits) > 1
      BY <3>1, <3>2, <3>3
    <3> QED BY <3>1, <3>4
  <2> QED BY <2>1, <2>2
<1> HIDE DEF visits
<1> QED
  BY <1>1, <1>2 DEF Charged, RecordReadSample, visits

\* The level found most in need of a compaction has files, and a level below it.
LEMMA Finalized ==
  ASSUME NEW files, NEW fs \in [Levels -> Seq(files)]
  PROVE  VersionOK(Finalize(Version(fs)), files) /\ Finalize(Version(fs)).files = fs
<1> DEFINE v == Version(fs)
           N == NumLevels - 1
           Scored(l) == [files |-> fs, toCompact |-> None, level |-> l, score |-> ScoreOf(v, l)]
           A == {v} \cup {Scored(l) : l \in 0..(NumLevels - 2)}
           Def(f) == f = [n \in 0..N |->
                            IF n = 0 THEN v ELSE The({Better(b, n - 1) : b \in {f[n - 1]}})]
           g == CHOOSE f : Def(f)
           step == [p \in A \X (1..N) |-> Better(p[1], p[2] - 1)]
<1>0. NumLevels \in Nat /\ NumLevels >= 2 /\ N \in Nat /\ v \in A
  BY LevelFilesAssumption
<1>1. v = [files |-> fs, toCompact |-> None, level |-> -1, score |-> <<-1, 1>>]
  BY DEF Version
<1>2. \A w \in A : w.files = fs
  BY <1>1
<1>3. ASSUME NEW w \in A, NEW l \in 0..(NumLevels - 2) PROVE Better(w, l) \in A
  <2>1. ScoreOf(w, l) = ScoreOf(v, l)
    BY <1>1, <1>2 DEF ScoreOf, NumLevelFiles
  <2>2. [w EXCEPT !.level = l, !.score = ScoreOf(v, l)] = Scored(l)
    <3>1. PICK x, y : w = [files |-> fs, toCompact |-> None, level |-> x, score |-> y]
      BY <1>1
    <3>2. PICK z : z = ScoreOf(v, l)
      OBVIOUS
    <3>3. [w EXCEPT !.level = l, !.score = z]
             = [files |-> fs, toCompact |-> None, level |-> l, score |-> z]
      <4>1. PICK u : u = [w EXCEPT !.level = l]
        OBVIOUS
      <4> HIDE DEF A, v
      <4>2. u = [files |-> fs, toCompact |-> None, level |-> l, score |-> y]
        BY <3>1, <4>1
      <4>3. [u EXCEPT !.score = z] = [files |-> fs, toCompact |-> None, level |-> l, score |-> z]
        BY <4>2
      <4>4. [w EXCEPT !.level = l, !.score = z] = [u EXCEPT !.score = z]
        BY <4>1
      <4> QED BY <4>3, <4>4
    <3> QED BY <3>2, <3>3
  <2>3. Better(w, l) = w \/ Better(w, l) = Scored(l)
    BY <2>1, <2>2 DEF Better
  <2> QED BY <2>3
<1> HIDE DEF A
<1>4. \A n \in 1..N : n - 1 \in 0..(NumLevels - 2)
  BY <1>0
<1>5. /\ step \in [A \X (1..N) -> A]
      /\ \A w \in A, n \in 1..N : step[<<w, n>>] = Better(w, n - 1)
  BY <1>3, <1>4
<1> HIDE DEF step
<1>6. PICK f \in [0..N -> A] : Loop(f, N, v, step)
  <2> HIDE DEF v, N
  <2> QED BY <1>0, <1>5, Recursion, Zenon
<1>7. \A w, n : The({Better(b, n) : b \in {w}}) = Better(w, n)
  <2>1. \A w, n : {Better(b, n) : b \in {w}} = {Better(w, n)}
    OBVIOUS
  <2> QED BY <2>1, TheOne
<1> HIDE DEF v
<1>8. Def(f)
  <2>1. \A n \in 0..N : f[n] = IF n = 0 THEN v ELSE The({Better(b, n - 1) : b \in {f[n - 1]}})
    <3> SUFFICES ASSUME NEW n \in 0..N
                 PROVE  f[n] = IF n = 0 THEN v ELSE The({Better(b, n - 1) : b \in {f[n - 1]}})
      OBVIOUS
    <3>1. CASE n = 0
      BY <3>1, <1>6 DEF Loop
    <3>2. CASE n # 0
      <4>1. n \in 1..N /\ n - 1 \in 0..N
        BY <3>2, <1>0
      <4>2. f[n] = Better(f[n - 1], n - 1)
        BY <4>1, <1>5, <1>6 DEF Loop
      <4> QED BY <4>2, <3>2, <1>7
    <3> QED BY <3>1, <3>2
  <2> QED BY <2>1
<1>9. Def(g)
  <2> HIDE DEF Def
  <2> QED BY <1>8
<1>10. Finalize(v) = g[N]
  BY DEF Finalize
<1> HIDE DEF g
<1>11. g[0] = v /\ \A n \in 1..N : g[n] = Better(g[n - 1], n - 1)
  <2>1. \A n \in 0..N : g[n] = IF n = 0 THEN v ELSE The({Better(b, n - 1) : b \in {g[n - 1]}})
    <3>1. g = [n \in 0..N |-> IF n = 0 THEN v ELSE The({Better(b, n - 1) : b \in {g[n - 1]}})]
      BY <1>9
    <3> QED BY <3>1
  <2>2. 0 \in 0..N /\ \A n \in 1..N : n \in 0..N /\ n # 0
    BY <1>0
  <2> HIDE DEF Def, N
  <2> QED BY <2>1, <2>2, <1>7
<1> DEFINE G == {n \in 0..N : g[n] \in A}
<1>12. 0 \in G
  BY <1>0, <1>11
<1>13. ASSUME NEW n \in 1..N, n - 1 \in G PROVE n \in G
  <2>1. g[n - 1] \in A /\ n \in 0..N
    BY <1>13, <1>0
  <2> QED BY <2>1, <1>3, <1>4, <1>11
<1>14. N \in G
  <2> HIDE DEF G, N
  <2>1. 0..N \subseteq G
    BY <1>0, <1>12, <1>13, Steps
  <2> QED BY <2>1, <1>0
<1>15. Finalize(v) \in A
  BY <1>10, <1>14
<1> SUFFICES ASSUME NEW w \in A PROVE VersionOK(w, files) /\ w.files = fs
  BY <1>15 DEF v
<1>16. CASE w = v
  <2>1. ~SizeCompaction(w)
    BY <1>16, <1>1 DEF SizeCompaction
  <2> QED BY <2>1, <1>16, <1>1 DEF VersionOK
<1>17. ASSUME NEW l \in 0..(NumLevels - 2), w = Scored(l) PROVE VersionOK(w, files) /\ w.files = fs
  <2>1. ASSUME fs[l] = << >> PROVE ~SizeCompaction(w)
    <3>1. CASE l = 0
      <4>1. w.score = <<0, CompactionTrigger>>
        BY <3>1, <2>1, <1>17, <1>1 DEF ScoreOf, NumLevelFiles
      <4> QED BY <4>1, LevelFilesAssumption DEF SizeCompaction
    <3>2. CASE l # 0
      <4>1. w.score = <<0, MaxBytesForLevel(l)>>
        BY <3>2, <2>1, <1>17, <1>1, NoFilesNoBytes DEF ScoreOf
      <4>2. MaxBytesForLevel(l) \in Nat \ {0}
        BY LimitsArePositive
      <4> QED BY <4>1, <4>2 DEF SizeCompaction
    <3> QED BY <3>1, <3>2
  <2>2. /\ DOMAIN w = {"files", "toCompact", "level", "score"}
        /\ w.files = fs /\ w.toCompact = None /\ w.level = l
    BY <1>17
  <2> QED BY <2>1, <2>2 DEF VersionOK
<1> QED
  BY <1>16, <1>17 DEF A

\* The files of tables that are typed have a number and a smallest key each.
LEMMA ProperDistinct ==
  ASSUME NEW ts, NEW unfinished, DOMAIN ts \subseteq Nat,
         \A n \in DOMAIN ts : ts[n] \in Data \ {{}}
  PROVE  Distinct(Proper(ts, unfinished))
<1> SUFFICES ASSUME NEW n \in DOMAIN ts, NEW m \in DOMAIN ts,
                    NEW f, f = FileOver(n, InKeyOrder(ts[n])),
                    NEW g, g = FileOver(m, InKeyOrder(ts[m]))
             PROVE  /\ f.number \in Nat /\ f.smallest \in Entry
                    /\ f.number = g.number => f = g
  BY DEF Distinct, Proper
<1>1. f.number = n /\ g.number = m /\ f.smallest = InKeyOrder(ts[n])[1]
  BY DEF FileOver
<1>2. InKeyOrder(ts[n])[1] \in ts[n]
  BY EntriesInOrder
<1>3. ts[n] \subseteq Entry
  BY DEF Data
<1> QED
  BY <1>1, <1>2, <1>3

\* What is finished stays as it is.
LEMMA ProperStays ==
  ASSUME NEW ts, NEW ps, NEW ts2, NEW ps2,
         \A n \in DOMAIN ts \ ps : n \in DOMAIN ts2 \ ps2 /\ ts2[n] = ts[n]
  PROVE  Proper(ts, ps) \subseteq Proper(ts2, ps2)
  BY DEF Proper

LEMMA Rebased ==
  ASSUME NEW P, NEW Q, NEW v, VersionOK(v, P),
         \A l \in Levels : Range(v.files[l]) \subseteq Q
  PROVE  VersionOK(v, Q)
<1>1. ASSUME NEW l \in Levels PROVE v.files[l] \in Seq(Q)
  <2>1. PICK s \in Seq(P) : s = v.files[l]
    BY DEF VersionOK
  <2>2. s \in Seq(Range(s))
    <3>1. Len(s) \in Nat /\ DOMAIN s = 1..Len(s) /\ \A i \in 1..Len(s) : s[i] \in Range(s)
      BY DEF Range
    <3>2. s = [i \in 1..Len(s) |-> s[i]]
      BY <3>1
    <3> QED BY <3>1, <3>2
  <2> QED BY <2>1, <2>2, Widen
<1>2. v.files \in [Levels -> Seq(Q)]
  <2>1. v.files = [l \in Levels |-> v.files[l]]
    BY DEF VersionOK
  <2> QED BY <1>1, <2>1
<1> QED
  BY <1>2 DEF VersionOK

LEMMA OKStays ==
  ASSUME NEW vs, NEW P, NEW Q, AllOK(vs, P), P \subseteq Q
  PROVE  AllOK(vs, Q)
<1> SUFFICES ASSUME NEW id \in DOMAIN vs PROVE VersionOK(vs[id], Q)
  BY DEF AllOK
<1>1. VersionOK(vs[id], P)
  BY DEF AllOK
<1>2. ASSUME NEW l \in Levels PROVE Range(vs[id].files[l]) \subseteq Q
  <2>1. vs[id].files[l] \in Seq(P)
    BY <1>1 DEF VersionOK
  <2> QED BY <2>1, RangeFinite
<1> QED
  BY <1>1, <1>2, Rebased

\* Files that no version lists may go.
LEMMA OKAfterDeletion ==
  ASSUME NEW vs, NEW ts, NEW ps, AllOK(vs, Proper(ts, ps)), NEW ts2,
         \A n \in AddLiveFiles(Range(vs)) : n \in DOMAIN ts => n \in DOMAIN ts2 /\ ts2[n] = ts[n]
  PROVE  AllOK(vs, Proper(ts2, ps))
<1> SUFFICES ASSUME NEW id \in DOMAIN vs PROVE VersionOK(vs[id], Proper(ts2, ps))
  BY DEF AllOK
<1>1. VersionOK(vs[id], Proper(ts, ps)) /\ vs[id] \in Range(vs)
  BY DEF AllOK, Range
<1>2. ASSUME NEW l \in Levels, NEW f \in Range(vs[id].files[l]) PROVE f \in Proper(ts2, ps)
  <2>1. f \in Proper(ts, ps)
    <3>1. vs[id].files[l] \in Seq(Proper(ts, ps))
      BY <1>1 DEF VersionOK
    <3> QED BY <3>1, RangeFinite
  <2>2. PICK n \in DOMAIN ts \ ps : f = FileOver(n, InKeyOrder(ts[n]))
    BY <2>1 DEF Proper
  <2>3. f.number = n
    BY <2>2 DEF FileOver
  <2>4. n \in AddLiveFiles(Range(vs))
    BY <1>1, <2>3 DEF AddLiveFiles
  <2> QED BY <2>2, <2>4 DEF Proper
<1> QED
  BY <1>1, <1>2, Rebased

\* An edit that adds finished files makes a version of finished files.
LEMMA NextVersionOK ==
  ASSUME NEW P, Distinct(P), NEW base, VersionOK(base, P), NEW edit,
         IsFiniteSet(Range(edit.added)), \A a \in Range(edit.added) : a.file \in P
  PROVE  VersionOK(NextVersion(base, edit), P)
<1> DEFINE builder == Apply(EmptyBuilder, edit)
           new(l) == {a.file : a \in {b \in Range(edit.added) : b.level = l}}
           kept(l) == {f \in Range(base.files[l]) \cup builder.added[l] : MaybeAddFile(builder, l, f)}
           fs == [l \in Levels |-> InFileOrder(kept(l))]
<1>1. \A l \in Levels : builder.added[l] = new(l)
  BY DEF Apply, EmptyBuilder
<1>2. \A l \in Levels : IsFiniteSet(new(l)) /\ new(l) \subseteq P
  <2> SUFFICES ASSUME NEW l \in Levels PROVE IsFiniteSet(new(l)) /\ new(l) \subseteq P
    OBVIOUS
  <2> DEFINE S == {b \in Range(edit.added) : b.level = l}
  <2>1. IsFiniteSet(S)
    <3>1. S \in SUBSET Range(edit.added)
      OBVIOUS
    <3> HIDE DEF S
    <3> QED BY <3>1, FS_Subset
  <2>2. IsFiniteSet({a.file : a \in S})
    <3> DEFINE h == [a \in S |-> a.file]
               T == {a.file : a \in S}
    <3>1. h \in Surjection(S, T)
      <4> HIDE DEF S
      <4> QED BY DEF Surjection
    <3> HIDE DEF S, T, h
    <3>2. IsFiniteSet(T)
      BY <2>1, <3>1, FS_Surjection
    <3> QED BY <3>2 DEF T
  <2> QED BY <2>2
<1>3. ASSUME NEW l \in Levels PROVE InFileOrder(kept(l)) \in Seq(P)
  <2>1. base.files[l] \in Seq(P)
    BY DEF VersionOK
  <2>2. IsFiniteSet(Range(base.files[l])) /\ Range(base.files[l]) \subseteq P
    BY <2>1, RangeFinite
  <2>3. IsFiniteSet(Range(base.files[l]) \cup new(l))
    <3> HIDE DEF new
    <3> QED BY <2>2, <1>2, FS_Union
  <2>4. kept(l) \in SUBSET (Range(base.files[l]) \cup new(l))
    BY <1>1
  <2>5. IsFiniteSet(kept(l)) /\ kept(l) \subseteq P
    <3> HIDE DEF kept, new
    <3> QED BY <2>2, <2>3, <2>4, <1>2, FS_Subset
  <2>6. Distinct(kept(l))
    <3> HIDE DEF kept
    <3> QED BY <2>5 DEF Distinct
  <2>7. InFileOrder(kept(l)) \in Seq(kept(l))
    <3> HIDE DEF kept
    <3> QED BY <2>5, <2>6, FilesInOrder
  <2> HIDE DEF kept
  <2> QED BY <2>5, <2>7, Widen
<1>4. fs \in [Levels -> Seq(P)]
  BY <1>3
<1>5. SaveTo(base, builder) = Version(fs)
  BY DEF SaveTo
<1>6. NextVersion(base, edit) = Finalize(SaveTo(base, builder))
  <2>1. {Finalize(v) : v \in {SaveTo(base, b) : b \in {Apply(EmptyBuilder, edit)}}}
          = {Finalize(SaveTo(base, builder))}
    OBVIOUS
  <2> QED BY <2>1, TheOne DEF NextVersion
<1> HIDE DEF builder, fs
<1> QED
  BY <1>4, <1>5, <1>6, Finalized

LEMMA BoundaryInputsAre ==
  ASSUME NEW files, Distinct(files), NEW fs \in Seq(files), NEW inputs \in Seq(Range(fs))
  PROVE  AddBoundaryInputs(fs, inputs) \in Seq(Range(fs))
<1> SUFFICES ASSUME NEW S, S \subseteq Range(fs)
             PROVE  inputs \o InFileOrder(S) \in Seq(Range(fs))
  <2>1. \E S : /\ S \subseteq Range(fs)
               /\ AddBoundaryInputs(fs, inputs) \in {inputs, inputs \o InFileOrder(S)}
    BY DEF AddBoundaryInputs
  <2> QED BY <2>1
<1>1. IsFiniteSet(S) /\ S \subseteq files
  BY RangeFinite, FS_Subset
<1>2. Distinct(S)
  BY <1>1 DEF Distinct
<1>3. InFileOrder(S) \in Seq(Range(fs))
  BY <1>1, <1>2, FilesInOrder, Widen
<1> QED
  BY <1>3

LEMMA OverlapsAre ==
  ASSUME NEW files, NEW v, NEW level \in Nat, v.files[level] \in Seq(files), NEW range
  PROVE  Overlaps(v, level, range) \in Seq(Range(v.files[level]))
<1>1. {GetOverlappingInputs(v, level, User(r.smallest), User(r.largest)) : r \in {range}}
        = {GetOverlappingInputs(v, level, User(range.smallest), User(range.largest))}
  OBVIOUS
<1>2. PICK b, e : Overlaps(v, level, range) = GetOverlappingInputs(v, level, b, e)
  BY <1>1, TheOne DEF Overlaps
<1> QED
  BY <1>2, InputsAre

LEMMA SetupIs ==
  ASSUME NEW files, Distinct(files), NEW v, v.files \in [Levels -> Seq(files)],
         NEW level \in 0..(NumLevels - 2), NEW picked \in Seq(Range(v.files[level]))
  PROVE  CompactionOf(v, SetupOtherInputs(v, level, picked))
<1> DEFINE Above == Seq(Range(v.files[level]))
           Below == Seq(Range(v.files[level + 1]))
<1>0. /\ level \in Nat /\ level + 1 \in Nat
      /\ v.files[level] \in Seq(files) /\ v.files[level + 1] \in Seq(files)
  <2>1. level \in Levels /\ level + 1 \in Levels
    BY LevelFilesAssumption DEF Levels
  <2>2. level \in Nat
    BY LevelFilesAssumption
  <2> QED BY <2>1, <2>2
<1>1. PICK taken : taken = AddBoundaryInputs(v.files[level], picked)
  OBVIOUS
<1>2. taken \in Above
  BY <1>0, <1>1, BoundaryInputsAre
<1>3. PICK first : first = FirstInputs(v, level, taken)
  OBVIOUS
<1>4. first \in Above \X Below
  <2>1. Overlaps(v, level + 1, GetRange(taken)) \in Below
    BY <1>0, OverlapsAre
  <2> QED BY <1>2, <1>3, <2>1 DEF FirstInputs
<1>5. PICK whole : whole = WholeRange(v, level, first)
  OBVIOUS
<1>6. whole \in Above
  BY <1>0, <1>5, OverlapsAre, BoundaryInputsAre DEF WholeRange
<1>7. PICK i : i = Expanded(v, level, first, whole)
  OBVIOUS
<1>8. i \in Above \X Below
  <2>1. Overlaps(v, level + 1, GetRange(whole)) \in Below
    BY <1>0, OverlapsAre
  <2>2. i = first \/ i = <<whole, Overlaps(v, level + 1, GetRange(whole))>>
    BY <1>7 DEF Expanded
  <2> QED BY <1>4, <1>6, <2>1, <2>2
<1>9. SetupOtherInputs(v, level, picked) = Compaction(v, level, i)
  <2>1. {FirstInputs(v, level, f) : f \in {AddBoundaryInputs(v.files[level], picked)}} = {first}
    BY <1>1, <1>3
  <2>2. UNION {{Expanded(v, level, x, f) : f \in {WholeRange(v, level, x)}} : x \in {first}} = {i}
    BY <1>5, <1>7
  <2>3. {Compaction(v, level, x) : x \in {i}} = {Compaction(v, level, i)}
    OBVIOUS
  <2>4. SetupOtherInputs(v, level, picked) = The({Compaction(v, level, x) : x \in {i}})
    BY <2>1, <2>2 DEF SetupOtherInputs
  <2> QED BY <2>3, <2>4, TheOne
<1>10. PICK above \in Above, below \in Below : i = <<above, below>>
  BY <1>8
<1> QED
  BY <1>9, <1>10 DEF CompactionOf

\* What CompactRange and PickCompaction choose.
LEMMA CompactRangeIs ==
  ASSUME NEW files, Distinct(files), NEW v, v.files \in [Levels -> Seq(files)],
         NEW level \in 0..(NumLevels - 2), NEW begin, NEW end
  PROVE  CompactRange(v, level, begin, end) = None
           \/ CompactionOf(v, CompactRange(v, level, begin, end))
<1>1. PICK inputs : inputs = GetOverlappingInputs(v, level, begin, end)
  OBVIOUS
<1>2. inputs \in Seq(Range(v.files[level]))
  <2>1. level \in Nat /\ v.files[level] \in Seq(files)
    BY LevelFilesAssumption DEF Levels
  <2> QED BY <1>1, <2>1, InputsAre
<1>3. UpToLimit(inputs) \in Seq(Range(v.files[level]))
  <2> DEFINE reached == {i \in DOMAIN inputs : TotalFileSize(SubSeq(inputs, 1, i)) >= MaxFileSize}
  <2>1. reached \subseteq 1..Len(inputs) /\ reached \subseteq Nat /\ Len(inputs) \in Nat
    BY <1>2
  <2>2. UpToLimit(inputs) = IF reached = {} THEN inputs ELSE SubSeq(inputs, 1, Min(reached))
    BY DEF UpToLimit
  <2> HIDE DEF reached
  <2>3. CASE reached = {}
    BY <1>2, <2>2, <2>3
  <2>4. CASE reached # {}
    <3>1. Min(reached) \in 1..Len(inputs)
      BY <2>1, <2>4, MinIs
    <3>2. PICK S, m : S = Range(v.files[level]) /\ m = Min(reached)
      OBVIOUS
    <3>3. SubSeq(inputs, 1, m) \in Seq(S)
      <4>1. inputs \in Seq(S) /\ m \in 1..Len(inputs)
        BY <1>2, <3>1, <3>2
      <4> QED BY <4>1
    <3> QED BY <2>2, <2>4, <3>2, <3>3
  <2> QED BY <2>3, <2>4
<1>4. \E picked \in Seq(Range(v.files[level])) :
        CompactRange(v, level, begin, end) \in {None, SetupOtherInputs(v, level, picked)}
  BY <1>1, <1>2, <1>3 DEF CompactRange
<1> QED
  BY <1>4, SetupIs

LEMMA PickCompactionIs ==
  ASSUME NEW files, Distinct(files), NEW v, VersionOK(v, files), NEW ptrs
  PROVE  PickCompaction(v, ptrs) = None \/ CompactionOf(v, PickCompaction(v, ptrs))
<1>0. v.files \in [Levels -> Seq(files)]
  BY DEF VersionOK
<1>1. ASSUME NEW level \in 0..(NumLevels - 2), NEW f \in Range(v.files[level]), NEW inputs,
             inputs = IF level = 0 THEN Overlaps(v, 0, GetRange(<<f>>)) ELSE <<f>>
      PROVE  CompactionOf(v, SetupOtherInputs(v, level, inputs))
  <2>1. level \in Nat /\ v.files[level] \in Seq(files)
    BY <1>0, LevelFilesAssumption DEF Levels
  <2>2. inputs \in Seq(Range(v.files[level]))
    <3>1. CASE level = 0
      BY <2>1, <1>1, <3>1, OverlapsAre
    <3>2. CASE level # 0
      BY <1>1, <3>2
    <3> QED BY <3>1, <3>2
  <2> QED BY <1>0, <2>2, SetupIs
<1>2. CASE SizeCompaction(v)
  <2>1. v.level \in 0..(NumLevels - 2) /\ v.files[v.level] # << >>
    BY <1>2 DEF VersionOK
  <2>2. PickedFile(v.files[v.level], ptrs[v.level]) \in Range(v.files[v.level])
    <3>1. PICK fs, ptr : fs = v.files[v.level] /\ ptr = ptrs[v.level]
      OBVIOUS
    <3>2. fs \in Seq(files) /\ fs # << >>
      BY <1>0, <2>1, <3>1, LevelFilesAssumption DEF Levels
    <3> DEFINE after == {i \in DOMAIN fs : ptr = None \/ Less(ptr, fs[i].largest)}
    <3>3. after \subseteq Nat /\ after \subseteq DOMAIN fs /\ 1 \in DOMAIN fs
      BY <3>2
    <3>4. PickedFile(fs, ptr) = IF after = {} THEN fs[1] ELSE fs[Min(after)]
      BY DEF PickedFile
    <3> HIDE DEF after
    <3>5. after # {} => Min(after) \in DOMAIN fs
      BY <3>3, MinIs
    <3> QED BY <3>1, <3>3, <3>4, <3>5 DEF Range
  <2> QED BY <1>1, <1>2, <2>1, <2>2 DEF PickCompaction
<1>3. CASE ~SizeCompaction(v) /\ v.toCompact # None
  <2>1. Compactable(v, v.toCompact)
    BY <1>3 DEF VersionOK
  <2> QED BY <1>1, <1>3, <2>1 DEF PickCompaction, Compactable
<1>4. CASE ~SizeCompaction(v) /\ v.toCompact = None
  BY <1>4 DEF PickCompaction, NeedsCompaction, SeekCompaction
<1> QED
  BY <1>2, <1>3, <1>4

LEMMA ChosenIs ==
  ASSUME LevelInv
  PROVE  Chosen = None \/ CompactionOf(Latest, Chosen)
<1> DEFINE P == Proper(tables, pending)
<1>1. Distinct(P)
  <2>1. DOMAIN tables \subseteq Nat
    BY DEF LevelInv, NumbersOK
  <2> QED BY <2>1, ProperDistinct DEF LevelInv, MemoryOK
<1> HIDE DEF P
<1>2. VersionOK(Latest, P) /\ Latest.files \in [Levels -> Seq(P)]
  BY DEF LevelInv, HeldOK, AllOK, Latest, VersionOK, P
<1>3. CASE ManualActive
  <2>1. manual.level \in 0..(NumLevels - 2)
    BY <1>3, LevelFilesAssumption DEF LevelInv, ManualOK, ManualActive
  <2> QED BY <1>1, <1>2, <1>3, <2>1, CompactRangeIs DEF Chosen
<1>4. CASE ~ManualActive
  BY <1>1, <1>2, <1>4, PickCompactionIs DEF Chosen
<1> QED
  BY <1>3, <1>4

--------------------------------------------------------------------------
(* Proofs: the steps keep LevelInv.                                       *)

LEMMA FilesDistinct ==
  ASSUME LevelInv, NEW unfinished
  PROVE  Distinct(Proper(tables, unfinished))
<1>1. DOMAIN tables \subseteq Nat
  BY DEF LevelInv, NumbersOK
<1> QED
  BY <1>1, ProperDistinct DEF LevelInv, MemoryOK

\* The versions that are kept are those somebody holds.
LEMMA AliveKept ==
  ASSUME LevelInv, NEW vs, NEW cur, cur \in DOMAIN vs, DOMAIN versions \subseteq DOMAIN vs,
         NEW rs, \A r \in Readers : rs[r] # None => rs[r].version \in DOMAIN versions,
         NEW m, m # None => m.version \in DOMAIN versions,
         NEW P, AllOK(vs, P)
  PROVE  /\ AllOK(Alive(vs, cur, rs, m), P)
         /\ cur \in DOMAIN Alive(vs, cur, rs, m)
         /\ \A r \in Readers : rs[r] # None => rs[r].version \in DOMAIN Alive(vs, cur, rs, m)
         /\ m # None => m.version \in DOMAIN Alive(vs, cur, rs, m)
<1>1. Referenced(rs, m) \subseteq DOMAIN vs
  BY DEF Referenced
<1>2. /\ \A r \in Readers : rs[r] # None => rs[r].version \in Referenced(rs, m)
      /\ m # None => m.version \in Referenced(rs, m)
  BY DEF Referenced
<1>3. DOMAIN Alive(vs, cur, rs, m) = {cur} \cup Referenced(rs, m)
  BY DEF Alive
<1>4. \A id \in {cur} \cup Referenced(rs, m) : Alive(vs, cur, rs, m)[id] = vs[id]
  BY DEF Alive
<1>5. AllOK(Alive(vs, cur, rs, m), P)
  BY <1>1, <1>3, <1>4 DEF AllOK
<1> QED
  BY <1>2, <1>3, <1>5

LEMMA LoggedAndApplied ==
  ASSUME LevelInv, NEW edit, NEW m, m = None \/ m = merge,
         LogAndApply(edit, readers, m),
         NEW P, Distinct(P), AllOK(versions, P),
         IsFiniteSet(Range(edit.added)), \A a \in Range(edit.added) : a.file \in P
  PROVE  /\ AllOK(versions', P)
         /\ current' \in DOMAIN versions'
         /\ \A r \in Readers : readers[r] # None => readers[r].version \in DOMAIN versions'
         /\ m # None => m.version \in DOMAIN versions'
<1>1. PICK fresh : /\ current' = fresh
                   /\ versions' = Alive([id \in DOMAIN versions \cup {fresh} |->
                                           IF id = fresh THEN NextVersion(Latest, edit)
                                           ELSE versions[id]], fresh, readers, m)
  BY DEF LogAndApply
<1> DEFINE vs == [id \in DOMAIN versions \cup {fresh} |->
                    IF id = fresh THEN NextVersion(Latest, edit) ELSE versions[id]]
<1>2. VersionOK(NextVersion(Latest, edit), P)
  <2>1. VersionOK(Latest, P)
    BY DEF LevelInv, HeldOK, AllOK, Latest
  <2> QED BY <2>1, NextVersionOK
<1>3. AllOK(vs, P)
  BY <1>2 DEF AllOK
<1>4. /\ \A r \in Readers : readers[r] # None => readers[r].version \in DOMAIN versions
      /\ m # None => m.version \in DOMAIN versions
  BY DEF LevelInv, HeldOK, MergeOK
<1>5. fresh \in DOMAIN vs /\ DOMAIN versions \subseteq DOMAIN vs
  OBVIOUS
<1>6. versions' = Alive(vs, fresh, readers, m)
  BY <1>1
<1>7. PICK rs : rs = readers
  OBVIOUS
<1> HIDE DEF vs
<1>8. /\ AllOK(Alive(vs, fresh, rs, m), P)
      /\ fresh \in DOMAIN Alive(vs, fresh, rs, m)
      /\ \A r \in Readers : rs[r] # None => rs[r].version \in DOMAIN Alive(vs, fresh, rs, m)
      /\ m # None => m.version \in DOMAIN Alive(vs, fresh, rs, m)
  BY <1>3, <1>4, <1>5, <1>7, AliveKept
<1> QED
  BY <1>1, <1>6, <1>7, <1>8

\* A charge: the file charged has a level below its own.
LEMMA ChargeKeeps ==
  ASSUME LevelInv, NEW id \in DOMAIN versions, NEW charged,
         charged = None \/ Compactable(versions[id], charged),
         NEW rs, \A r \in Readers : rs[r] # None => rs[r].version \in DOMAIN versions,
         Charge(id, charged, rs)
  PROVE  /\ AllOK(versions', Proper(tables, pending))
         /\ current \in DOMAIN versions'
         /\ \A r \in Readers : rs[r] # None => rs[r].version \in DOMAIN versions'
         /\ merge # None => merge.version \in DOMAIN versions'
<1> DEFINE P == Proper(tables, pending)
           v == UpdateStats(versions[id], seeks, charged)
           vs == [versions EXCEPT ![id] = v]
<1>1. versions' = Alive(vs, current, rs, merge)
  BY DEF Charge
<1>2. VersionOK(versions[id], P)
  BY DEF LevelInv, AllOK
<1>3. VersionOK(v, P)
  <2>1. PICK w : w = versions[id]
    OBVIOUS
  <2>2. VersionOK(w, P) /\ (charged = None \/ Compactable(w, charged))
    BY <1>2, <2>1
  <2>3. v = w \/ (charged # None /\ v = [w EXCEPT !.toCompact = charged])
    BY <2>1 DEF UpdateStats
  <2>4. ASSUME charged # None, NEW u, u = [w EXCEPT !.toCompact = charged]
        PROVE  VersionOK(u, P)
    <3>1. DOMAIN w = {"files", "toCompact", "level", "score"}
      BY <2>2 DEF VersionOK
    <3>2. /\ DOMAIN u = DOMAIN w /\ u.files = w.files /\ u.level = w.level
          /\ u.score = w.score /\ u.toCompact = charged
      BY <2>4, <3>1
    <3> HIDE DEF P
    <3> QED BY <2>2, <2>4, <3>1, <3>2 DEF VersionOK, SizeCompaction, Compactable
  <2> HIDE DEF v
  <2> QED BY <2>2, <2>3, <2>4
<1> HIDE DEF v
<1>4. AllOK(vs, P)
  BY <1>3 DEF LevelInv, AllOK
<1>5. current \in DOMAIN vs /\ DOMAIN versions = DOMAIN vs
  BY DEF LevelInv, HeldOK
<1>6. merge # None => merge.version \in DOMAIN versions
  BY DEF LevelInv, MergeOK
<1>7. PICK ws, cur, m : ws = vs /\ cur = current /\ m = merge
  OBVIOUS
<1> HIDE DEF vs
<1>9. PICK files : files = P
  OBVIOUS
<1> HIDE DEF P
<1>8. /\ AllOK(Alive(ws, cur, rs, m), files)
      /\ cur \in DOMAIN Alive(ws, cur, rs, m)
      /\ \A r \in Readers : rs[r] # None => rs[r].version \in DOMAIN Alive(ws, cur, rs, m)
      /\ m # None => m.version \in DOMAIN Alive(ws, cur, rs, m)
  BY <1>4, <1>5, <1>6, <1>7, <1>9, AliveKept
<1> QED
  BY <1>1, <1>7, <1>8, <1>9 DEF P

\* What the versions list is not deleted, and nothing pending is.
LEMMA DeletionKeeps ==
  ASSUME NEW ts, NEW vs, NEW ps, AllOK(vs, Proper(ts, ps)), NEW ts2,
         ts2 = DeleteObsoleteFiles(ts, vs, ps)
  PROVE  /\ AllOK(vs, Proper(ts2, ps))
         /\ DOMAIN ts2 \subseteq DOMAIN ts /\ \A n \in DOMAIN ts2 : ts2[n] = ts[n]
         /\ DOMAIN ts \cap ps \subseteq DOMAIN ts2
<1>1. /\ DOMAIN ts2 \subseteq DOMAIN ts
      /\ \A n \in DOMAIN ts2 : ts2[n] = ts[n]
      /\ DOMAIN ts \cap (AddLiveFiles(Range(vs)) \cup ps) \subseteq DOMAIN ts2
  BY DEF DeleteObsoleteFiles, Kept
<1>2. AllOK(vs, Proper(ts2, ps))
  BY <1>1, OKAfterDeletion
<1> QED
  BY <1>1, <1>2

LEMMA NoDataIsData == {} \in Data
  BY FS_EmptySet DEF Data

LEMMA OneMore ==
  ASSUME NEW S \in Data, NEW e \in Entry
  PROVE  S \cup {e} \in Data
<1>1. IsFiniteSet(S) /\ S \subseteq Entry
  BY DEF Data
<1>2. IsFiniteSet(S \cup {e})
  BY <1>1, FS_AddElement
<1> QED
  BY <1>1, <1>2 DEF Data

LEMMA InitEstablishes ==
  ASSUME Init
  PROVE  LevelInv
<1> DEFINE P == Proper(tables, pending)
<1>1. VersionOK(Finalize(EmptyVersion), P)
  <2>1. [l \in Levels |-> << >>] \in [Levels -> Seq(P)]
    OBVIOUS
  <2> QED BY <2>1, Finalized DEF EmptyVersion
<1>2. AllOK(versions, P) /\ HeldOK
  <2>1. versions = [id \in {0} |-> Finalize(EmptyVersion)] /\ current = 0
        /\ readers = [r \in Readers |-> None]
    BY DEF Init
  <2> HIDE DEF P
  <2> QED BY <1>1, <2>1 DEF AllOK, HeldOK
<1>3. DOMAIN tables = {} /\ pending = {} /\ nextFile = 1 /\ mem = {} /\ imm = None
      /\ lastSequence = 0 /\ flush = None /\ merge = None /\ manual = None
  BY DEF Init
<1>4. MemoryOK
  BY <1>3, NoDataIsData, LevelStoreAssumption DEF MemoryOK
<1> QED
  BY <1>2, <1>3, <1>4 DEF LevelInv, NumbersOK, FlushOK, MergeOK, ManualOK

LEMMA WriteKeeps ==
  ASSUME LevelInv, NEW k \in Keys, NEW type \in Types, Write(k, type)
  PROVE  LevelInv'
<1>1. /\ UNCHANGED <<versions, current, nextFile, tables, pending, flush, merge, readers, manual>>
      /\ lastSequence' = lastSequence + 1 /\ lastSequence < Writes
  BY DEF Write, fileVars, readVars, manualVars
<1>2. PICK entry : entry = <<k, lastSequence + 1, type>>
  OBVIOUS
<1>3. entry \in Entry
  BY <1>1, <1>2, LevelStoreAssumption DEF Entry, LevelInv, MemoryOK
<1>4. \/ imm = None /\ mem' = {entry} /\ imm' = mem
      \/ mem' = mem \cup {entry} /\ imm' = imm
  BY <1>2 DEF Write
<1>5. MemoryOK'
  <2>1. mem' \in Data
    BY <1>3, <1>4, OneMore, NoDataIsData DEF LevelInv, MemoryOK
  <2>2. imm' # None => imm' \in Data
    BY <1>4 DEF LevelInv, MemoryOK
  <2>3. lastSequence' \in 0..Writes
    BY <1>1, LevelStoreAssumption DEF LevelInv, MemoryOK
  <2> QED BY <1>1, <2>1, <2>2, <2>3 DEF LevelInv, MemoryOK
<1>6. FlushOK'
  BY <1>1, <1>4 DEF LevelInv, FlushOK
<1>7. MergeOK'
  BY <1>1 DEF LevelInv, MergeOK, Outputs
<1> QED
  BY <1>1, <1>5, <1>6, <1>7 DEF LevelInv, NumbersOK, HeldOK, ManualOK

\* The variables LevelInv is about.
levelVars == <<mem, imm, lastSequence, versions, current, nextFile, tables, pending,
               flush, merge, readers, manual>>

LEMMA NothingChanges ==
  ASSUME LevelInv, UNCHANGED levelVars
  PROVE  LevelInv'
<1>1. UNCHANGED <<mem, imm, lastSequence, versions, current, nextFile, tables, pending,
                  flush, merge, readers, manual>>
  BY DEF levelVars
<1>2. MergeOK' /\ MemoryOK' /\ FlushOK'
  BY <1>1 DEF LevelInv, MergeOK, Outputs, MemoryOK, FlushOK
<1> QED
  BY <1>1, <1>2 DEF LevelInv, NumbersOK, HeldOK, ManualOK

LEMMA StartKeeps ==
  ASSUME LevelInv, NEW r \in Readers, NEW key, NEW seq, Start(r, key, seq)
  PROVE  LevelInv'
<1>1. /\ UNCHANGED <<mem, imm, lastSequence, versions, current, nextFile, tables, pending,
                     flush, merge, manual>>
      /\ readers' = [readers EXCEPT ![r] =
           [key |-> key, seq |-> seq, mem |-> mem, imm |-> imm, version |-> current]]
  BY DEF Start, fileVars, writeVars, manualVars
<1>2. HeldOK'
  BY <1>1 DEF LevelInv, HeldOK
<1>3. MergeOK' /\ MemoryOK' /\ FlushOK'
  BY <1>1 DEF LevelInv, MergeOK, Outputs, MemoryOK, FlushOK
<1> QED
  BY <1>1, <1>2, <1>3 DEF LevelInv, NumbersOK, ManualOK

\* What a charge leaves as it is, and what it brings about.
LEMMA ChargeEnds ==
  ASSUME LevelInv,
         UNCHANGED <<mem, imm, lastSequence, current, nextFile, tables, pending, flush,
                     merge, manual>>,
         AllOK(versions', Proper(tables, pending)),
         current \in DOMAIN versions',
         DOMAIN readers' = Readers,
         \A r \in Readers : readers'[r] # None => readers'[r].version \in DOMAIN versions',
         merge # None => merge.version \in DOMAIN versions'
  PROVE  LevelInv'
<1>1. HeldOK'
  BY DEF HeldOK
<1>2. MergeOK' /\ MemoryOK' /\ FlushOK'
  BY DEF LevelInv, MergeOK, Outputs, MemoryOK, FlushOK
<1> QED
  BY <1>1, <1>2 DEF LevelInv, NumbersOK, ManualOK

LEMMA EndKeeps ==
  ASSUME LevelInv, NEW r \in Readers, End(r)
  PROVE  LevelInv'
<1>1. PICK rs, id, charged :
        /\ rs = [readers EXCEPT ![r] = None] /\ readers' = rs
        /\ id = readers[r].version
        /\ charged = ReadCharges(readers[r], <<readers[r].key, readers[r].seq, "value">>)
  BY DEF End
<1>2. /\ UNCHANGED <<mem, imm, lastSequence, current, nextFile, tables, pending, flush,
                     merge, manual>>
      /\ readers[r] # None /\ Charge(id, charged, rs)
  BY <1>1 DEF End, fileVars, writeVars, manualVars
<1>3. id \in DOMAIN versions /\ DOMAIN readers = Readers
  BY <1>1, <1>2 DEF LevelInv, HeldOK
<1>4. charged = None \/ Compactable(versions[id], charged)
  <2>1. VersionOK(versions[id], Proper(tables, pending))
    BY <1>3 DEF LevelInv, AllOK
  <2>2. versions[id].files \in [Levels -> Seq(Proper(tables, pending))]
    BY <2>1 DEF VersionOK
  <2>3. PICK v, P : v = versions[id] /\ P = Proper(tables, pending)
    OBVIOUS
  <2>4. Distinct(P) /\ v.files \in [Levels -> Seq(P)]
    BY <2>2, <2>3, FilesDistinct
  <2>5. charged \in {None, Charged(v, <<readers[r].key, readers[r].seq, "value">>, tables)}
    BY <1>1, <2>3 DEF ReadCharges
  <2> QED BY <2>3, <2>4, <2>5, ChargedIs
<1>5. \A x \in Readers : rs[x] # None => rs[x].version \in DOMAIN versions
  BY <1>1 DEF LevelInv, HeldOK
<1>6. /\ AllOK(versions', Proper(tables, pending))
      /\ current \in DOMAIN versions'
      /\ \A x \in Readers : rs[x] # None => rs[x].version \in DOMAIN versions'
      /\ merge # None => merge.version \in DOMAIN versions'
  BY <1>2, <1>3, <1>4, <1>5, ChargeKeeps
<1>7. DOMAIN readers' = Readers
  BY <1>1, <1>3
<1> QED
  BY <1>1, <1>2, <1>6, <1>7, ChargeEnds

LEMMA SampleKeeps ==
  ASSUME LevelInv, NEW r \in Readers, NEW u \in Keys, Sample(r, u)
  PROVE  LevelInv'
<1>1. PICK rs, id, charged :
        /\ rs = readers /\ id = current
        /\ charged = RecordReadSample(Latest, <<u, readers[r].seq, "value">>)
  OBVIOUS
<1>2. /\ UNCHANGED <<mem, imm, lastSequence, current, nextFile, tables, pending, flush,
                     merge, manual, readers>>
      /\ Charge(id, charged, rs)
  BY <1>1 DEF Sample, fileVars, writeVars, manualVars
<1>3. /\ id \in DOMAIN versions /\ DOMAIN readers = Readers
      /\ \A x \in Readers : rs[x] # None => rs[x].version \in DOMAIN versions
  BY <1>1 DEF LevelInv, HeldOK
<1>4. charged = None \/ Compactable(versions[id], charged)
  <2>1. VersionOK(versions[id], Proper(tables, pending))
    BY <1>3 DEF LevelInv, AllOK
  <2>2. versions[id].files \in [Levels -> Seq(Proper(tables, pending))]
    BY <2>1 DEF VersionOK
  <2>3. PICK v, P : v = versions[id] /\ P = Proper(tables, pending)
    OBVIOUS
  <2>4. Distinct(P) /\ v.files \in [Levels -> Seq(P)]
    BY <2>2, <2>3, FilesDistinct
  <2>5. charged = RecordReadSample(v, <<u, readers[r].seq, "value">>)
    BY <1>1, <2>3 DEF Latest
  <2> QED BY <2>3, <2>4, <2>5, ChargedIs
<1>6. /\ AllOK(versions', Proper(tables, pending))
      /\ current \in DOMAIN versions'
      /\ \A x \in Readers : rs[x] # None => rs[x].version \in DOMAIN versions'
      /\ merge # None => merge.version \in DOMAIN versions'
  BY <1>2, <1>3, <1>4, ChargeKeeps
<1>7. /\ DOMAIN readers' = Readers
      /\ \A x \in Readers : readers'[x] # None => readers'[x].version \in DOMAIN versions'
  BY <1>1, <1>2, <1>3, <1>6
<1> QED
  BY <1>2, <1>6, <1>7, ChargeEnds

--------------------------------------------------------------------------
(* Proofs: CompactRange and the background thread.                        *)

LEMMA ManualEnds ==
  ASSUME LevelInv,
         UNCHANGED <<mem, imm, lastSequence, versions, current, nextFile, tables, pending,
                     flush, merge, readers>>,
         ManualOK'
  PROVE  LevelInv'
<1>1. MergeOK' /\ MemoryOK' /\ FlushOK'
  BY DEF LevelInv, MergeOK, Outputs, MemoryOK, FlushOK
<1> QED
  BY <1>1 DEF LevelInv, NumbersOK, HeldOK

LEMMA TopLevelIs ==
  ASSUME NEW v, NEW begin, NEW end
  PROVE  TopLevel(v, begin, end) \in 1..(NumLevels - 1)
<1> DEFINE T == {1} \cup {l \in 1..(NumLevels - 1) : OverlapInLevel(v, l, begin, end)}
           M == NumLevels - 1
           S == {M - t : t \in T}
<1>1. M \in Nat /\ M >= 1 /\ T \subseteq 1..M /\ T # {}
  BY LevelFilesAssumption
<1> HIDE DEF T
<1>2. S \subseteq Nat /\ S # {}
  <2>1. \A t \in T : M - t \in Nat
    BY <1>1
  <2> HIDE DEF M
  <2> QED BY <2>1, <1>1
<1>3. PICK s \in S : \A x \in S : s <= x
  <2> HIDE DEF S
  <2> QED BY <1>2, Least
<1>4. PICK t \in T : s = M - t
  BY <1>3
<1>5. \A x \in T : x <= t
  <2> SUFFICES ASSUME NEW x \in T PROVE x <= t
    OBVIOUS
  <2>1. s <= M - x
    BY <1>3
  <2> QED BY <2>1, <1>4, <1>1
<1>6. Max(T) \in T
  BY <1>5 DEF Max
<1> QED
  BY <1>1, <1>6 DEF TopLevel, T

LEMMA LevelDoneKeeps ==
  ASSUME ManualOK, manual # None, NEW m, m = manual
  PROVE  LevelDone(m) # None => /\ {"level", "top"} \subseteq DOMAIN LevelDone(m)
                                /\ LevelDone(m).level \in Nat /\ LevelDone(m).top = m.top
                                /\ LevelDone(m).level < m.top
<1>1. {"level", "top"} \subseteq DOMAIN m /\ m.level \in Nat /\ m.top \in 0..(NumLevels - 1)
  BY DEF ManualOK
<1> SUFFICES ASSUME m.level + 1 < m.top
             PROVE  LET n == [m EXCEPT !.level = @ + 1, !.from = m.begin, !.active = TRUE]
                    IN  /\ {"level", "top"} \subseteq DOMAIN n
                        /\ n.level \in Nat /\ n.top = m.top /\ n.level < m.top
  BY DEF LevelDone
<1>2. PICK b : b = m.begin
  OBVIOUS
<1>3. PICK n : n = [m EXCEPT !.level = @ + 1, !.from = b, !.active = TRUE]
  OBVIOUS
<1>4. DOMAIN n = DOMAIN m /\ n.level = m.level + 1 /\ n.top = m.top
  BY <1>1, <1>3
<1> QED
  BY <1>1, <1>2, <1>3, <1>4

LEMMA ManualAfterKeeps ==
  ASSUME ManualOK, NEW c, manual' = ManualAfter(c)
  PROVE  ManualOK'
<1>1. CASE ~ManualActive
  BY <1>1 DEF ManualAfter, ManualOK
<1>2. CASE ManualActive /\ c = None
  <2>1. PICK m : m = manual
    OBVIOUS
  <2>2. manual # None /\ manual' = LevelDone(m)
    BY <1>2, <2>1 DEF ManualAfter, ManualActive
  <2> QED BY <2>1, <2>2, LevelDoneKeeps DEF ManualOK
<1>3. CASE ManualActive /\ c # None
  <2>1. PICK u : manual' = [manual EXCEPT !.from = u, !.active = FALSE]
    BY <1>3 DEF ManualAfter
  <2>2. manual # None
    BY <1>3 DEF ManualActive
  <2>3. PICK m, n : m = manual /\ n = manual'
    OBVIOUS
  <2>4. {"level", "top"} \subseteq DOMAIN m /\ n = [m EXCEPT !.from = u, !.active = FALSE]
    BY <2>1, <2>2, <2>3 DEF ManualOK
  <2>5. DOMAIN n = DOMAIN m /\ n.level = m.level /\ n.top = m.top
    BY <2>4
  <2> QED BY <2>2, <2>3, <2>4, <2>5 DEF ManualOK
<1> QED
  BY <1>1, <1>2, <1>3

LEMMA RangeCompactionKeeps ==
  ASSUME LevelInv, RangeCompaction
  PROVE  LevelInv'
<1>1. ASSUME NEW range \in ranges, CallCompactRange(range) PROVE LevelInv'
  <2>1. PICK b, e, f : manual' = [begin |-> b, end |-> e, from |-> f, at |-> "switch", level |-> 0,
                                  top |-> TopLevel(Latest, b, e), active |-> FALSE]
    BY <1>1 DEF CallCompactRange
  <2>2. PICK t : t = TopLevel(Latest, b, e)
    OBVIOUS
  <2>3. t \in 1..(NumLevels - 1)
    BY <2>2, TopLevelIs
  <2>4. DOMAIN manual' = {"begin", "end", "from", "at", "level", "top", "active"}
        /\ manual'.level = 0 /\ manual'.top = t
    BY <2>1, <2>2
  <2>5. ManualOK'
    BY <2>3, <2>4, LevelFilesAssumption DEF ManualOK
  <2> QED
    BY <1>1, <2>5, ManualEnds DEF CallCompactRange, writeVars, fileVars, readVars
<1>2. ASSUME manual # None, NEW n, DOMAIN n = DOMAIN manual,
             n.level = manual.level, n.top = manual.top, manual' = n
      PROVE  ManualOK'
  BY <1>2 DEF LevelInv, ManualOK
<1>3. ASSUME SwitchMemTable PROVE LevelInv'
  <2>1. /\ UNCHANGED <<lastSequence, versions, current, nextFile, tables, pending, flush, merge, readers>>
        /\ imm = None /\ imm' = mem /\ mem' = {}
        /\ manual # None /\ manual' = [manual EXCEPT !.at = "flushing"]
    BY <1>3 DEF SwitchMemTable, fileVars, readVars
  <2>2. ManualOK'
    <3>1. PICK m, n : m = manual /\ n = manual'
      OBVIOUS
    <3>2. n = [m EXCEPT !.at = "flushing"] /\ {"level", "top"} \subseteq DOMAIN m
      BY <2>1, <3>1 DEF LevelInv, ManualOK
    <3>3. DOMAIN n = DOMAIN m /\ n.level = m.level /\ n.top = m.top
      BY <3>2
    <3> QED BY <1>2, <2>1, <3>1, <3>3
  <2>3. MemoryOK' /\ FlushOK'
    BY <2>1, NoDataIsData DEF LevelInv, MemoryOK, FlushOK
  <2>4. MergeOK'
    BY <2>1 DEF LevelInv, MergeOK, Outputs
  <2> QED BY <2>1, <2>2, <2>3, <2>4 DEF LevelInv, NumbersOK, HeldOK
<1>4. ASSUME MemTableWritten PROVE LevelInv'
  <2>1. manual # None /\ manual' = [manual EXCEPT !.at = "levels", !.active = TRUE]
    BY <1>4 DEF MemTableWritten
  <2>2. ManualOK'
    <3>1. PICK m, n : m = manual /\ n = manual'
      OBVIOUS
    <3>2. n = [m EXCEPT !.at = "levels", !.active = TRUE] /\ {"level", "top"} \subseteq DOMAIN m
      BY <2>1, <3>1 DEF LevelInv, ManualOK
    <3>3. DOMAIN n = DOMAIN m /\ n.level = m.level /\ n.top = m.top
      BY <3>2
    <3> QED BY <1>2, <2>1, <3>1, <3>3
  <2> QED
    BY <1>4, <2>2, ManualEnds DEF MemTableWritten, writeVars, fileVars, readVars
<1>5. ASSUME AskAgain PROVE LevelInv'
  <2>1. manual # None /\ manual' = [manual EXCEPT !.active = TRUE]
    BY <1>5 DEF AskAgain
  <2>2. ManualOK'
    <3>1. PICK m, n : m = manual /\ n = manual'
      OBVIOUS
    <3>2. n = [m EXCEPT !.active = TRUE] /\ {"level", "top"} \subseteq DOMAIN m
      BY <2>1, <3>1 DEF LevelInv, ManualOK
    <3>3. DOMAIN n = DOMAIN m /\ n.level = m.level /\ n.top = m.top
      BY <3>2
    <3> QED BY <1>2, <2>1, <3>1, <3>3
  <2> QED
    BY <1>5, <2>2, ManualEnds DEF AskAgain, writeVars, fileVars, readVars
<1>6. ASSUME GiveUp PROVE LevelInv'
  <2>1. ManualOK'
    BY <1>6 DEF GiveUp, ManualOK
  <2> QED
    BY <1>6, <2>1, ManualEnds DEF GiveUp, writeVars, fileVars, readVars
<1> QED
  BY <1>1, <1>3, <1>4, <1>5, <1>6 DEF RangeCompaction

LEMMA BuildTableKeeps ==
  ASSUME LevelInv, BuildTable
  PROVE  LevelInv'
<1>1. /\ UNCHANGED <<mem, imm, lastSequence, versions, current, merge, readers, manual>>
      /\ imm # None /\ flush' = nextFile /\ nextFile' = nextFile + 1
      /\ pending' = pending \cup {nextFile}
  BY DEF BuildTable, writeVars, readVars, manualVars
<1>2. nextFile \in Nat /\ DOMAIN tables \cup pending \subseteq 0..(nextFile - 1)
  BY DEF LevelInv, NumbersOK
<1>3. /\ DOMAIN tables \subseteq DOMAIN tables' /\ DOMAIN tables' \subseteq DOMAIN tables \cup {nextFile}
      /\ \A n \in DOMAIN tables : tables'[n] = tables[n]
      /\ imm # {} => nextFile \in DOMAIN tables' /\ tables'[nextFile] = imm
      /\ imm = {} => tables' = tables
  <2>1. nextFile \notin DOMAIN tables
    BY <1>2
  <2>2. CASE imm = {}
    BY <2>2 DEF BuildTable
  <2>3. CASE imm # {}
    <3>1. tables' = [n \in DOMAIN tables \cup {nextFile} |-> IF n = nextFile THEN imm ELSE tables[n]]
      BY <2>3 DEF BuildTable
    <3> QED BY <2>1, <2>3, <3>1
  <2> QED BY <2>2, <2>3
<1>4. AllOK(versions', Proper(tables', pending'))
  <2>1. \A n \in DOMAIN tables \ pending :
          n \in DOMAIN tables' \ pending' /\ tables'[n] = tables[n]
    BY <1>1, <1>2, <1>3
  <2>2. Proper(tables, pending) \subseteq Proper(tables', pending')
    <3>1. PICK ts, ps, ts2, ps2 : ts = tables /\ ps = pending /\ ts2 = tables' /\ ps2 = pending'
      OBVIOUS
    <3>2. \A n \in DOMAIN ts \ ps : n \in DOMAIN ts2 \ ps2 /\ ts2[n] = ts[n]
      BY <2>1, <3>1
    <3>3. Proper(ts, ps) \subseteq Proper(ts2, ps2)
      BY <3>2, ProperStays
    <3> QED BY <3>1, <3>3
  <2>3. PICK vs, P, Q : vs = versions /\ P = Proper(tables, pending) /\ Q = Proper(tables', pending')
    OBVIOUS
  <2>4. AllOK(vs, P)
    BY <2>3 DEF LevelInv
  <2>5. AllOK(vs, Q)
    BY <2>2, <2>3, <2>4, OKStays
  <2> QED BY <1>1, <2>3, <2>5
<1>5. MemoryOK'
  <2>1. imm \in Data
    BY <1>1 DEF LevelInv, MemoryOK
  <2>2. ASSUME NEW n \in DOMAIN tables' PROVE tables'[n] \in Data \ {{}}
    <3>1. CASE n \in DOMAIN tables
      BY <1>3, <3>1 DEF LevelInv, MemoryOK
    <3>2. CASE n \notin DOMAIN tables
      BY <1>3, <2>1, <3>2
    <3> QED BY <3>1, <3>2
  <2> QED BY <1>1, <2>2 DEF LevelInv, MemoryOK
<1>6. NumbersOK'
  BY <1>1, <1>2, <1>3 DEF NumbersOK
<1>7. FlushOK'
  BY <1>1, <1>3 DEF FlushOK
<1>8. MergeOK'
  <2>1. merge # None => /\ Range(Outputs) \subseteq pending \cap DOMAIN tables
                        /\ nextFile \notin Range(Outputs)
    BY <1>2 DEF LevelInv, MergeOK
  <2>2. Outputs' = Outputs
    BY <1>1 DEF Outputs
  <2> QED BY <1>1, <1>3, <2>1, <2>2 DEF LevelInv, MergeOK
<1> QED
  BY <1>1, <1>4, <1>5, <1>6, <1>7, <1>8 DEF LevelInv, HeldOK, ManualOK

LEMMA CommitKeeps ==
  ASSUME LevelInv, CommitMemTable
  PROVE  LevelInv'
<1>1. /\ UNCHANGED <<mem, lastSequence, nextFile, merge, readers, manual>>
      /\ flush # None /\ imm' = None /\ flush' = None
      /\ pending' = pending \ {flush}
      /\ tables' = DeleteObsoleteFiles(tables, versions', pending')
  BY DEF CommitMemTable, writeVars, readVars, manualVars
<1>2. flush \in pending /\ imm # None /\ imm \in Data
      /\ (imm # {} => flush \in DOMAIN tables /\ tables[flush] = imm)
  BY <1>1 DEF LevelInv, FlushOK, MemoryOK
<1>3. PICK edit, m, ps, P : /\ edit = FlushEdit /\ m = merge /\ ps = pending \ {flush}
                            /\ P = Proper(tables, ps)
  OBVIOUS
<1>4. LogAndApply(edit, readers, m)
  BY <1>3 DEF CommitMemTable
<1>5. Distinct(P)
  BY <1>3, FilesDistinct
<1>6. AllOK(versions, P)
  <2>1. Proper(tables, pending) \subseteq P
    BY <1>3, ProperStays
  <2>2. AllOK(versions, Proper(tables, pending))
    BY DEF LevelInv
  <2> QED BY <2>1, <2>2, OKStays
<1>7. IsFiniteSet(Range(edit.added)) /\ \A a \in Range(edit.added) : a.file \in P
  <2>1. CASE imm = {}
    <3>1. edit.added = << >>
      BY <1>3, <2>1 DEF FlushEdit, EmptyEdit
    <3>2. Range(edit.added) = {}
      BY <3>1 DEF Range
    <3> QED BY <3>2, FS_EmptySet
  <2>2. CASE imm # {}
    <3>1. PICK level, file : /\ file = FileOver(flush, InKeyOrder(imm))
                             /\ edit = AddFile(EmptyEdit, level, file)
      BY <1>3, <2>2 DEF FlushEdit
    <3>a. PICK x : x = [level |-> level, file |-> file]
      OBVIOUS
    <3>2. edit.added = <<x>> /\ x.file = file
      BY <3>1, <3>a DEF AddFile, EmptyEdit
    <3>3. Range(edit.added) = {x}
      BY <3>2 DEF Range
    <3>4. file \in P
      BY <1>2, <1>3, <2>2, <3>1 DEF Proper
    <3> QED BY <3>2, <3>3, <3>4, FS_Singleton
  <2> QED BY <2>1, <2>2
<1>8. /\ AllOK(versions', P)
      /\ current' \in DOMAIN versions'
      /\ \A r \in Readers : readers[r] # None => readers[r].version \in DOMAIN versions'
      /\ m # None => m.version \in DOMAIN versions'
  BY <1>3, <1>4, <1>5, <1>6, <1>7, LoggedAndApplied
<1>9. /\ AllOK(versions', Proper(tables', pending'))
      /\ DOMAIN tables' \subseteq DOMAIN tables /\ \A n \in DOMAIN tables' : tables'[n] = tables[n]
      /\ DOMAIN tables \cap pending' \subseteq DOMAIN tables'
  <2>1. PICK ts, vs, ts2 : ts = tables /\ vs = versions' /\ ts2 = tables'
    OBVIOUS
  <2>2. AllOK(vs, Proper(ts, ps))
    BY <1>3, <1>8, <2>1
  <2>3. ts2 = DeleteObsoleteFiles(ts, vs, ps)
    BY <1>1, <1>3, <2>1
  <2>4. /\ AllOK(vs, Proper(ts2, ps))
        /\ DOMAIN ts2 \subseteq DOMAIN ts /\ \A n \in DOMAIN ts2 : ts2[n] = ts[n]
        /\ DOMAIN ts \cap ps \subseteq DOMAIN ts2
    BY <2>2, <2>3, DeletionKeeps
  <2> QED BY <1>1, <1>3, <2>1, <2>4
<1>10. MemoryOK' /\ NumbersOK' /\ FlushOK'
  BY <1>1, <1>9 DEF LevelInv, MemoryOK, NumbersOK, FlushOK
<1>11. HeldOK'
  BY <1>1, <1>8 DEF LevelInv, HeldOK
<1>12. MergeOK'
  <2>1. merge # None => /\ Range(Outputs) \subseteq pending \cap DOMAIN tables
                        /\ flush \notin Range(Outputs)
    BY <1>1 DEF LevelInv, MergeOK
  <2>2. Outputs' = Outputs
    BY <1>1 DEF Outputs
  <2> QED BY <1>1, <1>3, <1>8, <1>9, <2>1, <2>2 DEF LevelInv, MergeOK
<1> QED
  BY <1>1, <1>9, <1>10, <1>11, <1>12 DEF LevelInv, ManualOK

LEMMA NothingToCompactKeeps ==
  ASSUME LevelInv, NothingToCompact
  PROVE  LevelInv'
<1>1. ManualOK'
  <2>1. PICK c : c = None
    OBVIOUS
  <2>2. ManualOK /\ manual' = ManualAfter(c)
    BY <2>1 DEF NothingToCompact, LevelInv
  <2> QED BY <2>2, ManualAfterKeeps
<1> QED
  BY <1>1, ManualEnds DEF NothingToCompact, writeVars, fileVars, readVars

\* What is chosen: files of the current version, and an edit that adds nothing yet.
LEMMA ChosenFiles ==
  ASSUME LevelInv, NEW c \in {Chosen} \ {None}
  PROVE  /\ c.inputs[1] \in Seq(Proper(tables, pending))
         /\ c.inputs[2] \in Seq(Proper(tables, pending))
         /\ "added" \in DOMAIN c.edit /\ c.edit.added = << >>
<1>1. PICK P, v : P = Proper(tables, pending) /\ v = Latest
  OBVIOUS
<1>2. v.files \in [Levels -> Seq(P)]
  BY <1>1 DEF LevelInv, HeldOK, AllOK, Latest, VersionOK
<1>a. PICK level \in 0..(NumLevels - 2) :
        \E above \in Seq(Range(v.files[level])), below \in Seq(Range(v.files[level + 1])) :
          c = Compaction(v, level, <<above, below>>)
  BY <1>1, ChosenIs DEF CompactionOf
<1>3. PICK above \in Seq(Range(v.files[level])), below \in Seq(Range(v.files[level + 1])) :
        c = Compaction(v, level, <<above, below>>)
  BY <1>a
<1>4. v.files[level] \in Seq(P) /\ v.files[level + 1] \in Seq(P)
  <2>1. level \in Levels /\ level + 1 \in Levels
    BY LevelFilesAssumption DEF Levels
  <2> QED BY <1>2, <2>1
<1>5. above \in Seq(P) /\ below \in Seq(P)
  <2>1. Range(v.files[level]) \subseteq P /\ Range(v.files[level + 1]) \subseteq P
    BY <1>4, RangeFinite
  <2> QED BY <2>1, Widen
<1>6. PICK key : c.edit = SetCompactPointer(EmptyEdit, level, key)
  BY <1>3 DEF Compaction
<1>7. "added" \in DOMAIN c.edit /\ c.edit.added = << >>
  BY <1>6 DEF SetCompactPointer, EmptyEdit
<1>8. c.inputs = <<above, below>>
  BY <1>3 DEF Compaction
<1> QED
  BY <1>1, <1>5, <1>7, <1>8

LEMMA MoveKeeps ==
  ASSUME LevelInv, MoveFile
  PROVE  LevelInv'
<1>1. /\ UNCHANGED <<mem, imm, lastSequence, nextFile, tables, pending, flush, merge, readers, manual>>
      /\ flush = None /\ merge = None
  BY DEF MoveFile, Idle, writeVars, fileVars, readVars, manualVars
<1>2. PICK c \in {Chosen} \ {None} :
        /\ MovesTrivially(c)
        /\ LET f == c.inputs[1][1]
               e == AddFile(DeleteFile(c.edit, c.level, f.number), c.level + 1, f)
           IN  LogAndApply(e, readers, merge)
  BY DEF MoveFile
<1>3. PICK f, e, m, P : /\ f = c.inputs[1][1] /\ m = merge /\ P = Proper(tables, pending)
                        /\ e = AddFile(DeleteFile(c.edit, c.level, f.number), c.level + 1, f)
  OBVIOUS
<1>4. LogAndApply(e, readers, m)
  BY <1>2, <1>3
<1>5. f \in P
  <2>1. c.inputs[1] \in Seq(P) /\ Len(c.inputs[1]) = 1
    BY <1>2, <1>3, ChosenFiles DEF MovesTrivially, IsTrivialMove
  <2> QED BY <1>3, <2>1
<1>6. IsFiniteSet(Range(e.added)) /\ \A a \in Range(e.added) : a.file \in P
  <2>1. PICK x, d, g : /\ x = [level |-> c.level + 1, file |-> f] /\ g = c.edit
                       /\ d = DeleteFile(c.edit, c.level, f.number)
    OBVIOUS
  <2>2. "added" \in DOMAIN g /\ g.added = << >>
    BY <2>1, ChosenFiles
  <2>3. PICK gone : d = [g EXCEPT !.deleted = gone]
    BY <2>1 DEF DeleteFile
  <2>4. "added" \in DOMAIN d /\ d.added = << >>
    BY <2>2, <2>3
  <2>5. e = [d EXCEPT !.added = Append(@, x)]
    BY <1>3, <2>1 DEF AddFile
  <2>6. e.added = <<x>> /\ x.file = f
    BY <2>1, <2>4, <2>5
  <2>7. Range(e.added) = {x}
    BY <2>6 DEF Range
  <2>8. IsFiniteSet(Range(e.added))
    <3>1. IsFiniteSet({x})
      BY FS_Singleton
    <3> QED BY <2>7, <3>1
  <2>9. \A a \in Range(e.added) : a.file = f
    BY <2>6, <2>7
  <2> QED BY <1>5, <2>8, <2>9
<1>7. Distinct(P) /\ AllOK(versions, P)
  BY <1>3, FilesDistinct DEF LevelInv
<1>8. /\ AllOK(versions', P)
      /\ current' \in DOMAIN versions'
      /\ \A r \in Readers : readers[r] # None => readers[r].version \in DOMAIN versions'
  BY <1>3, <1>4, <1>6, <1>7, LoggedAndApplied
<1>9. AllOK(versions', Proper(tables', pending'))
  BY <1>1, <1>3, <1>8
<1>10. HeldOK'
  BY <1>1, <1>8 DEF LevelInv, HeldOK
<1>11. MemoryOK' /\ NumbersOK' /\ FlushOK' /\ MergeOK'
  BY <1>1 DEF LevelInv, MemoryOK, NumbersOK, FlushOK, MergeOK
<1> QED
  BY <1>1, <1>9, <1>10, <1>11 DEF LevelInv, ManualOK

\* The entries of the tables that a compaction reads.
LEMMA InputIs ==
  ASSUME LevelInv, NEW c \in {Chosen} \ {None}
  PROVE  MakeInputIterator(c, tables) \in Seq(Entry)
<1> DEFINE P == Proper(tables, pending)
           F == Range(c.inputs[1]) \cup Range(c.inputs[2])
           T == {tables[f.number] : f \in F}
<1>1. IsFiniteSet(F) /\ F \subseteq P
  <2>1. c.inputs[1] \in Seq(P) /\ c.inputs[2] \in Seq(P)
    BY ChosenFiles
  <2> HIDE DEF P
  <2>2. /\ IsFiniteSet(Range(c.inputs[1])) /\ Range(c.inputs[1]) \subseteq P
        /\ IsFiniteSet(Range(c.inputs[2])) /\ Range(c.inputs[2]) \subseteq P
    BY <2>1, RangeFinite
  <2> QED BY <2>2, FS_Union
<1>2. ASSUME NEW f \in P PROVE tables[f.number] \in Data
  <2>1. PICK n \in DOMAIN tables : f = FileOver(n, InKeyOrder(tables[n]))
    BY DEF Proper
  <2>2. f.number = n
    BY <2>1 DEF FileOver
  <2> QED BY <2>2 DEF LevelInv, MemoryOK
<1> HIDE DEF F, P
<1>3. IsFiniteSet(T)
  <2> DEFINE h == [f \in F |-> tables[f.number]]
  <2>1. h \in Surjection(F, T)
    BY DEF Surjection
  <2> HIDE DEF h, T
  <2> QED BY <1>1, <2>1, FS_Surjection
<1>4. \A S \in T : IsFiniteSet(S) /\ S \subseteq Entry
  BY <1>1, <1>2 DEF Data
<1>5. UNION T \in Data
  <2> HIDE DEF T
  <2>1. IsFiniteSet(UNION T)
    BY <1>3, <1>4, FS_UNION
  <2> QED BY <1>4, <2>1 DEF Data
<1>6. PICK S : S = UNION T
  OBVIOUS
<1>7. InKeyOrder(S) \in Seq(S) /\ S \subseteq Entry
  BY <1>5, <1>6, EntriesInOrder DEF Data
<1>8. MakeInputIterator(c, tables) = InKeyOrder(S)
  BY <1>6 DEF MakeInputIterator, F
<1> QED
  BY <1>7, <1>8, Widen

LEMMA StartCompactionKeeps ==
  ASSUME LevelInv, StartCompaction
  PROVE  LevelInv'
<1>1. /\ UNCHANGED <<mem, imm, lastSequence, versions, current, nextFile, tables, pending,
                     flush, readers, manual>>
      /\ flush = None
  BY DEF StartCompaction, Idle, writeVars, fileVars, readVars, manualVars
<1>2. PICK c \in {Chosen} \ {None} :
        \E oldest, input, asked : /\ input = MakeInputIterator(c, tables)
                                  /\ merge' = Merge(c, current, oldest, input, asked)
  BY DEF StartCompaction
<1>a. PICK oldest, input, asked : /\ input = MakeInputIterator(c, tables)
                                  /\ merge' = Merge(c, current, oldest, input, asked)
  BY <1>2
<1>3. input \in Seq(Entry) /\ "added" \in DOMAIN c.edit /\ c.edit.added = << >>
  BY <1>a, InputIs, ChosenFiles
<1>4. /\ {"c", "version", "input", "open", "outputs"} \subseteq DOMAIN merge'
      /\ merge'.c = c /\ merge'.version = current /\ merge'.input = input
      /\ merge'.open = None /\ merge'.outputs = << >>
  BY <1>a DEF Merge
<1>5. Outputs' = << >>
  BY <1>4 DEF Outputs
<1>6. Range(Outputs') = {}
  BY <1>5 DEF Range
<1>7. MergeOK'
  BY <1>1, <1>3, <1>4, <1>6 DEF LevelInv, HeldOK, MergeOK
<1>8. MemoryOK' /\ FlushOK'
  BY <1>1 DEF LevelInv, MemoryOK, FlushOK
<1> QED
  BY <1>1, <1>7, <1>8 DEF LevelInv, NumbersOK, HeldOK, ManualOK

LEMMA FlushErrorKeeps ==
  ASSUME LevelInv, FlushError
  PROVE  LevelInv'
<1>1. /\ UNCHANGED <<mem, imm, lastSequence, versions, current, nextFile, merge, readers, manual>>
      /\ flush # None /\ flush' = None /\ pending' = pending \ {flush}
      /\ \/ tables' = tables
         \/ tables' = [n \in DOMAIN tables \ {flush} |-> tables[n]]
  BY DEF FlushError, writeVars, readVars, manualVars
<1>2. flush \in pending
  BY <1>1 DEF LevelInv, FlushOK
<1>3. /\ DOMAIN tables \ {flush} \subseteq DOMAIN tables' /\ DOMAIN tables' \subseteq DOMAIN tables
      /\ \A n \in DOMAIN tables' : tables'[n] = tables[n]
  BY <1>1
<1>4. AllOK(versions', Proper(tables', pending'))
  <2>1. PICK ts, ps, ts2, ps2, vs :
          ts = tables /\ ps = pending /\ ts2 = tables' /\ ps2 = pending' /\ vs = versions
    OBVIOUS
  <2>2. \A n \in DOMAIN ts \ ps : n \in DOMAIN ts2 \ ps2 /\ ts2[n] = ts[n]
    BY <1>1, <1>2, <1>3, <2>1
  <2>3. Proper(ts, ps) \subseteq Proper(ts2, ps2)
    BY <2>2, ProperStays
  <2>4. AllOK(vs, Proper(ts, ps))
    BY <2>1 DEF LevelInv
  <2>5. AllOK(vs, Proper(ts2, ps2))
    BY <2>3, <2>4, OKStays
  <2> QED BY <1>1, <2>1, <2>5
<1>5. MemoryOK' /\ NumbersOK' /\ FlushOK'
  BY <1>1, <1>3 DEF LevelInv, MemoryOK, NumbersOK, FlushOK
<1>6. MergeOK'
  <2>1. merge # None => /\ Range(Outputs) \subseteq pending \cap DOMAIN tables
                        /\ flush \notin Range(Outputs)
    BY <1>1 DEF LevelInv, MergeOK
  <2>2. Outputs' = Outputs
    BY <1>1 DEF Outputs
  <2> QED BY <1>1, <1>3, <2>1, <2>2 DEF LevelInv, MergeOK
<1> QED
  BY <1>1, <1>4, <1>5, <1>6 DEF LevelInv, HeldOK, ManualOK

LEMMA MergeErrorKeeps ==
  ASSUME LevelInv, MergeError
  PROVE  LevelInv'
<1>1. /\ UNCHANGED <<mem, imm, lastSequence, current, nextFile, tables, flush, readers>>
      /\ merge # None /\ flush = None /\ merge' = None
      /\ pending' = pending \ Range(Outputs)
      /\ versions' = Alive(versions, current, readers, None)
      /\ manual' \in {None, manual}
  BY DEF MergeError, writeVars, readVars
<1>2. PICK ts, ps, ps2, vs, vs2, rs, m, cur :
        /\ ts = tables /\ ps = pending /\ ps2 = pending' /\ vs = versions /\ vs2 = versions'
        /\ rs = readers /\ m = None /\ cur = current
  OBVIOUS
<1>3. AllOK(vs, Proper(ts, ps2))
  <2>1. Proper(ts, ps) \subseteq Proper(ts, ps2)
    BY <1>1, <1>2, ProperStays
  <2>2. AllOK(vs, Proper(ts, ps))
    BY <1>2 DEF LevelInv
  <2> QED BY <2>1, <2>2, OKStays
<1>4. /\ cur \in DOMAIN vs /\ DOMAIN versions \subseteq DOMAIN vs
      /\ \A r \in Readers : rs[r] # None => rs[r].version \in DOMAIN versions
      /\ m # None => m.version \in DOMAIN versions
  BY <1>2 DEF LevelInv, HeldOK
<1>5. /\ AllOK(Alive(vs, cur, rs, m), Proper(ts, ps2))
      /\ cur \in DOMAIN Alive(vs, cur, rs, m)
      /\ \A r \in Readers : rs[r] # None => rs[r].version \in DOMAIN Alive(vs, cur, rs, m)
  BY <1>3, <1>4, AliveKept
<1>6. vs2 = Alive(vs, cur, rs, m)
  BY <1>1, <1>2
<1>7. AllOK(versions', Proper(tables', pending'))
  BY <1>1, <1>2, <1>5, <1>6
<1>8. HeldOK'
  BY <1>1, <1>2, <1>5, <1>6 DEF LevelInv, HeldOK
<1>9. MemoryOK' /\ NumbersOK' /\ FlushOK' /\ MergeOK' /\ ManualOK'
  BY <1>1 DEF LevelInv, MemoryOK, NumbersOK, FlushOK, MergeOK, ManualOK
<1> QED
  BY <1>7, <1>8, <1>9 DEF LevelInv

LEMMA Appended ==
  ASSUME NEW A, NEW s \in Seq(A), NEW x
  PROVE  /\ Range(Append(s, x)) = Range(s) \cup {x}
         /\ x \in A => Append(s, x) \in Seq(A)
<1>1. Len(s) \in Nat /\ DOMAIN s = 1..Len(s)
  OBVIOUS
<1>2. /\ Len(Append(s, x)) = Len(s) + 1 /\ DOMAIN Append(s, x) = 1..(Len(s) + 1)
      /\ Append(s, x)[Len(s) + 1] = x /\ \A i \in 1..Len(s) : Append(s, x)[i] = s[i]
  BY <1>1
<1>3. Range(Append(s, x)) = Range(s) \cup {x}
  BY <1>1, <1>2 DEF Range
<1> QED
  BY <1>3

LEMMA MergeEntryKeeps ==
  ASSUME LevelInv, MergeEntry
  PROVE  LevelInv'
<1> DEFINE e     == Head(merge.input)
           cut   == ShouldStopBefore(merge.c, merge.place, e)
           last  == IF User(e) = merge.key THEN merge.last ELSE MaxSequenceNumber
           hides == Hidden(last, merge.smallest)
           asked == ~hides /\ e[3] = "deletion" /\ SequenceOf(e) <= merge.smallest
           base  == IsBaseLevelForKey(versions[merge.version], merge.c, cut.place, User(e))
           drop  == hides \/ ObsoleteDeletion(e, merge.smallest, base.base)
           kept  == IF cut.stop THEN None ELSE merge.open
           out   == IF kept = None THEN nextFile ELSE kept
           ended == IF merge.open # None /\ cut.stop
                    THEN Append(merge.outputs, merge.open) ELSE merge.outputs
           data  == (IF kept = None THEN {} ELSE tables[out]) \cup {e}
           full  == ~drop /\ Cardinality(data) >= MaxFileSize
           open2 == IF full THEN None ELSE IF drop THEN kept ELSE out
           outs2 == IF full THEN Append(ended, out) ELSE ended
<1>1. /\ UNCHANGED <<mem, imm, lastSequence, versions, current, flush, readers, manual>>
      /\ merge # None /\ merge.input # << >> /\ flush = None
  BY DEF MergeEntry, writeVars, readVars, manualVars
<1>2. PICK place2 :
        merge' = [merge EXCEPT !.input = Tail(@), !.key = User(e), !.last = SequenceOf(e),
                               !.place = place2, !.open = open2, !.outputs = outs2]
  BY DEF MergeEntry
<1>3. /\ drop => UNCHANGED <<nextFile, tables, pending>>
      /\ ~drop => /\ tables' = [n \in DOMAIN tables \cup {out} |-> IF n = out THEN data ELSE tables[n]]
                  /\ nextFile' = IF kept = None THEN nextFile + 1 ELSE nextFile
                  /\ pending' = pending \cup {out}
  BY DEF MergeEntry, fileVars
<1> HIDE DEF cut, drop, last, hides, asked, base
<1>4. PICK m, n2, stop, k, en, o, d, op, ou :
        /\ m = merge /\ n2 = nextFile /\ stop = cut.stop /\ k = kept /\ en = ended /\ o = out
        /\ d = data /\ op = open2 /\ ou = outs2
  OBVIOUS
<1>5. /\ {"c", "version", "input", "open", "outputs"} \subseteq DOMAIN m
      /\ "added" \in DOMAIN m.c.edit /\ m.c.edit.added = << >>
      /\ m.version \in DOMAIN versions
      /\ m.input \in Seq(Entry) /\ m.input # << >>
      /\ m.outputs \in Seq(Nat)
      /\ Range(Outputs) \subseteq pending \cap DOMAIN tables
  BY <1>1, <1>4 DEF LevelInv, MergeOK
<1>6. nextFile \in Nat /\ DOMAIN tables \cup pending \subseteq 0..(nextFile - 1)
  BY DEF LevelInv, NumbersOK
<1>7. /\ k \in {None, m.open} /\ o = IF k = None THEN nextFile ELSE k
      /\ m.open # None => m.open \in Range(Outputs)
      /\ Range(m.outputs) \subseteq Range(Outputs)
      /\ \A x \in Range(Outputs) : x \in Range(m.outputs) \/ (m.open # None /\ x = m.open)
  <2>1. k \in {None, m.open} /\ o = IF k = None THEN nextFile ELSE k
    BY <1>4
  <2>2. Outputs = IF m.open = None THEN m.outputs ELSE Append(m.outputs, m.open)
    BY <1>4 DEF Outputs
  <2>3. PICK s, x : s = m.outputs /\ x = m.open
    OBVIOUS
  <2>4. s \in Seq(Nat) /\ Len(s) \in Nat
    BY <1>5, <2>3
  <2>5. Range(Append(s, x)) = Range(s) \cup {x}
    BY <2>4, Appended
  <2> QED BY <2>1, <2>2, <2>3, <2>5
<1>8. /\ k # None => k \in pending \cap DOMAIN tables
      /\ o \in Nat
      /\ o \notin DOMAIN tables \ pending
  BY <1>5, <1>6, <1>7
<1>9. e \in Entry /\ Tail(m.input) \in Seq(Entry)
  BY <1>4, <1>5
<1>10. d \in Data \ {{}}
  <2>1. k # None => tables[o] \in Data
    BY <1>7, <1>8 DEF LevelInv, MemoryOK
  <2>2. d = (IF k = None THEN {} ELSE tables[o]) \cup {e}
    BY <1>4
  <2> HIDE DEF e
  <2>3. PICK S : S = IF k = None THEN {} ELSE tables[o]
    OBVIOUS
  <2>4. S \in Data
    BY <2>1, <2>3, NoDataIsData
  <2> QED BY <1>9, <2>2, <2>3, <2>4, OneMore
<1>11. /\ drop => UNCHANGED <<nextFile, tables, pending>>
       /\ ~drop => /\ tables' = [n \in DOMAIN tables \cup {o} |-> IF n = o THEN d ELSE tables[n]]
                   /\ nextFile' = IF k = None THEN nextFile + 1 ELSE nextFile
                   /\ pending' = pending \cup {o}
  <2> HIDE DEF kept, out, data
  <2> QED BY <1>3, <1>4
<1>12. /\ en = IF m.open # None /\ stop THEN Append(m.outputs, m.open) ELSE m.outputs
       /\ k = IF stop THEN None ELSE m.open
  BY <1>4
<1>13. /\ drop => op = k /\ ou = en
       /\ ~drop => \/ op = None /\ ou = Append(en, o)
                   \/ op = o /\ ou = en
  <2> HIDE DEF kept, out, ended, data
  <2>1. CASE drop
    <3>1. ~full
      BY <2>1
    <3> HIDE DEF full
    <3> QED BY <1>4, <2>1, <3>1
  <2>2. CASE ~drop
    <3> HIDE DEF full
    <3> QED BY <1>4, <2>2
  <2> QED BY <2>1, <2>2
<1> HIDE DEF e, kept, out, ended, data, full, open2, outs2
\* The outputs are those before, and the one that an entry went to.
<1>14. /\ ou \in Seq(Nat)
       /\ Range(ou) \cup (IF op = None THEN {} ELSE {op}) \subseteq Range(Outputs) \cup (IF drop THEN {} ELSE {o})
  <2>0. PICK s, x : s = m.outputs /\ x = m.open
    OBVIOUS
  <2>1. s \in Seq(Nat) /\ (x # None => x \in Nat) /\ o \in Nat
    BY <1>5, <1>6, <1>7, <1>8, <2>0
  <2>2. /\ en \in Seq(Nat)
        /\ Range(en) \cup (IF k = None THEN {} ELSE {k}) \subseteq Range(Outputs)
    <3>1. CASE x # None /\ stop
      <4>1. en = Append(s, x) /\ k = None
        BY <1>12, <2>0, <3>1
      <4>2. Append(s, x) \in Seq(Nat) /\ Range(Append(s, x)) = Range(s) \cup {x}
        BY <2>1, <3>1, Appended
      <4> QED BY <1>7, <2>0, <3>1, <4>1, <4>2
    <3>2. CASE ~(x # None /\ stop)
      <4>1. en = s /\ k \in {None, x}
        BY <1>12, <2>0, <3>2
      <4> QED BY <1>7, <2>0, <2>1, <4>1
    <3> QED BY <3>1, <3>2
  <2>3. CASE drop
    BY <1>13, <2>2, <2>3
  <2>4. CASE ~drop
    <3>1. Append(en, o) \in Seq(Nat) /\ Range(Append(en, o)) = Range(en) \cup {o}
      BY <2>1, <2>2, Appended
    <3> QED BY <1>13, <2>2, <2>4, <3>1
  <2> QED BY <2>3, <2>4
<1>15. PICK mm : mm = merge'
  OBVIOUS
<1>16. /\ DOMAIN mm = DOMAIN m /\ mm.c = m.c /\ mm.version = m.version
       /\ mm.input = Tail(m.input) /\ mm.open = op /\ mm.outputs = ou
  <2>1. PICK key2, last2 : mm = [m EXCEPT !.input = Tail(@), !.key = key2, !.last = last2,
                                          !.place = place2, !.open = op, !.outputs = ou]
    BY <1>2, <1>4, <1>15
  <2> QED BY <1>5, <2>1
<1>17. Range(Outputs') \subseteq Range(Outputs) \cup (IF drop THEN {} ELSE {o})
  <2>1. Outputs' = IF op = None THEN ou ELSE Append(ou, op)
    BY <1>15, <1>16 DEF Outputs
  <2>2. op # None => Range(Append(ou, op)) = Range(ou) \cup {op}
    BY <1>14, Appended
  <2> QED BY <1>14, <2>1, <2>2
<1>18. /\ DOMAIN tables' = DOMAIN tables \cup (IF drop THEN {} ELSE {o})
       /\ pending' = pending \cup (IF drop THEN {} ELSE {o})
       /\ \A n \in DOMAIN tables \ pending : tables'[n] = tables[n]
       /\ \A n \in DOMAIN tables' : tables'[n] = d \/ (n \in DOMAIN tables /\ tables'[n] = tables[n])
       /\ nextFile' \in {nextFile, nextFile + 1} /\ (drop \/ o \in 0..(nextFile' - 1))
  <2>1. CASE drop
    BY <1>11, <2>1
  <2>2. CASE ~drop
    <3>1. tables' = [n \in DOMAIN tables \cup {o} |-> IF n = o THEN d ELSE tables[n]]
      BY <1>11, <2>2
    <3>2. o \in 0..(nextFile' - 1) /\ nextFile' \in {nextFile, nextFile + 1}
      BY <1>6, <1>7, <1>8, <1>11, <2>2
    <3> QED BY <1>8, <1>11, <2>2, <3>1, <3>2
  <2> QED BY <2>1, <2>2
<1>19. MergeOK'
  <2>1. Range(Outputs') \subseteq pending' \cap DOMAIN tables'
    BY <1>5, <1>17, <1>18
  <2> QED BY <1>1, <1>5, <1>9, <1>14, <1>15, <1>16, <2>1 DEF MergeOK
<1>20. AllOK(versions', Proper(tables', pending'))
  <2>1. PICK ts, ps, ts2, ps2, vs :
          ts = tables /\ ps = pending /\ ts2 = tables' /\ ps2 = pending' /\ vs = versions
    OBVIOUS
  <2>2. \A n \in DOMAIN ts \ ps : n \in DOMAIN ts2 \ ps2 /\ ts2[n] = ts[n]
    BY <1>8, <1>18, <2>1
  <2>3. Proper(ts, ps) \subseteq Proper(ts2, ps2)
    BY <2>2, ProperStays
  <2>4. AllOK(vs, Proper(ts, ps))
    BY <2>1 DEF LevelInv
  <2>5. AllOK(vs, Proper(ts2, ps2))
    BY <2>3, <2>4, OKStays
  <2> QED BY <1>1, <2>1, <2>5
<1>21. MemoryOK'
  <2>1. \A n \in DOMAIN tables' : tables'[n] \in Data \ {{}}
    BY <1>10, <1>18 DEF LevelInv, MemoryOK
  <2> QED BY <1>1, <2>1 DEF LevelInv, MemoryOK
<1>22. NumbersOK'
  BY <1>6, <1>18 DEF NumbersOK
<1> QED
  BY <1>1, <1>19, <1>20, <1>21, <1>22 DEF LevelInv, HeldOK, FlushOK, ManualOK

LEMMA InstallKeeps ==
  ASSUME LevelInv, InstallCompactionResults
  PROVE  LevelInv'
<1>1. /\ UNCHANGED <<mem, imm, lastSequence, nextFile, flush, readers>>
      /\ merge # None /\ flush = None /\ merge' = None
      /\ pending' = pending \ Range(Outputs)
      /\ tables' = DeleteObsoleteFiles(tables, versions', pending')
      /\ manual' \in {manual, ManualAfter(merge.c)}
  BY DEF InstallCompactionResults, writeVars, readVars
<1>2. /\ "added" \in DOMAIN merge.c.edit /\ merge.c.edit.added = << >>
      /\ Range(Outputs) \subseteq pending \cap DOMAIN tables
      /\ Outputs \in Seq(Nat)
  <2>1. PICK s, x : s = merge.outputs /\ x = merge.open
    OBVIOUS
  <2>2. Outputs = IF x = None THEN s ELSE Append(s, x)
    BY <2>1 DEF Outputs
  <2>3. s \in Seq(Nat) /\ Range(Outputs) \subseteq pending \cap DOMAIN tables
    BY <1>1, <2>1 DEF LevelInv, MergeOK
  <2>4. CASE x = None
    BY <1>1, <2>2, <2>3, <2>4 DEF LevelInv, MergeOK
  <2>5. CASE x # None
    <3>1. Range(Append(s, x)) = Range(s) \cup {x}
      BY <2>3, Appended
    <3>2. x \in Nat
      BY <2>2, <2>3, <2>5, <3>1 DEF LevelInv, NumbersOK
    <3> QED BY <1>1, <2>2, <2>3, <2>5, <3>2 DEF LevelInv, MergeOK
  <2> QED BY <2>4, <2>5
<1>3. PICK edit, m, ps, P : /\ edit = MergeEdit /\ m = None /\ ps = pending \ Range(Outputs)
                            /\ P = Proper(tables, ps)
  OBVIOUS
<1>4. LogAndApply(edit, readers, m)
  BY <1>3 DEF InstallCompactionResults
<1>5. Distinct(P)
  BY <1>3, FilesDistinct
<1>6. AllOK(versions, P)
  <2>1. Proper(tables, pending) \subseteq P
    BY <1>3, ProperStays
  <2>2. AllOK(versions, Proper(tables, pending))
    BY DEF LevelInv
  <2> QED BY <2>1, <2>2, OKStays
<1>7. IsFiniteSet(Range(edit.added)) /\ \A a \in Range(edit.added) : a.file \in P
  <2> DEFINE file(i) == FileOver(Outputs[i], InKeyOrder(tables[Outputs[i]]))
             new == [i \in DOMAIN Outputs |-> [level |-> merge.c.level + 1, file |-> file(i)]]
  <2>1. PICK g, d, s : g = merge.c.edit /\ d = AddInputDeletions(merge.c) /\ s = new
    OBVIOUS
  <2>2. PICK gone : d = [g EXCEPT !.deleted = gone]
    BY <2>1 DEF AddInputDeletions
  <2>3. "added" \in DOMAIN d /\ d.added = << >>
    BY <1>2, <2>1, <2>2
  <2>4. edit = [d EXCEPT !.added = @ \o s]
    BY <1>3, <2>1 DEF MergeEdit
  <2>5. DOMAIN Outputs = 1..Len(Outputs) /\ Len(Outputs) \in Nat
    BY <1>2
  <2>6. \A i \in DOMAIN Outputs : file(i) \in P
    <3> SUFFICES ASSUME NEW i \in DOMAIN Outputs PROVE file(i) \in P
      OBVIOUS
    <3>1. Outputs[i] \in Range(Outputs)
      BY DEF Range
    <3>2. Outputs[i] \in DOMAIN tables \ ps
      BY <1>2, <1>3, <3>1
    <3> QED BY <1>3, <3>2 DEF Proper
  <2>7. /\ DOMAIN s = DOMAIN Outputs
        /\ \A i \in DOMAIN Outputs : s[i].file \in P
    BY <2>1, <2>6
  <2>8. s \in Seq({a \in Range(s) : a.file \in P})
    <3>1. \A i \in 1..Len(Outputs) : s[i] \in {a \in Range(s) : a.file \in P}
      BY <2>5, <2>7 DEF Range
    <3>2. s = [i \in 1..Len(Outputs) |-> s[i]]
      BY <2>1, <2>5
    <3> HIDE DEF new
    <3> QED BY <2>5, <3>1, <3>2
  <2>9. edit.added = s
    <3>1. edit.added = << >> \o s
      BY <2>3, <2>4
    <3>2. << >> \o s = s
      BY <2>8
    <3> QED BY <3>1, <3>2
  <2> QED BY <2>8, <2>9, RangeFinite
<1>8. /\ AllOK(versions', P)
      /\ current' \in DOMAIN versions'
      /\ \A r \in Readers : readers[r] # None => readers[r].version \in DOMAIN versions'
  BY <1>3, <1>4, <1>5, <1>6, <1>7, LoggedAndApplied
<1>9. /\ AllOK(versions', Proper(tables', pending'))
      /\ DOMAIN tables' \subseteq DOMAIN tables /\ \A n \in DOMAIN tables' : tables'[n] = tables[n]
  <2>1. PICK ts, vs, ts2 : ts = tables /\ vs = versions' /\ ts2 = tables'
    OBVIOUS
  <2>2. AllOK(vs, Proper(ts, ps))
    BY <1>3, <1>8, <2>1
  <2>3. ts2 = DeleteObsoleteFiles(ts, vs, ps)
    BY <1>1, <1>3, <2>1
  <2>4. /\ AllOK(vs, Proper(ts2, ps))
        /\ DOMAIN ts2 \subseteq DOMAIN ts /\ \A n \in DOMAIN ts2 : ts2[n] = ts[n]
    BY <2>2, <2>3, DeletionKeeps
  <2> QED BY <1>1, <1>3, <2>1, <2>4
<1>10. MemoryOK' /\ NumbersOK' /\ FlushOK' /\ MergeOK'
  BY <1>1, <1>9 DEF LevelInv, MemoryOK, NumbersOK, FlushOK, MergeOK
<1>11. HeldOK'
  BY <1>1, <1>8 DEF LevelInv, HeldOK
<1>12. ManualOK'
  <2>1. PICK c : c = merge.c
    OBVIOUS
  <2>2. ManualOK /\ manual' \in {manual, ManualAfter(c)}
    BY <1>1, <2>1 DEF LevelInv
  <2>3. CASE manual' = manual
    BY <2>2, <2>3 DEF ManualOK
  <2>4. CASE manual' = ManualAfter(c)
    BY <2>2, <2>4, ManualAfterKeeps
  <2> QED BY <2>2, <2>3, <2>4
<1> QED
  BY <1>9, <1>10, <1>11, <1>12 DEF LevelInv

--------------------------------------------------------------------------
\* LevelInv holds in every state of the store: every version lists only finished
\* table files, and whoever reads or merges holds a version that lives.
THEOREM LevelInvariant == Spec => []LevelInv
<1>1. Init => LevelInv
  BY InitEstablishes
<1>2. LevelInv /\ [Next]_vars => LevelInv'
  <2> SUFFICES ASSUME LevelInv, [Next]_vars PROVE LevelInv'
    OBVIOUS
  <2>1. CASE Clients
    <3>1. ASSUME NEW k \in Keys, NEW type \in Types, Write(k, type) PROVE LevelInv'
      BY <3>1, WriteKeeps
    <3>2. CASE GetSnapshot \/ \E i \in DOMAIN snapshots : ReleaseSnapshot(i)
      <4>1. UNCHANGED levelVars
        BY <3>2 DEF GetSnapshot, ReleaseSnapshot, levelVars, writeVars, fileVars, readVars, manualVars
      <4> QED BY <4>1, NothingChanges
    <3>3. ASSUME NEW r \in Readers, NEW key, NEW seq, Start(r, key, seq) PROVE LevelInv'
      BY <3>3, StartKeeps
    <3>4. ASSUME NEW r \in Readers, End(r) PROVE LevelInv'
      BY <3>4, EndKeeps
    <3>5. ASSUME NEW r \in Readers, NEW u \in Keys, Sample(r, u) PROVE LevelInv'
      BY <3>5, SampleKeeps
    <3> QED BY <2>1, <3>1, <3>2, <3>3, <3>4, <3>5 DEF Clients
  <2>2. CASE RangeCompaction
    BY <2>2, RangeCompactionKeeps
  <2>3. CASE Background
    BY <2>3, BuildTableKeeps, CommitKeeps, NothingToCompactKeeps, MoveKeeps,
       StartCompactionKeeps, MergeEntryKeeps, InstallKeeps DEF Background
  <2>4. CASE FlushError \/ MergeError
    BY <2>4, FlushErrorKeeps, MergeErrorKeeps
  <2>5. CASE UNCHANGED vars
    BY <2>5, NothingChanges DEF vars, levelVars
  <2> QED BY <2>1, <2>2, <2>3, <2>4, <2>5 DEF Next
<1> QED
  BY <1>1, <1>2, PTL DEF Spec

LEMMA InvImpliesPinned == LevelInv => PinnedFilesExist
<1> SUFFICES ASSUME LevelInv PROVE PinnedFilesExist
  OBVIOUS
<1>1. ASSUME NEW id \in DOMAIN versions, NEW l \in Levels, NEW f \in Range(versions[id].files[l])
      PROVE  f.number \in DOMAIN tables
  <2>1. versions[id].files[l] \in Seq(Proper(tables, pending))
    BY DEF LevelInv, AllOK, VersionOK
  <2>2. f \in Proper(tables, pending)
    BY <2>1, RangeFinite
  <2>3. PICK n \in DOMAIN tables : f = FileOver(n, InKeyOrder(tables[n]))
    BY <2>2 DEF Proper
  <2> QED BY <2>3 DEF FileOver
<1>2. AddLiveFiles(Range(versions)) \subseteq DOMAIN tables
  <2> SUFFICES ASSUME NEW v \in Range(versions), NEW l \in Levels, NEW f \in Range(v.files[l])
               PROVE  f.number \in DOMAIN tables
    BY DEF AddLiveFiles
  <2>1. PICK id \in DOMAIN versions : v = versions[id]
    BY DEF Range
  <2> QED BY <1>1, <2>1
<1> QED
  BY <1>2 DEF PinnedFilesExist, LevelInv, MergeOK

\* A reader and a merge can open every file they need: no file that a live version lists
\* or that is being written is deleted, whatever is flushed, compacted, charged for
\* seeks or given up after an error meanwhile.
THEOREM PinnedFilesStay == Spec => []PinnedFilesExist
  BY LevelInvariant, InvImpliesPinned, PTL

=============================================================================

----------------------------- MODULE LevelFiles -----------------------------
(***************************************************************************)
(* The table files of a LevelDB store, level by level, and what version_   *)
(* set.cc computes on them: which files a read searches, how an edit makes *)
(* the next version, which files a compaction takes and where it cuts its  *)
(* outputs.  Operators only; LevelStore is the machine that uses them.     *)
(*                                                                         *)
(* An internal key is <<user key, sequence number, type>>; a user key is a *)
(* number.  A file's size is the number of its entries.                    *)
(***************************************************************************)
EXTENDS Integers, Sequences, SequencesExt, FiniteSetsExt

CONSTANTS
  Keys,               \* user keys
  NumLevels,          \* config::kNumLevels
  MaxMemCompactLevel, \* config::kMaxMemCompactLevel
  CompactionTrigger,  \* config::kL0_CompactionTrigger
  MaxFileSize,        \* options_->max_file_size
  GrandParentFactor,  \* 10 in the code: grandparent overlap, in files
  ExpansionFactor,    \* 25 in the code: size of an expanded compaction
  LevelOneSize,       \* 10 MB in the code
  LevelFactor,        \* 10 in the code: each level's size to the one before
  MaxSequenceNumber,  \* kMaxSequenceNumber
  InitialSeeks,       \* allowed_seeks of a new file (at least 100 in the code)
  None                \* a null pointer

ASSUME LevelFilesAssumption ==
  /\ Keys \subseteq Nat
  /\ NumLevels \in Nat \ {0, 1} /\ MaxMemCompactLevel \in 0..(NumLevels - 1)
  /\ {CompactionTrigger, LevelOneSize, LevelFactor} \subseteq Nat \ {0}
  /\ {MaxFileSize, GrandParentFactor, ExpansionFactor} \subseteq Nat
  /\ MaxSequenceNumber \in Nat /\ InitialSeeks \in Nat

Levels == 0..(NumLevels - 1)

\* The element of a singleton.  A local value bound through it is computed once, where
\* a LET in an action may be computed at each use.
The(S) == CHOOSE x \in S : TRUE

--------------------------------------------------------------------------
(* Keys and files                                                         *)

User(key) == key[1]
SequenceOf(key) == key[2]

\* Ascending user keys; of one user key, the newest first (of two with one number,
\* which no store has, the value).
Less(a, b) ==
  \/ User(a) < User(b)
  \/ /\ User(a) = User(b)
     /\ \/ SequenceOf(a) > SequenceOf(b)
        \/ SequenceOf(a) = SequenceOf(b) /\ a[3] = "value" /\ b[3] = "deletion"

AtMost(a, b) == ~Less(b, a)

\* The first and the last internal key a user key can have.
SeekKey(u) == <<u, MaxSequenceNumber, "value">>
InternalKey == Keys \X (0..MaxSequenceNumber) \X {"value", "deletion"}

FileMetaData ==
  [number : Nat, size : Nat, smallest : InternalKey, largest : InternalKey]

\* The file over a sorted sequence of entries.
FileOver(number, entries) ==
  [number |-> number, size |-> Len(entries),
   smallest |-> entries[1], largest |-> entries[Len(entries)]]

InKeyOrder(entries) ==
  [i \in 1..Cardinality(entries) |->
     CHOOSE e \in entries : Cardinality({g \in entries : Less(g, e)}) = i - 1]

BySmallestKey(f, g) ==
  Less(f.smallest, g.smallest) \/ (f.smallest = g.smallest /\ f.number < g.number)

InFileOrder(files) ==
  [i \in 1..Cardinality(files) |->
     CHOOSE f \in files : Cardinality({g \in files : BySmallestKey(g, f)}) = i - 1]

MaxGrandParentOverlapBytes == GrandParentFactor * MaxFileSize
ExpandedCompactionByteSizeLimit == ExpansionFactor * MaxFileSize
MaxBytesForLevel(level) ==
  LET limit[l \in 0..level] == IF l > 1 THEN LevelFactor * limit[l - 1] ELSE LevelOneSize
  IN  limit[level]

TotalFileSize(files) ==
  LET upTo[n \in 0..Len(files)] == IF n = 0 THEN 0 ELSE upTo[n - 1] + files[n].size
  IN  upTo[Len(files)]

--------------------------------------------------------------------------
(* Versions: the files of each level, the file a read wants compacted, and *)
(* the level Finalize found most in need of it, with its score as a pair.  *)

Version(files) == [files |-> files, toCompact |-> None, level |-> -1, score |-> <<-1, 1>>]

EmptyVersion == Version([l \in Levels |-> << >>])

NumLevelFiles(v, level) == Len(v.files[level])

HigherScore(a, b) == a[1] * b[2] > b[1] * a[2]

ScoreOf(v, level) ==
  IF level = 0 THEN <<NumLevelFiles(v, 0), CompactionTrigger>>
               ELSE <<TotalFileSize(v.files[level]), MaxBytesForLevel(level)>>

\* The level in turn, if its score is higher than the best so far.
Better(v, level) ==
  IF HigherScore(ScoreOf(v, level), v.score)
  THEN [v EXCEPT !.level = level, !.score = ScoreOf(v, level)] ELSE v

Finalize(v) ==
  LET best[n \in 0..(NumLevels - 1)] ==
        IF n = 0 THEN v ELSE The({Better(b, n - 1) : b \in {best[n - 1]}})
  IN  best[NumLevels - 1]

SizeCompaction(v) == v.score[1] >= v.score[2]
SeekCompaction(v) == v.toCompact # None
NeedsCompaction(v) == SizeCompaction(v) \/ SeekCompaction(v)

\* The numbers of all the files of a set of versions.
AddLiveFiles(versions) ==
  {f.number : f \in UNION {Range(v.files[l]) : v \in versions, l \in Levels}}

--------------------------------------------------------------------------
(* Searching                                                              *)

\* The first position, from 0, whose file ends at or after key.
FindFile(files, key) ==
  LET search[left \in Nat, right \in Nat] ==
        IF left >= right THEN right
        ELSE LET mid == (left + right) \div 2
             IN  IF Less(files[mid + 1].largest, key)
                 THEN search[mid + 1, right] ELSE search[left, mid]
  IN  search[0, Len(files)]

AfterFile(u, f) == u # None /\ u > User(f.largest)
BeforeFile(u, f) == u # None /\ u < User(f.smallest)

SomeFileOverlapsRange(disjoint, files, smallest, largest) ==
  IF ~disjoint
  THEN \E f \in Range(files) : ~AfterFile(smallest, f) /\ ~BeforeFile(largest, f)
  ELSE LET index == IF smallest = None THEN 0 ELSE FindFile(files, SeekKey(smallest))
       IN  index < Len(files) /\ ~BeforeFile(largest, files[index + 1])

OverlapInLevel(v, level, smallest, largest) ==
  SomeFileOverlapsRange(level > 0, v.files[level], smallest, largest)

\* The files of level 0 that may hold u, newest first.
NewestFirst(files, u) ==
  LET holds == {f \in Range(files) : User(f.smallest) <= u /\ u <= User(f.largest)}
  IN  [i \in 1..Cardinality(holds) |->
         CHOOSE f \in holds : Cardinality({g \in holds : g.number > f.number}) = i - 1]

\* The one file of a level above 0 that may hold key.
FileAt(files, key) ==
  LET index == FindFile(files, key)
  IN  IF index + 1 \in DOMAIN files /\ User(files[index + 1].smallest) <= User(key)
      THEN <<files[index + 1]>> ELSE << >>

\* The files that may hold key, in the order they are visited, with their level.
ForEachOverlapping(v, key) ==
  LET at(level) == IF level = 0 THEN NewestFirst(v.files[0], User(key))
                                ELSE FileAt(v.files[level], key)
      visits(level) == [i \in DOMAIN at(level) |-> [level |-> level, file |-> at(level)[i]]]
      upTo[n \in 0..NumLevels] ==
        IF n = 0 THEN << >> ELSE upTo[n - 1] \o visits(n - 1)
  IN  upTo[NumLevels]

\* What a table answers: its first entry at or after key, if it is of the user key.
SaveValue(entries, key) ==
  {e \in entries : /\ User(e) = User(key) /\ AtMost(key, e)
                   /\ \A g \in entries : AtMost(key, g) => AtMost(e, g)}

\* The first of the files visited that answers, or the number of files if none does.
FirstHit(visits, key, tables) ==
  LET hits == {i \in DOMAIN visits : SaveValue(tables[visits[i].file.number], key) # {}}
  IN  IF hits = {} THEN Len(visits) ELSE Min(hits)

\* Version::Get: the entry found, if there is one; and the file that is charged for
\* the seek, the first one visited when there was a second.
VersionGet(v, key, tables) ==
  UNION {UNION {SaveValue(tables[visits[i].file.number], key) :
                  i \in {FirstHit(visits, key, tables)} \ {0}} :
         visits \in {ForEachOverlapping(v, key)}}

Charged(v, key, tables) ==
  LET visits == ForEachOverlapping(v, key)
  IN  IF FirstHit(visits, key, tables) > 1 THEN visits[1] ELSE None

\* The file a sampled read charges: the first of two that may hold the key.
RecordReadSample(v, key) ==
  LET visits == ForEachOverlapping(v, key)
  IN  IF Len(visits) >= 2 THEN visits[1] ELSE None

\* The FileMetaData of a file: versions share one, but a file that was moved to
\* another level has one of its own there.
MetaData(level, f) == <<level, f.number>>

\* Charge a file for a seek; seeks are the ones the files have left.
ChargeSeek(seeks, charged) ==
  IF charged = None THEN seeks
  ELSE [seeks EXCEPT ![MetaData(charged.level, charged.file)] = @ - 1]

UpdateStats(v, seeks, charged) ==
  IF /\ charged # None /\ v.toCompact = None
     /\ seeks[MetaData(charged.level, charged.file)] - 1 <= 0
  THEN [v EXCEPT !.toCompact = charged] ELSE v

\* The files that overlap [begin, end], in their order.
Overlapping(files, begin, end) ==
  LET upTo[n \in 0..Len(files)] ==
        IF n = 0 THEN << >>
        ELSE IF /\ begin = None \/ User(files[n].largest) >= begin
                /\ end = None \/ User(files[n].smallest) <= end
        THEN Append(upTo[n - 1], files[n]) ELSE upTo[n - 1]
  IN  upTo[Len(files)]

\* The range grows with each file found in it, until no file widens it any more.
GrownRange(files, begin, end) ==
  LET lower(b, e) == {User(f.smallest) : f \in Range(Overlapping(files, b, e))} \cup {b}
      upper(b, e) == {User(f.largest) : f \in Range(Overlapping(files, b, e))} \cup {e}
      grow[b \in Keys \cup {None}, e \in Keys \cup {None}] ==
        LET wider == <<IF b = None THEN None ELSE Min(lower(b, e)),
                       IF e = None THEN None ELSE Max(upper(b, e))>>
        IN  IF wider = <<b, e>> THEN wider ELSE grow[wider[1], wider[2]]
  IN  grow[begin, end]

\* The files of a level that overlap [begin, end], at level 0 those in the grown range.
GetOverlappingInputs(v, level, begin, end) ==
  LET range == GrownRange(v.files[0], begin, end)
  IN  IF level > 0 THEN Overlapping(v.files[level], begin, end)
      ELSE Overlapping(v.files[0], range[1], range[2])

\* The level for a new table over these user keys.
PickLevelForMemTableOutput(v, smallest, largest) ==
  LET mayPass(level) ==
        /\ level < MaxMemCompactLevel
        /\ ~OverlapInLevel(v, level + 1, smallest, largest)
        /\ level + 2 < NumLevels =>
             TotalFileSize(GetOverlappingInputs(v, level + 2, smallest, largest))
               <= MaxGrandParentOverlapBytes
      push[level \in Nat] == IF mayPass(level) THEN push[level + 1] ELSE level
  IN  IF OverlapInLevel(v, 0, smallest, largest) THEN 0 ELSE push[0]

MaxNextLevelOverlappingBytes(v) ==
  Max({0} \cup {TotalFileSize(GetOverlappingInputs(v, level + 1, User(f.smallest), User(f.largest))) :
                  level \in 1..(NumLevels - 2),
                  f \in UNION {Range(v.files[l]) : l \in 1..(NumLevels - 2)}})

\* The files of a level that are looked at: above level 0 none behind the first one
\* that starts after key.
Looked(files, level, key) ==
  LET after == SelectInSeq(files, LAMBDA f : Less(key, f.smallest))
  IN  IF level > 0 /\ after > 0 THEN SubSeq(files, 1, after - 1) ELSE files

\* (Mutant: a file that key lies in counts as one after it.)
OffsetInFileOf(f, key, tables) == IF AtMost(f.largest, key) THEN f.size ELSE 0

\* The table's offset of key, where key lies in the file.
OffsetInFile(f, key, tables) ==
  IF AtMost(f.largest, key) THEN f.size
  ELSE IF Less(key, f.smallest) THEN 0
  ELSE Cardinality({e \in tables[f.number] : Less(e, key)})

\* The number of entries of v before key, as the files' sizes tell it.
ApproximateOffsetOf(v, key, tables) ==
  LET level(l) == FoldLeft(LAMBDA sum, f : sum + OffsetInFile(f, key, tables), 0,
                           Looked(v.files[l], l, key))
  IN  FoldLeft(LAMBDA sum, l : sum + level(l), 0, [i \in 1..NumLevels |-> i - 1])

\* What lies in [start, limit) of the user keys.
GetApproximateSizes(v, start, limit, tables) ==
  LET from == ApproximateOffsetOf(v, SeekKey(start), tables)
      to   == ApproximateOffsetOf(v, SeekKey(limit), tables)
  IN  IF to >= from THEN to - from ELSE 0

--------------------------------------------------------------------------
(* Edits: VersionEdit and VersionSet::Builder                              *)

EmptyEdit == [pointers |-> << >>, deleted |-> {}, added |-> << >>]
SetCompactPointer(edit, level, key) ==
  [edit EXCEPT !.pointers = Append(@, [level |-> level, key |-> key])]
DeleteFile(edit, level, number) ==
  [edit EXCEPT !.deleted = @ \cup {<<level, number>>}]
AddFile(edit, level, file) ==
  [edit EXCEPT !.added = Append(@, [level |-> level, file |-> file])]

\* What the builder gathers: per level, the files to drop and those to add.
EmptyBuilder == [deleted |-> [l \in Levels |-> {}], added |-> [l \in Levels |-> {}]]

Apply(builder, edit) ==
  LET new(l) == {a.file : a \in {b \in Range(edit.added) : b.level = l}}
      gone(l) == {d[2] : d \in {x \in edit.deleted : x[1] = l}}
  IN  [deleted |-> [l \in Levels |->
         (builder.deleted[l] \cup gone(l)) \ {f.number : f \in new(l)}],
       added   |-> [l \in Levels |-> builder.added[l] \cup new(l)]]

PointersAfter(pointers, edit) ==
  FoldLeft(LAMBDA p, s : [p EXCEPT ![s.level] = s.key], pointers, edit.pointers)

\* (Mutant: deleted files are added again.)
AddsAnyFile(builder, level, f) == TRUE

MaybeAddFile(builder, level, f) == f.number \notin builder.deleted[level]

SaveTo(base, builder) ==
  Version([l \in Levels |->
    InFileOrder({f \in Range(base.files[l]) \cup builder.added[l] : MaybeAddFile(builder, l, f)})])

NextVersion(base, edit) ==
  The({Finalize(v) : v \in {SaveTo(base, b) : b \in {Apply(EmptyBuilder, edit)}}})

--------------------------------------------------------------------------
(* Choosing a compaction                                                  *)

GetRange(files) ==
  [smallest |-> CHOOSE k \in {f.smallest : f \in Range(files)} :
                  \A f \in Range(files) : AtMost(k, f.smallest),
   largest  |-> CHOOSE k \in {f.largest : f \in Range(files)} :
                  \A f \in Range(files) : AtMost(f.largest, k)]

GetRange2(files1, files2) == GetRange(files1 \o files2)

FindLargestKey(files) == GetRange(files).largest

\* The first file after key that continues its user key, if there is one.
FindSmallestBoundaryFile(files, key) ==
  LET boundary == {f \in Range(files) : Less(key, f.smallest) /\ User(f.smallest) = User(key)}
  IN  IF boundary = {} THEN None
      ELSE CHOOSE f \in boundary : \A g \in boundary : AtMost(f.smallest, g.smallest)

\* (Mutant: as it was before boundary files were added.)
NoBoundaryInputs(levelFiles, inputs) == inputs

AddBoundaryInputs(levelFiles, inputs) ==
  LET first == FindSmallestBoundaryFile(levelFiles, FindLargestKey(inputs))
      after[n \in 0..Len(levelFiles)] ==
        IF n = 0 THEN first
        ELSE LET f == after[n - 1]
             IN  IF f = None THEN None ELSE FindSmallestBoundaryFile(levelFiles, f.largest)
      boundary == {f \in Range(levelFiles) : \E n \in DOMAIN after : after[n] = f}
  IN  IF inputs = << >> \/ first = None THEN inputs
      ELSE inputs \o InFileOrder(boundary)

\* The files of level and level + 1 a compaction starting from inputs takes.
Overlaps(v, level, range) ==
  The({GetOverlappingInputs(v, level, User(r.smallest), User(r.largest)) : r \in {range}})

FirstInputs(v, level, files) == <<files, Overlaps(v, level + 1, GetRange(files))>>

\* The inputs grow to all the files of the level in the whole range, if that takes no
\* more files of the next level and stays within the limit.
Expanded(v, level, inputs, files) ==
  LET wider == Overlaps(v, level + 1, GetRange(files))
  IN  IF /\ inputs[2] # << >> /\ Len(files) > Len(inputs[1])
         /\ TotalFileSize(inputs[2]) + TotalFileSize(files) < ExpandedCompactionByteSizeLimit
         /\ Len(wider) = Len(inputs[2])
      THEN <<files, wider>> ELSE inputs

WholeRange(v, level, inputs) ==
  AddBoundaryInputs(v.files[level], Overlaps(v, level, GetRange2(inputs[1], inputs[2])))

\* A Compaction: its level, its inputs, the files two levels up, its edit.
Compaction(v, level, inputs) ==
  [level |-> level, inputs |-> inputs,
   grandparents |-> IF level + 2 < NumLevels
                    THEN Overlaps(v, level + 2, GetRange2(inputs[1], inputs[2])) ELSE << >>,
   edit |-> SetCompactPointer(EmptyEdit, level, GetRange(inputs[1]).largest)]

SetupOtherInputs(v, level, picked) ==
  LET first    == {FirstInputs(v, level, f) : f \in {AddBoundaryInputs(v.files[level], picked)}}
      expanded == UNION {{Expanded(v, level, i, f) : f \in {WholeRange(v, level, i)}} : i \in first}
  IN  The({Compaction(v, level, i) : i \in expanded})

\* The file after the level's compaction pointer, or its first file.
PickedFile(files, pointer) ==
  LET after == {i \in DOMAIN files : pointer = None \/ Less(pointer, files[i].largest)}
  IN  IF after = {} THEN files[1] ELSE files[Min(after)]

PickCompaction(v, pointers) ==
  LET level  == IF SizeCompaction(v) THEN v.level ELSE v.toCompact.level
      picked == IF SizeCompaction(v) THEN <<PickedFile(v.files[level], pointers[level])>>
                                     ELSE <<v.toCompact.file>>
      inputs == IF level = 0 THEN Overlaps(v, 0, GetRange(picked)) ELSE picked
  IN  IF NeedsCompaction(v) THEN SetupOtherInputs(v, level, inputs) ELSE None

\* As many of the files as it takes to reach the size of one output.
UpToLimit(files) ==
  LET reached == {i \in DOMAIN files : TotalFileSize(SubSeq(files, 1, i)) >= MaxFileSize}
  IN  IF reached = {} THEN files ELSE SubSeq(files, 1, Min(reached))

CompactRange(v, level, begin, end) ==
  LET inputs == GetOverlappingInputs(v, level, begin, end)
  IN  IF inputs = << >> THEN None
      ELSE SetupOtherInputs(v, level, IF level > 0 THEN UpToLimit(inputs) ELSE inputs)

IsTrivialMove(c) ==
  /\ Len(c.inputs[1]) = 1 /\ c.inputs[2] = << >>
  /\ TotalFileSize(c.grandparents) <= MaxGrandParentOverlapBytes

AddInputDeletions(c) ==
  [c.edit EXCEPT !.deleted = @ \cup
     UNION {{<<c.level + which - 1, f.number>> : f \in Range(c.inputs[which])} : which \in 1..2}]

\* The entries of the inputs, merged.
MakeInputIterator(c, tables) ==
  InKeyOrder(UNION {tables[f.number] : f \in Range(c.inputs[1]) \cup Range(c.inputs[2])})

--------------------------------------------------------------------------
(* The merge's place in the levels above: grandparent_index_, seen_key_,   *)
(* overlapped_bytes_ and level_ptrs_.                                      *)

MergeStart ==
  [grandparent |-> 0, seen |-> FALSE, overlapped |-> 0, ptrs |-> [l \in Levels |-> 0]]

ShouldStopBefore(c, place, key) ==
  LET passed == {i \in DOMAIN c.grandparents :
                   i > place.grandparent /\ Less(c.grandparents[i].largest, key)}
      index == IF passed = {} THEN place.grandparent ELSE Max(passed)
      bytes == place.overlapped + IF place.seen
                 THEN TotalFileSize(SubSeq(c.grandparents, place.grandparent + 1, index)) ELSE 0
      stop  == bytes > MaxGrandParentOverlapBytes
  IN  [stop |-> stop,
       place |-> [place EXCEPT !.grandparent = index, !.seen = TRUE,
                               !.overlapped = IF stop THEN 0 ELSE bytes]]

\* The pointer of a level, moved past the files that end before u.
PtrAt(files, p, u) ==
  LET reached == {i \in DOMAIN files : i > p /\ u <= User(files[i].largest)}
  IN  IF reached = {} THEN Len(files) ELSE Min(reached) - 1

KeyInFile(files, p, u) == p < Len(files) /\ User(files[p + 1].smallest) <= u

\* No file above the compaction's levels may hold u.
IsBaseLevelForKey(v, c, place, u) ==
  LET above == {l \in Levels : l >= c.level + 2}
      holds == {l \in above : KeyInFile(v.files[l], PtrAt(v.files[l], place.ptrs[l], u), u)}
  IN  [base |-> holds = {},
       place |-> [place EXCEPT !.ptrs = [l \in Levels |->
         IF l \in above /\ \A h \in holds : l <= h
         THEN PtrAt(v.files[l], place.ptrs[l], u) ELSE place.ptrs[l]]]]

=============================================================================

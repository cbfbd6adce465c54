------------------------------ MODULE MCFormats ------------------------------
(* The parts of the C and C++ libraries that do not run together, each        *)
(* checked by itself in one run: part names the one that runs, and all but    *)
(* its state stays as it is. Parts that are instances keep their state in     *)
(* x1 to x9, in the order in which their modules declare their variables.     *)
EXTENDS Nanopb, FileCache, Arena, TLC

VARIABLES part, x1, x2, x3, x4, x5, x6, x7, x8, x9

From9 == <<x9>>
From8 == <<x8, x9>>
From7 == <<x7, x8, x9>>
From6 == <<x6, x7, x8, x9>>
From5 == <<x5, x6, x7, x8, x9>>
From4 == <<x4, x5, x6, x7, x8, x9>>
From3 == <<x3, x4, x5, x6, x7, x8, x9>>
From1 == <<x1, x2, x3, x4, x5, x6, x7, x8, x9>>

Empty9 == x9 = 0
Empty8 == x8 = 0 /\ Empty9
Empty7 == x7 = 0 /\ Empty8
Empty6 == x6 = 0 /\ Empty7
Empty5 == x5 = 0 /\ Empty6
Empty4 == x4 = 0 /\ Empty5
Empty3 == x3 = 0 /\ Empty4
Empty1 == x1 = 0 /\ x2 = 0 /\ Empty3

-----------------------------------------------------------------------------
(* The messages and the schemas that are checked: what the telemetry sends    *)
(* and receives, and made-up ones with the kinds of fields it has none of.    *)

B(id, to) == [id |-> id, to |-> to]
No == [has |-> FALSE, v |-> 0]
Is(v) == [has |-> TRUE, v |-> v]
Ptr(id, to) == [has |-> TRUE, v |-> B(id, to)]
Nil == [has |-> FALSE, v |-> Null]

\* LogResponse
Qos(t, n) == <<IF t < 0 THEN No ELSE Is(t), Is(n)>>
Response ==
    [fields |-> LogResponseFields, frame |-> "plain",
     messages |-> {
        <<Is(300), [has |-> FALSE, v |-> ZeroMessage(QosTiersOverrideFields)]>>,
        <<No, Is(<<Ptr(1, <<Qos(3, -1), Qos(-1, 5)>>), Is(-2)>>)>>,
        <<No, Is(<<Nil, No>>)>>}]

Event(t) == <<Is(t), Ptr(1, <<1, 2, 3>>), No, Is(-t), No,
              [has |-> FALSE, v |-> ZeroMessage(NetworkConnectionInfoFields)]>>
Info == [i \in 1..7 |-> IF i < 3 THEN Ptr(i, <<i>>) ELSE Nil]
Request ==
    [fields |-> BatchedLogRequestFields, frame |-> "plain",
     messages |-> {<<Ptr(1, <<
         <<Is(<<Is(15), Is(Info)>>), Is(7), Ptr(2, <<Event(9), Event(40)>>), No, No, No>>,
         <<[has |-> FALSE, v |-> ZeroMessage(ClientInfoFields)], No, Nil, No, Is(0), Is(2)>> >>)>>}]

RulesFields ==
    <<Required(1, "uvarint", 1),
      Repeated(2, "svarint", Size32, 3),
      Repeated(3, "string", 3, 3),
      FixedCount(4, "fixed32", Size32, 2),
      Oneof("u", "static", 5, "varint", Size32),
      Sub(Oneof("u", "static", 6, "submessage", 0), NetworkConnectionInfoFields),
      CallbackField(7, "uvarint"),
      Optional(8, "fixed_bytes", 2),
      Singular(9, "fixed64", Size64),
      Optional(10, "bytes", 3),
      FixedCount(11, "string", 3, 2)>>
JoinFields == [i \in 1..9 |-> RulesFields[IF i < 4 THEN i ELSE i + 1]]
NoInfo == ZeroMessage(NetworkConnectionInfoFields)
Rules(frame) ==
    [fields |-> RulesFields, frame |-> frame,
     messages |-> {
        <<Is(5), Is(<<1, -3>>), Is(<< <<4, 0>>, <<1, 1>> >>), [has |-> 2, v |-> <<7, 8>>],
          Is(-7), [has |-> FALSE, v |-> NoInfo], [has |-> FALSE, v |-> Null], Is(<<1, 2>>), Is(0), Is(<<1, 2>>),
          [has |-> 2, v |-> << <<1>>, <<2>> >>]>>,
        <<Is(15), Is(<<>>), Is(<< >>), [has |-> 2, v |-> <<7, 8>>],
          [has |-> FALSE, v |-> 0], [has |-> TRUE, v |-> <<Is(-1), No>>], [has |-> FALSE, v |-> Null], No, Is(9), Is(<<>>),
          [has |-> 2, v |-> << <<1>>, <<2>> >>]>>}]

Join(msg) == [i \in 1..9 |-> msg[IF i < 4 THEN i ELSE i + 1]]
Joined == [fields |-> JoinFields, frame |-> "plain",
           messages |-> {Join(msg) : msg \in Rules("plain").messages}]

PtrFields ==
    <<Sub(PointerField(1, "submessage", "optional", 0), QosTiersOverrideFields),
      PointerField(2, "uvarint", "repeated", Size32),
      PointerField(3, "string", "repeated", 1),
      PointerField(4, "varint", "optional", Size64),
      Oneof("u", "pointer", 5, "string", 1),
      Sub(Oneof("u", "pointer", 6, "submessage", 0), QosTierConfigurationFields)>>
Pointers ==
    [fields |-> PtrFields, frame |-> "plain",
     messages |-> {
        <<Ptr(1, <<Ptr(2, <<Qos(1, 1)>>), No>>), Ptr(3, <<3, 200>>), Nil, Ptr(4, -9), Ptr(5, <<1, 2>>), Nil>>,
        <<Nil, Ptr(1, <<1>>), Ptr(2, <<B(3, <<1>>), B(4, <<>>)>>), Nil, Nil, Ptr(5, Qos(2, 2))>>}]

\* With extensions, of which the program registers three
Ext(f, cell) == [field |-> f, found |-> cell.v # Null, dest |-> cell]
ExtFields == <<Optional(2, "svarint", Size32),
               Extensions(10, <<Field(12, "varint", "required", "static", Size32),
                                PointerField(13, "string", "optional", 1),
                                Sub(PointerField(14, "submessage", "optional", 0),
                                    QosTiersOverrideFields)>>)>>
ExtVs == ExtFields[2].ptr
Extended ==
    [fields |-> ExtFields, frame |-> "plain",
     messages |-> {
        <<Is(-3), Is(<<Ext(ExtVs[1], Is(5)), Ext(ExtVs[2], Ptr(1, <<1, 2>>)), Ext(ExtVs[3], Nil)>>)>>,
        <<No, Is(<<Ext(ExtVs[1], Is(-1)), Ext(ExtVs[2], Nil),
                   Ext(ExtVs[3], Ptr(1, <<Ptr(2, <<Qos(1, 1)>>), Is(3)>>))>>)>>}]

\* What FirebaseCoreDiagnostics sends
Diagnostics ==
    [fields |-> ICoreConfigurationFields, frame |-> "plain",
     messages |-> {[i \in 1..21 |->
        CASE i = 1 -> Is(2) [] i = 2 -> Ptr(1, <<15, 35>>) [] i = 4 -> Ptr(2, <<1, 7>>)
          [] i = 9 -> Is(14) [] i = 10 -> Is(1) [] i = 13 -> Is(1) [] i = 17 -> Is(0)
          [] OTHER -> ZeroMessage(ICoreConfigurationFields)[i]]}]

MCKinds == {Response, Request, Rules("plain"), Rules("delimited"), Rules("zero"), Joined, Pointers, Extended, Diagnostics}

-----------------------------------------------------------------------------
\* Arrays, unions, callbacks and an extension, which the telemetry has none of.
UnionTypes == <<Int32, PointerTo(Int64), StructType(NetworkConnectionInfo)>>
Which(k) == [flag |-> <<PbSize>>, type |-> UnionTypes[k], entries |-> 1, union |-> UnionTypes]
OtherStruct ==
    <<Bare(Bool), [CountMember(Int64) EXCEPT !.entries = 3], Bare(CType(16, 8)), Which(1), Which(2), Which(3),
      Bare(PointerTo(Bool)), [Bare(Int32) EXCEPT !.entries = 2], HasMember(Bool), Bare(PointerTo(Bool))>>
OtherFields ==
    <<Required(2, "varint", 1), Repeated(3, "varint", Size64, 3), CallbackField(4, "varint"),
      Oneof("u", "static", 5, "varint", Size32), Oneof("u", "pointer", 6, "varint", Size64),
      Sub(Oneof("u", "static", 7, "submessage", 0), NetworkConnectionInfoFields),
      PointerField(8, "varint", "required", 1),
      FixedCount(9, "fixed32", Size32, 2), Optional(12, "varint", 1), Extensions(20, <<>>)>>
S(f, s, i) == [fields |-> f, struct |-> s, init |-> i, size |-> 0, bounded |-> {}]
Bounded(size, as, bs) == <<size, {<<Is(a), Is(b)>> : a \in as, b \in bs}>>
SB(f, s, i, b) == [fields |-> f, struct |-> s, init |-> i, size |-> b[1], bounded |-> b[2]]
MCSchemas ==
    <<SB(NetworkConnectionInfoFields, NetworkConnectionInfo, NetworkConnectionInfoInit,
         Bounded(NetworkConnectionInfoSize, NetworkType, MobileSubtype)),
     SB(QosTierConfigurationFields, QosTierConfiguration, QosTierConfigurationInit,
        Bounded(QosTierConfigurationSize, QosTier, {-1, 0, 127})),
     S(LogEventFields, LogEvent, LogEventInit), S(IosClientInfoFields, IosClientInfo, IosClientInfoInit),
     S(ClientInfoFields, ClientInfo, ClientInfoInit), S(LogRequestFields, LogRequest, LogRequestInit),
     S(BatchedLogRequestFields, BatchedLogRequest, BatchedLogRequestInit),
     S(QosTiersOverrideFields, QosTiersOverride, QosTiersOverrideInit),
     S(LogResponseFields, LogResponse, LogResponseInit),
     S(ICoreConfigurationFields, ICoreConfiguration, ICoreConfigurationInit),
     S(OtherFields, OtherStruct, Null)>>

-----------------------------------------------------------------------------
(* Keys, tables, iterators                                                    *)

K(u, s, t) == Append(u, 2 * s + t)    \* InternalKey
TableKeys == {K(<<1>>, 2, 1), K(<<1>>, 1, 0), K(<<1, 2>>, 1, 1),
              K(<<1, 2, 2>>, 1, 1), K(<<3, 3>>, 3, 1), K(<<3, 3, 0>>, 2, 1)}
Opts(r, b, f, c) == [restart |-> r, block |-> b, bits |-> f, cached |-> c]

Tb == INSTANCE TableFiles WITH
    ByteBits <- 2, MaxSequence <- 7, FilterBase <- 32, MaxEntries <- 4, MaxDamage <- 1,
    TbKeys <- TableKeys,
    TbOptions <- {Opts(1, 20, 4, TRUE), Opts(2, 30, 0, FALSE), Opts(3, 24, 10, FALSE)},
    opts <- x1, tb <- x2, tfile <- x3, tr <- x4, tit <- x5, tref <- x6

Di == INSTANCE DBIterator WITH
    ByteBits <- 2, MaxSequence <- 7, MaxWrites <- 3, DiKeys <- {<<1>>, <<1, 1>>},
    store <- x1, dbit <- x2, cursor <- x3

Ht == INSTANCE HandleTable WITH
    HtKeys <- 1..4, HtHash <- <<0, 2, 2, 1>>, MinLength <- 1, MaxInserts <- 4,
    ht <- x1, hmap <- x2, hreturned <- x3

Stretch(type, sound, inflates, restarts) ==
    [type |-> type, sound |-> sound, inflates |-> inflates, restarts |-> restarts]
BlockHandle(offset, size) == [offset |-> offset, size |-> size]
Br == INSTANCE BlockReads WITH
    OffsetBits <- 4, TrailerSize <- 2, Fixed32Size <- 2, Length <- 8, HaveSnappy <- TRUE, MaxHeld <- 2,
    Handles <- {BlockHandle(0, 5), BlockHandle(6, 0), BlockHandle(6, 1), BlockHandle(9, 0)},
    Stretches <- {Stretch("none", TRUE, FALSE, 1), Stretch("none", TRUE, FALSE, 2),
                  Stretch("none", FALSE, FALSE, 0), Stretch("snappy", TRUE, TRUE, 1),
                  Stretch("snappy", TRUE, FALSE, 0), Stretch("other", TRUE, TRUE, 0)},
    reader <- x1, buffers <- x2, held <- x3, readStatus <- x4

-----------------------------------------------------------------------------
(* The log, files and the system                                              *)

Lg == INSTANCE LogFormat WITH
    LogBlock <- 8, RecordSizes <- {0, 2, 7, 12}, ReadOffsets <- {0, 1, 9}, MaxRecords <- 2, MaxFaults <- 1,
    log <- x1, lw <- x2, logged <- x3, dirty <- x4, faults <- x5, lr <- x6

Pf == INSTANCE PosixFile WITH
    BufferSize <- 2, AppendSizes <- {1, 3, 4}, MaxBytes <- 5, MaxErrors <- 1,
    wf <- x1, page <- x2, durable <- x3, names <- x4, sent <- x5, since <- x6,
    promised <- x7, told <- x8, pfErrors <- x9

Fs == INSTANCE FileSystem WITH
    MaxInstalls <- 2, ChunkSize <- 2, StackSize <- 8, HeaderSizes <- {2, 3},
    MessageSizes <- {0, 1, 2, 3, 4, 5, 6, 7, 9},
    names <- x1, oldNames <- x2, inodes <- x3, writer <- x4, reader <- x5, installed <- x6, logLine <- x7

Env == INSTANCE PosixEnv WITH
    EnvThreads <- 1..3, ProcessOf <- <<1, 1, 2>>, MaxWork <- 2, MaxLocks <- 3,
    lockPc <- x1, owner <- x2, lockTable <- x3, lockCalls <- x4, disturbed <- x5,
    work <- x6, worker <- x7, scheduled <- x8, ran <- x9

Dd == INSTANCE DestroyDb WITH
    DbProcesses <- {"p", "q"}, MaxLockFiles <- 2,
    dir <- x1, children <- x2, lockFile <- x3, locked <- x4, made <- x5, pc <- x6, fd <- x7,
    listed <- x8, torn <- x9

Mon == INSTANCE Monitor WITH
    Producers <- {"p"}, Consumers <- {"c", "d"}, MaxItems <- 2, FileLimits <- {50, 51},
    owner <- x1, waiting <- x2, at <- x3, items <- x4, misused <- x5, statics <- x6,
    limit <- x7, fdLimit <- x8, exiting <- x9

Good(entries) == [entries |-> entries, damaged |-> FALSE]
Damaged(entries) == [entries |-> entries, damaged |-> TRUE]
Databases ==
    {<<"manifest", 2>> :> Good({}) @@ <<"log", 5>> :> Good({<<"a", 7>>})
       @@ <<"log", 6>> :> Damaged({<<"b", 9>>}) @@ <<"table", 3>> :> Good({<<"a", 4>>, <<"b", 5>>})
       @@ <<"sst", 4>> :> Damaged({<<"a", 6>>}),
     <<"table", 2>> :> Damaged({}) @@ <<"table", 4>> :> Good({<<"a", 3>>})
       @@ <<"table", 3>> :> Damaged({<<"a", 8>>}) @@ <<"log", 5>> :> Damaged({}),
     <<"manifest", 1>> :> Good({}) @@ <<"manifest", 7>> :> Good({}) @@ <<"sst", 4>> :> Good({<<"b", 3>>})}
Rp == INSTANCE Repair WITH
    Databases <- Databases, MaxFaults <- 1, MaxCrashes <- 1,
    disk <- x1, lost <- x2, current <- x3, repairer <- x4, readable <- x5, trouble <- x6

DumpBytes == {10, 32, 39, 65, 92, 126, 127, 200}
DumpOp(tag, key, value) == [tag |-> tag, key |-> key, value |-> value]
DumpOps == {DumpOp("put", <<10>>, <<65>>), DumpOp("del", <<65>>, <<>>), DumpOp("unknown", <<>>, <<>>)}
DumpBatches == {[sequence |-> 7, ops |-> ops, count |-> n] :
                   ops \in UNION {[1..k -> DumpOps] : k \in 0..2}, n \in {1, 2}}
DumpEdits ==
    {[decodes |-> TRUE, set |-> s, pointers |-> << <<1, <<65>> >> >>, deleted |-> <<>>,
      added |-> [i \in 1..n |-> <<0, 5 + i>>]] :
        s \in {[LogNumber |-> 3], [Comparator |-> 1, NextFile |-> 9, LastSeq |-> 4], [PrevLogNumber |-> 0]},
        n \in 0..2}
    \union {[decodes |-> FALSE]}
DumpRecords(type) ==
    IF type = "log"
    THEN {[kind |-> "record", offset |-> 0, size |-> 20, batch |-> b] : b \in DumpBatches}
         \union {[kind |-> "record", offset |-> 9, size |-> 11]}
    ELSE {[kind |-> "record", offset |-> 5, size |-> 20, edit |-> e] : e \in DumpEdits}
DumpEntries == {[kind |-> "record", size |-> s, type |-> t, key |-> <<10>>, sequence |-> 3, value |-> <<65>>] :
                   s \in {7, 9}, t \in {0, 1, 2}}
DumpFile(type, opens, content, status) ==
    [type |-> type, opens |-> opens, items |-> content, status |-> status]
Dumped ==
    {DumpFile(t, o, <<>>, "OK") : t \in {"log", "descriptor", "table", "current", "unknown"}, o \in BOOLEAN}
    \union UNION {{DumpFile(t, TRUE, <<a, b>>, "OK") :
                     a \in DumpRecords(t), b \in DumpRecords(t) \union {[kind |-> "corruption", bytes |-> 30]}} :
                  t \in {"log", "descriptor"}}
    \union {DumpFile("table", TRUE, <<a, b>>, s) : a, b \in DumpEntries, s \in {"OK", "Corruption"}}
Df == INSTANCE DumpFiles WITH
    Dumped <- Dumped,
    Keys <- {<<>>} \union {<<a>> : a \in DumpBytes} \union {<<a, b>> : a, b \in {10, 65, 92, 200}},
    file <- x1, at <- x2, lines <- x3, status <- x4

-----------------------------------------------------------------------------
(* Codes                                                                      *)

Enc == INSTANCE Encodings WITH
    DigitBits <- 2, Bits32 <- 5, Bits64 <- 9, NumLevels <- 3, Strings <- {<<>>, <<1, 6>>},
    Numbers <- {0, 5, 60}, MaxParts <- 2,
    part <- x1, batch <- x2, writes <- x3, edit <- x4, text <- x5,
    ByteBits <- 2, Poly <- {1, 4, 7}, MaskDelta <- 182, MaxData <- 41, MaxSet <- 1,
    crcData <- x1, address <- x2

B64 == INSTANCE Base64 WITH
    DataBytes <- {0, 1, 170, 255}, Characters <- {0, 1, 16, 63, 64, 65, 66}, MaxBytes <- 5, MaxCharacters <- 5,
    b64data <- x1, b64text <- x2

Sm == INSTANCE Samples WITH
    SeedBits <- 5, Multiplier <- 11, Limits <- <<1, 2, 4, 10, 20>>, Measured <- {0, 1, 4, 12}, MaxValues <- 3,
    seed <- x1, drawn <- x2, histogram <- x3, values <- x4

-----------------------------------------------------------------------------
(* Who frees what                                                             *)

Cr == INSTANCE CApi WITH
    Kinds <- {"options", "cache", "bloom", "batch"}, MaxHandles <- 4, MaxStrings <- 1,
    handles <- x1, errptr <- x2, strings <- x3, cells <- x4, misused <- x5

Ow == INSTANCE Ownership WITH
    Holders <- {"s", "t"}, Errors <- {"NotFound", "IOError"}, Texts <- {"m"}, MaxBlocks <- 4, MaxCleanups <- 2,
    heap <- x1, state <- x2, misused <- x3, meant <- x4, iter <- x5, called <- x6

-----------------------------------------------------------------------------
PbIdle == kind = 0 /\ sent = 0 /\ received = 0
LayoutIdle == schema = 0 /\ iter = 0

\* The shards of the three files of the cache
MCShardOf == <<0, 0, 1>>

Only(p) == part = p

Init ==
    /\ \/ Only("messages") /\ PbInit /\ LayoutIdle /\ Empty1
       \/ Only("layout") /\ LayoutInit /\ PbIdle /\ Empty1
       \/ /\ PbIdle /\ LayoutIdle
          /\ \/ Only("cache") /\ Empty1
             \/ Only("arena") /\ Empty1
             \/ Only("tables") /\ Tb!TbInit /\ Empty7
             \/ Only("iterator") /\ Di!DiInit /\ Empty4
             \/ Only("handles") /\ Ht!HtInit /\ Empty4
             \/ Only("blocks") /\ Br!BrInit /\ Empty5
             \/ Only("log") /\ Lg!LgInit /\ Empty7
             \/ Only("file") /\ Pf!PfInit
             \/ Only("system") /\ Fs!FsInit /\ Empty8
             \/ Only("env") /\ Env!EnvInit
             \/ Only("destroy") /\ Dd!DdInit
             \/ Only("monitor") /\ Mon!MonInit
             \/ Only("repair") /\ Rp!RepairInit /\ Empty7
             \/ Only("dump") /\ Df!DumpInit /\ Empty5
             \/ Only("encodings") /\ Enc!EncInit /\ Empty6
             \/ Only("crc") /\ Enc!CrcInit /\ Empty3
             \/ Only("base64") /\ B64!B64Init /\ Empty3
             \/ Only("samples") /\ Sm!SamplesInit /\ Empty5
             \/ Only("capi") /\ Cr!CrInit /\ Empty6
             \/ Only("ownership") /\ Ow!OwnInit /\ Empty7
    /\ FcInit /\ ArenaInit

MessagesNext == Only("messages") /\ PbNext /\ UNCHANGED <<layoutVars, fcVars, arenaVars, From1>>
LayoutsNext == Only("layout") /\ LayoutNext /\ UNCHANGED <<pbVars, fcVars, arenaVars, From1>>
CacheNext == Only("cache") /\ FcNext /\ UNCHANGED <<pbVars, layoutVars, arenaVars, From1>>
MemoryNext == Only("arena") /\ ArenaNext /\ UNCHANGED <<pbVars, layoutVars, fcVars, From1>>
InstanceNext ==
    \/ Only("tables") /\ Tb!TbNext /\ UNCHANGED From7
    \/ Only("iterator") /\ Di!DiNextState /\ UNCHANGED From4
    \/ Only("handles") /\ Ht!HtNext /\ UNCHANGED From4
    \/ Only("blocks") /\ Br!BrNext /\ UNCHANGED From5
    \/ Only("log") /\ Lg!LgNext /\ UNCHANGED From7
    \/ Only("file") /\ Pf!PfNext
    \/ Only("system") /\ Fs!FsNext /\ UNCHANGED From8
    \/ Only("env") /\ Env!EnvNext
    \/ Only("destroy") /\ Dd!DdNext
    \/ Only("monitor") /\ Mon!MonNext
    \/ Only("repair") /\ Rp!RepairNext /\ UNCHANGED From7
    \/ Only("dump") /\ Df!DumpNext /\ UNCHANGED From5
    \/ Only("encodings") /\ Enc!EncNext /\ UNCHANGED From6
    \/ Only("crc") /\ Enc!CrcNext /\ UNCHANGED From3
    \/ Only("base64") /\ B64!B64Next /\ UNCHANGED From3
    \/ Only("samples") /\ Sm!SamplesNext /\ UNCHANGED From5
    \/ Only("capi") /\ Cr!CrNext /\ UNCHANGED From6
    \/ Only("ownership") /\ Ow!OwnNext /\ UNCHANGED From7

Next ==
    /\ \/ MessagesNext
       \/ LayoutsNext
       \/ CacheNext
       \/ MemoryNext
       \/ InstanceNext /\ UNCHANGED <<pbVars, layoutVars, fcVars, arenaVars>>
    /\ UNCHANGED part

vars == <<part, pbVars, layoutVars, fcVars, arenaVars, From1>>
Spec == Init /\ [][Next]_vars

-----------------------------------------------------------------------------
\* nanopb: a message is decoded to what it was encoded from, and messages one after the
\* other and streams that are cut short to what came in whole.
MessagesKept == [][part = "messages" /\ received' => MessagesMean]_vars

\* A sorted table gives what was put into it, through filter, cache and iterators, and
\* ReadBlock returns bytes of the file or an error, and loses no buffer.
TablesMean ==
    /\ part = "tables" => Tb!TablesMean
    /\ part = "blocks" => Br!BlocksRead

\* An iterator of the database shows its snapshot, in both directions.
ShowsSnapshot == part = "iterator" => Di!ShowsSnapshot

\* What is readable is read: a log that ends early or has bytes changed gives back the
\* records written, none twice and none that was not written; a dump of a file shows
\* what is in it; and a repaired database has what could be read of the damaged one.
Recovered ==
    /\ part = "log" => Lg!LogRecovers
    /\ part = "dump" => Df!DumpShows
    /\ part = "repair" => Rp!RepairKeeps

\* Bytes that a sync confirmed are in the file after a loss of power, and CURRENT and
\* the lines of the log are whole.
SyncedStays ==
    /\ part = "file" => Pf!SyncedStays
    /\ part = "system" => Fs!CurrentWhole /\ Fs!LinesWhole

\* A lock is held by one, work is run in order, shared state is used by the thread that
\* has its mutex, and a database in use is not destroyed.
LocksHold ==
    /\ part = "env" => Env!LockExclusive /\ Env!WorkServed
    /\ part = "monitor" => Mon!HeldInside
    /\ part = "destroy" => Dd!OpenKept

\* The cache's table is a map, and when its last user has gone every descriptor and
\* every mapping has been given back.
CacheIsMap ==
    /\ part = "handles" => Ht!TableIsMap
    /\ part = "cache" => FilesReturned

\* Numbers, keys, batches and edits are decoded as they were encoded, the descriptions
\* of nanopb's fields find their members, checksums and base64 are what their
\* definitions say, and the samples stand for what was measured.
CodesMean ==
    /\ part = "layout" => MembersFound /\ SchemasFit
    /\ part = "encodings" => Enc!EncodingsMean
    /\ part = "crc" => Enc!CrcMeans
    /\ part = "base64" => B64!Base64Means
    /\ part = "samples" => Sm!Drawn /\ Sm!Measures

\* Whoever calls the C interface, copies a status or registers a cleanup: what was
\* allocated is freed, and once.
FreedOnce ==
    /\ part = "capi" => Cr!HeapBalanced
    /\ part = "ownership" => Ow!FreedOnce
=============================================================================

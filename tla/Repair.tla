-------------------------------- MODULE Repair --------------------------------
(* RepairDB (db/repair.cc): from whatever log and table files there are, a    *)
(* manifest that names every table that can be read. Each step of it is one   *)
(* operation on the file system, after which the process may end; a repair is *)
(* then run again.                                                            *)
(*                                                                            *)
(* A file is the set of the entries that can be read in it and whether it is  *)
(* damaged; an entry is <<key, sequence number>>. The file names are <<type,  *)
(* number>>.                                                                  *)
EXTENDS Integers, FiniteSets, Functions, TLC

CONSTANTS
    Databases,     \* the directories a repair may find
    MaxFaults,     \* bound: operations that fail
    MaxCrashes     \* bound: times the process ends

VARIABLES
    disk,          \* the directory: contents by file name
    lost,          \* the directory lost/ in it
    current,       \* the number in CURRENT
    repairer,      \* the Repairer
    readable,      \* what could be read at first
    trouble        \* [faults, crashes, cut]: operations that failed, times the
                   \* process ended, and whether it did while a table was replaced

repairVars == <<disk, lost, current, repairer, readable, trouble>>

Entries(files) == UNION {files[f].entries : f \in DOMAIN files}
Whole(entries) == [entries |-> entries, damaged |-> FALSE]
Unfinished == [entries |-> {}, damaged |-> TRUE]

Numbered(files, type) == {f[2] : f \in {g \in DOMAIN files : g[1] = type}}
Greatest(S) == CHOOSE n \in S \union {0} : \A m \in S : m <= n

NewRepairer ==
    [pc |-> "find", logs |-> {}, numbers |-> {}, tables |-> {}, manifests |-> {},
     next |-> 1, at |-> 0, copy |-> 0,
     kept |-> {}, ok |-> TRUE]

\* The file of a table: the older name when there is none of the newer.
TableName(n) == IF <<"table", n>> \in DOMAIN disk THEN <<"table", n>> ELSE <<"sst", n>>

Removed(files, f) == Restrict(files, DOMAIN files \ {f})
Stored(files, f, contents) == (f :> contents) @@ files

-----------------------------------------------------------------------------
RepairInit ==
    /\ disk \in Databases
    /\ lost = <<>> /\ current \in {0} \union Numbered(disk, "manifest")
    /\ repairer = NewRepairer
    /\ readable = Entries(disk)
    /\ trouble = [faults |-> 0, crashes |-> 0, cut |-> FALSE]

\* A step of the Repairer at pc: what it changes of itself and of the directory.
Goes(pc, change, files) ==
    /\ repairer.pc = pc
    /\ repairer' = change @@ repairer
    /\ disk' = files
    /\ UNCHANGED <<current, readable>>

Fine == UNCHANGED trouble
Fails == /\ trouble.faults < MaxFaults
         /\ trouble' = [trouble EXCEPT !.faults = @ + 1]

\* ArchiveFile: errors are ignored.
Archived(f) ==
    \/ f \in DOMAIN disk /\ lost' = Stored(lost, f, disk[f]) /\ Fine
    \/ f \in DOMAIN disk /\ Fails /\ UNCHANGED lost
    \/ f \notin DOMAIN disk /\ Fine /\ UNCHANGED lost
LeftBy(f) == IF lost' = lost THEN disk ELSE Removed(disk, f)

\* Manifests do not count for the next number.
RpFindFiles ==
    LET numbers == UNION {Numbered(disk, t) : t \in {"log", "table", "sst"}}
    IN /\ DOMAIN disk # {}
       /\ Goes("find",
               [pc |-> "logs", logs |-> Numbered(disk, "log"),
                numbers |-> Numbered(disk, "table") \union Numbered(disk, "sst"),
                manifests |-> Numbered(disk, "manifest"), next |-> Greatest(numbers) + 1],
               disk)
       /\ Fine /\ UNCHANGED lost

\* ConvertLogToTable, in the order of the directory. What is read of the log goes
\* to a table of a new number, if it is anything.
RpLogRead(log) ==
    /\ log \in repairer.logs
    /\ Goes("logs", [pc |-> IF disk[<<"log", log>>].entries = {} THEN "archive log" ELSE "build",
                     at |-> log, next |-> repairer.next + 1],
            IF disk[<<"log", log>>].entries = {} THEN disk
            ELSE Stored(disk, <<"table", repairer.next>>, Unfinished))
    /\ Fine /\ UNCHANGED lost

RpLogUnreadable(log) ==
    /\ log \in repairer.logs
    /\ Goes("logs", [pc |-> "archive log", at |-> log], disk)
    /\ Fails /\ UNCHANGED lost

Building == <<"table", repairer.next - 1>>

RpBuilt ==
    /\ Goes("build", [pc |-> "archive log", numbers |-> repairer.numbers \union {Building[2]}],
            Stored(disk, Building, Whole(disk[<<"log", repairer.at>>].entries)))
    /\ Fine /\ UNCHANGED lost

RpBuildFails ==
    /\ Goes("build", [pc |-> "archive log"], Removed(disk, Building))
    /\ Fails /\ UNCHANGED lost

RpArchiveLog ==
    /\ repairer.pc = "archive log" /\ Archived(<<"log", repairer.at>>)
    /\ Goes("archive log", [pc |-> "logs", logs |-> repairer.logs \ {repairer.at}],
            LeftBy(<<"log", repairer.at>>))

RpLogsDone ==
    /\ repairer.logs = {}
    /\ Goes("logs", [pc |-> "tables"], disk)
    /\ Fine /\ UNCHANGED lost

-----------------------------------------------------------------------------
\* ScanTable
Described(n, entries) ==
    [number |-> n, max |-> Greatest({e[2] : e \in entries})]

RpScanned(n) ==
    /\ repairer.pc = "tables" /\ n \in repairer.numbers /\ ~disk[TableName(n)].damaged
    /\ Goes("tables", [numbers |-> repairer.numbers \ {n},
                       tables |-> repairer.tables
                                    \union {Described(n, disk[TableName(n)].entries)}],
            disk)
    /\ Fine /\ UNCHANGED lost

\* The size of the file cannot be read.
RpScanFails(n) ==
    /\ repairer.pc = "tables" /\ n \in repairer.numbers
    /\ lost' = Stored(lost, TableName(n), disk[TableName(n)])
    /\ Goes("tables", [numbers |-> repairer.numbers \ {n}], Removed(disk, TableName(n)))
    /\ Fails

\* RepairTable: the copy has a new number, ...
RpCopy(n) ==
    /\ repairer.pc = "tables" /\ n \in repairer.numbers /\ disk[TableName(n)].damaged
    /\ Goes("tables", [pc |-> "archive table", at |-> n, copy |-> repairer.next,
                       next |-> repairer.next + 1],
            Stored(disk, <<"table", repairer.next>>, Unfinished))
    /\ Fine /\ UNCHANGED lost

RpCopyFails(n) ==
    /\ repairer.pc = "tables" /\ n \in repairer.numbers /\ disk[TableName(n)].damaged
    /\ Goes("tables", [numbers |-> repairer.numbers \ {n}, next |-> repairer.next + 1], disk)
    /\ Fails /\ UNCHANGED lost

Copy == <<"table", repairer.copy>>

\* ... the source goes to lost/ before the copy is complete, ...
RpArchiveTable ==
    LET source == TableName(repairer.at)
    IN /\ repairer.pc = "archive table" /\ Archived(source)
       /\ Goes("archive table", [pc |-> "finish", kept |-> disk[source].entries], LeftBy(source))

\* ... and a copy of nothing stays where it is.
RpNothingCopied ==
    /\ repairer.pc = "finish" /\ repairer.kept = {}
    /\ Goes("finish", [pc |-> "tables", numbers |-> repairer.numbers \ {repairer.at}], disk)
    /\ Fine /\ UNCHANGED lost

RpFinish ==
    /\ repairer.pc = "finish" /\ repairer.kept # {}
    /\ Goes("finish", [pc |-> "rename"], Stored(disk, Copy, Whole(repairer.kept)))
    /\ Fine /\ UNCHANGED lost

RpRename ==
    /\ Goes("rename", [pc |-> "tables", numbers |-> repairer.numbers \ {repairer.at},
                       tables |-> repairer.tables \union {Described(repairer.at, repairer.kept)}],
            Stored(Removed(disk, Copy), <<"table", repairer.at>>, disk[Copy]))
    /\ Fine /\ UNCHANGED lost

\* Finish, Close or RenameFile fail: the copy is deleted.
RpReplaceFails ==
    /\ repairer.pc \in {"finish", "rename"}
    /\ Goes(repairer.pc, [pc |-> "tables", numbers |-> repairer.numbers \ {repairer.at}],
            Removed(disk, Copy))
    /\ Fails /\ UNCHANGED lost

-----------------------------------------------------------------------------
\* (Mutant: the last sequence number is the one of the newest table.)
DescriptorOfNewest(tables, next) ==
    [files |-> {t.number : t \in tables}, next |-> next,
     last |-> IF tables = {} THEN 0
              ELSE (CHOOSE t \in tables : \A u \in tables : u.number <= t.number).max]

\* WriteDescriptor: every table, all in level 0.
Descriptor(tables, next) ==
    [files |-> {t.number : t \in tables}, next |-> next, last |-> Greatest({t.max : t \in tables})]

RpDescribe ==
    /\ repairer.numbers = {}
    /\ Goes("tables", [pc |-> "manifests"],
            Stored(disk, <<"temp", 1>>,
                   Descriptor(repairer.tables, repairer.next) @@ Whole({})))
    /\ Fine /\ UNCHANGED lost

RpDescribeFails ==
    /\ repairer.numbers = {}
    /\ Goes("tables", [pc |-> "done", ok |-> FALSE], disk)
    /\ Fails /\ UNCHANGED lost

RpArchiveManifest(m) ==
    /\ repairer.pc = "manifests" /\ m \in repairer.manifests
    /\ Archived(<<"manifest", m>>)
    /\ Goes("manifests", [manifests |-> repairer.manifests \ {m}], LeftBy(<<"manifest", m>>))

RpInstall ==
    /\ repairer.manifests = {}
    /\ Goes("manifests", [pc |-> "current"],
            Stored(Removed(disk, <<"temp", 1>>), <<"manifest", 1>>, disk[<<"temp", 1>>]))
    /\ Fine /\ UNCHANGED lost

RpInstallFails ==
    /\ repairer.manifests = {}
    /\ Goes("manifests", [pc |-> "done", ok |-> FALSE], Removed(disk, <<"temp", 1>>))
    /\ Fails /\ UNCHANGED lost

RpSetCurrent ==
    /\ repairer.pc = "current"
    /\ repairer' = [repairer EXCEPT !.pc = "done"]
    /\ current' = 1
    /\ UNCHANGED <<disk, lost, readable, trouble>>

RpSetCurrentFails ==
    /\ Goes("current", [pc |-> "done", ok |-> FALSE], disk)
    /\ Fails /\ UNCHANGED lost

\* The process ends, and a repair begins anew.
RpCrash ==
    /\ repairer.pc # "find" /\ trouble.crashes < MaxCrashes
    /\ trouble' = [trouble EXCEPT !.crashes = @ + 1, !.cut = @ \/ repairer.pc = "finish"]
    /\ repairer' = NewRepairer
    /\ UNCHANGED <<disk, lost, current, readable>>

RepairNext ==
    \/ RpFindFiles
    \/ \E l \in repairer.logs : RpLogRead(l) \/ RpLogUnreadable(l)
    \/ RpBuilt \/ RpBuildFails \/ RpArchiveLog \/ RpLogsDone
    \/ \E n \in repairer.numbers :
        RpScanned(n) \/ RpScanFails(n) \/ RpCopy(n) \/ RpCopyFails(n)
    \/ RpArchiveTable \/ RpNothingCopied \/ RpFinish \/ RpRename \/ RpReplaceFails
    \/ RpDescribe \/ RpDescribeFails
    \/ \E m \in repairer.manifests : RpArchiveManifest(m)
    \/ RpInstall \/ RpInstallFails \/ RpSetCurrent \/ RpSetCurrentFails
    \/ RpCrash

RepairSpec == RepairInit /\ [][RepairNext]_repairVars

-----------------------------------------------------------------------------
Manifest == disk[<<"manifest", 1>>]
Repaired == repairer.pc = "done" /\ repairer.ok

\* Nothing that could be read is destroyed, whatever fails and whenever the
\* process ends; and a repair that succeeds leaves a manifest of whole tables,
\* with a sequence number not below any of theirs and a next number above every
\* file's. If nothing failed, all that could be read is in those tables, unless
\* the process once ended while a table was being replaced.
RepairKeeps ==
    /\ readable \subseteq Entries(disk) \union Entries(lost)
    /\ Repaired =>
        /\ current = 1
        /\ \A n \in Manifest.files :
             /\ TableName(n) \in DOMAIN disk /\ ~disk[TableName(n)].damaged
             /\ n < Manifest.next
             /\ \A e \in disk[TableName(n)].entries : e[2] <= Manifest.last
        /\ trouble.faults = 0 /\ ~trouble.cut =>
             readable \subseteq UNION {disk[TableName(n)].entries : n \in Manifest.files}
=============================================================================

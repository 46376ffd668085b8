----------------------------- MODULE Directory -----------------------------
(***************************************************************************)
(* The directory file of a volume (nwdir.c), the hashes that index it      *)
(* (hash.c) and the calls that change both: create, mkdir, unlink, rmdir   *)
(* and rename (create.c, nwcreate.c).                                      *)
(*                                                                         *)
(* The directory file is a table of records in blocks of DirsPerBlock.     *)
(* A file or a subdirectory has one record for each name space, chained    *)
(* by NameList from the DOS record.  A block holds the records of one      *)
(* parent: DirAssignHash keeps the owner of every block and a bit list of  *)
(* its allocated records, and the name, number and parent hashes keep      *)
(* every record that has a name.  Each of these is locked on its own, so   *)
(* that calls on different directories interleave between any two steps.   *)
(*                                                                         *)
(* The two copies of the directory file are one table here: a record is    *)
(* written to both under one lock (WriteDirectoryRecord).  Files are told  *)
(* apart by the number of their data stream.  Trustees, quotas, deleted    *)
(* files and links, which the tools create, are left out.                  *)
(***************************************************************************)
EXTENDS Integers, Sequences, FiniteSets

CONSTANTS Tasks,            \* processes that call the file system
          Names,
          NameSpaceCount,   \* records of an entry; the first is the DOS one
          DirsPerBlock,     \* records in a block
          BlocksPerCluster, \* blocks that an extension adds
          MaxBlocks,        \* bound on the size of the directory file
          MaxCalls,         \* bound on the number of calls
          MaxErrors,        \* bound on the number of failed reads and writes
          FREE_NODE         \* owner of a free block, content of a free record

ASSUME DirectoryAssumption ==
  /\ {NameSpaceCount, DirsPerBlock, BlocksPerCluster, MaxBlocks} \subseteq Nat \ {0}
  /\ 2 * NameSpaceCount <= MaxBlocks * DirsPerBlock
  /\ {MaxCalls, MaxErrors} \subseteq Nat
  /\ FREE_NODE \notin Nat

VARIABLES table,        \* the records of the directory file
          ending,       \* number of blocks of the directory file
          owner,        \* DirOwner of every block
          bits,         \* records marked in the FreeList of their block
          hash,         \* the hashed records, by number
          call,         \* the call each task is in
          calls,        \* number of calls made
          errors,       \* number of reads and writes that failed
          orphaned      \* a directory was moved or removed while an entry was made in it

vars == <<table, ending, owner, bits, hash, call, calls, errors, orphaned>>

Blocks == 0 .. MaxBlocks - 1
DirNos == 0 .. MaxBlocks * DirsPerBlock - 1
BlockOf(n) == n \div DirsPerBlock
RecordsOf(b) == {n \in DirNos : BlockOf(n) = b}
NameSpaces == 1 .. NameSpaceCount
Streams == 0 .. MaxCalls + 1

Records == [Subdirectory : DirNos, Name : Names, NameSpace : NameSpaces, Kind : {"dir", "file"},
            NameList : DirNos, PrimaryEntry : DirNos, FirstBlock : Streams]

ASSUME FreeNodeAssumption == FREE_NODE \notin Records

Hashes == [Parent : DirNos, Name : Names, NameSpace : NameSpaces, Kind : {"dir", "file"},
           Root : DirNos, FirstBlock : Streams, Blocks : Int, nl : Seq(DirNos)]

Calls == [op : {"none", "create", "remove", "rename"},
          pc : {"idle", "prealloc", "preextend", "alloc", "extend", "retry", "write", "unwind",
                "drop", "free", "move", "inplace"},
          locks : SUBSET DirNos,       \* directories whose semaphore the kernel holds for the call
          dir : DirNos,                \* parent of the new entry
          name : Names,                \* its name
          old : Names,                 \* name of the entry that is renamed
          kind : {"dir", "file"},
          data : Streams,
          src : DirNos,                \* DOS record of the entry that is renamed
          entries : Seq(DirNos),       \* records allocated for the new entry
          written : 0 .. NameSpaceCount,
          chain : Seq(DirNos)]         \* records still to be deleted, or to be renamed in place

InSequence(s) == {s[i] : i \in DOMAIN s}

NoCall == [op |-> "none", pc |-> "idle", locks |-> {}, dir |-> 0, name |-> CHOOSE m \in Names : TRUE,
           old |-> CHOOSE m \in Names : TRUE, kind |-> "file", data |-> 0, src |-> 0,
           entries |-> <<>>, written |-> 0, chain |-> <<>>]
-----------------------------------------------------------------------------
(***************************************************************************)
(* The assignment of blocks to parents.                                    *)
(***************************************************************************)
FreeIn(b) == RecordsOf(b) \ bits

\* The blocks of a parent, or the free ones, in which a record is left.
Open(parent) == {b \in 0 .. ending - 1 : owner[b] = parent /\ FreeIn(b) # {}}

LowestFree(b) == CHOOSE n \in FreeIn(b) : \A m \in FreeIn(b) : n <= m

\* FreeDirectoryRecord: the record is written free, its bit is cleared, and a
\* block without records goes back to the free ones.
\* Mutants: the bit of a freed record is kept; a block is never given back.
ClearedNot(n) == bits
ReleasedNot(n) == owner

Cleared(n) == bits \ {n}

Released(n) ==
  IF RecordsOf(BlockOf(n)) \cap Cleared(n) = {}
  THEN [owner EXCEPT ![BlockOf(n)] = FREE_NODE] ELSE owner

FreeDirectoryRecord(n) ==
  /\ table' = [table EXCEPT ![n] = FREE_NODE]
  /\ bits' = Cleared(n)
  /\ owner' = Released(n)
-----------------------------------------------------------------------------
(***************************************************************************)
(* The hashes.                                                             *)
(***************************************************************************)
\* The list of records that the hash of a DOS record leads to, itself first.
NameSpaceList(n) == <<n>> \o hash[n].nl

\* Mutant: only what leaves a directory is counted.
CountedDown(h, parent, d) ==
  IF parent \in DOMAIN h /\ d < 0 THEN [h EXCEPT ![parent].Blocks = @ + d] ELSE h

\* AddToParentHash and RemoveParentHash count the entries of a directory.
Counted(h, parent, d) ==
  IF parent \in DOMAIN h THEN [h EXCEPT ![parent].Blocks = @ + d] ELSE h

\* A record of another name space goes to the end of the list of the DOS record.
InsertNameSpaceElement(h, root, n) == [h EXCEPT ![root].nl = Append(@, n)]

\* AllocHashDirectoryRecord: record r hashed under number n in hashes h.
AllocHash(h, n, r) ==
  LET new == [Parent |-> IF r.NameSpace = 1 THEN r.Subdirectory ELSE h[r.PrimaryEntry].Parent,
              Name |-> r.Name, NameSpace |-> r.NameSpace, Kind |-> r.Kind,
              Root |-> r.PrimaryEntry, FirstBlock |-> r.FirstBlock, Blocks |-> 0, nl |-> <<>>]
      added == [m \in DOMAIN h \cup {n} |-> IF m = n THEN new ELSE h[m]]
  IN IF r.NameSpace = 1 THEN Counted(added, r.Subdirectory, 1)
     ELSE InsertNameSpaceElement(added, r.PrimaryEntry, n)

\* Mutant: a directory forgets that an entry is gone.
FreeHashUncounted(h, n) == [m \in DOMAIN h \ {n} |-> h[m]]
\* FreeHashDirectoryRecord.
FreeHash(h, n) ==
  LET left == [m \in DOMAIN h \ {n} |-> h[m]]
  IN IF h[n].NameSpace = 1 THEN Counted(left, h[n].Parent, -1) ELSE left

\* FreeHashRecords: the hashes of the first records of an entry, of which the DOS
\* record is counted.
FreeHashes(h, s) ==
  LET left == [m \in DOMAIN h \ InSequence(s) |-> h[m]]
  IN IF s = <<>> THEN h ELSE Counted(left, h[s[1]].Parent, -1)

Entries(d, m) == {n \in DOMAIN hash \ {0} : hash[n].NameSpace = 1 /\ hash[n].Parent = d /\ hash[n].Name = m}
Directories == {n \in DOMAIN hash : hash[n].NameSpace = 1 /\ hash[n].Kind = "dir"}
-----------------------------------------------------------------------------
(***************************************************************************)
(* Mounting: what ReadDirectoryTable, HashDirectoryRecord and              *)
(* LinkVolumeNameSpaces build from a directory file.                       *)
(***************************************************************************)
Used(T) == {n \in DirNos : T[n] # FREE_NODE}

\* The first record in use decides the owner of a block.
MountOwner(T) ==
  [b \in Blocks |->
    LET used == RecordsOf(b) \cap Used(T)
    IN IF used = {} THEN FREE_NODE ELSE T[CHOOSE n \in used : \A m \in used : n <= m].Subdirectory]

\* The records that the NameList of record n of file T leads to.
NameListOf(T, n) ==
  LET at[i \in NameSpaces] ==
        IF i = 1 THEN n
        ELSE IF at[i - 1] \in Used(T) /\ T[at[i - 1]].NameList # 0 THEN T[at[i - 1]].NameList
        ELSE FREE_NODE
  IN SubSeq(at, 1, Cardinality({i \in NameSpaces : at[i] # FREE_NODE}))

DOSRecords(T) == {n \in Used(T) : T[n].NameSpace = 1}

\* A name list that leads to a free record refuses the mount.
MountRefused(T) == \E n \in DOSRecords(T) : ~ InSequence(NameListOf(T, n)) \subseteq Used(T)

MountHash(T) ==
  [n \in Used(T) |->
    [Parent |-> T[T[n].PrimaryEntry].Subdirectory, Name |-> T[n].Name, NameSpace |-> T[n].NameSpace,
     Kind |-> T[n].Kind, Root |-> T[n].PrimaryEntry, FirstBlock |-> T[n].FirstBlock,
     Blocks |-> IF n \in DOSRecords(T) THEN Cardinality({m \in DOSRecords(T) : T[m].Subdirectory = n}) ELSE 0,
     nl |-> IF n \in DOSRecords(T) THEN Tail(NameListOf(T, n)) ELSE <<>>]]

\* A volume that was mounted: the root directory and one subdirectory of it.
Record(parent, m, ns, k, next, primary, data) ==
  [Subdirectory |-> parent, Name |-> m, NameSpace |-> ns, Kind |-> k, NameList |-> next,
   PrimaryEntry |-> primary, FirstBlock |-> data]

Formatted(m) ==
  [n \in DirNos |->
    IF n >= 2 * NameSpaceCount THEN FREE_NODE
    ELSE LET first == IF n < NameSpaceCount THEN 0 ELSE NameSpaceCount
             ns == n - first + 1
         IN Record(0, m, ns, "dir", IF ns = NameSpaceCount THEN 0 ELSE n + 1, first, 0)]

Init ==
  /\ \E m \in Names : table = Formatted(m)
  /\ ending = BlockOf(2 * NameSpaceCount - 1) + 1
  /\ owner = MountOwner(table)
  /\ bits = Used(table)
  /\ hash = MountHash(table)
  /\ call = [t \in Tasks |-> NoCall]
  /\ calls = 0
  /\ errors = 0
  /\ orphaned = FALSE
-----------------------------------------------------------------------------
(***************************************************************************)
(* The beginning of a call.  The kernel (external) holds the semaphore of  *)
(* every directory a call changes, of a directory that is removed or       *)
(* replaced, and refuses calls on a directory that is gone; a look-up      *)
(* needs the semaphore too, so that a new directory is found when the call *)
(* that makes it is over.  It does not hold that of a directory that is    *)
(* moved.                                                                  *)
(***************************************************************************)
Locked(d) == \E t \in Tasks : d \in call[t].locks
BeingMade(d) ==
  d # 0 /\ \E t \in Tasks : /\ call[t].op = "create" \/ (call[t].op = "rename" /\ call[t].src = 0)
                            /\ hash[d].Parent = call[t].dir /\ hash[d].Name = call[t].name
MayEnter(d) == d \in Directories /\ ~ Locked(d) /\ ~ BeingMade(d)

Goto(t, p) == call' = [call EXCEPT ![t].pc = p]
Return(t) == call' = [call EXCEPT ![t] = NoCall]

Begin(t, c) ==
  /\ call[t].pc = "idle" /\ calls < MaxCalls
  /\ call' = [call EXCEPT ![t] = c]
  /\ calls' = calls + 1
  /\ UNCHANGED <<table, ending, owner, bits, hash, errors, orphaned>>

UnusedStream ==
  LET used == {table[n].FirstBlock : n \in Used(table)} \cup {call[t].data : t \in Tasks}
  IN CHOOSE x \in Streams \ {0} : x \notin used

\* nwfs_create and nwfs_mkdir: a name that is there already is refused.
Create(t, d, m, k) ==
  /\ MayEnter(d) /\ Entries(d, m) = {}
  /\ Begin(t, [NoCall EXCEPT !.op = "create", !.pc = IF k = "dir" THEN "prealloc" ELSE "alloc",
                             !.locks = {d}, !.dir = d, !.name = m, !.kind = k,
                             !.data = IF k = "dir" THEN 0 ELSE UnusedStream])

\* nwfs_unlink and nwfs_rmdir.
Remove(t, d, m) ==
  \E n \in Entries(d, m) :
    /\ MayEnter(d) /\ (hash[n].Kind = "dir" => MayEnter(n))
    /\ Begin(t, [NoCall EXCEPT !.op = "remove", !.pc = "drop",
                               !.locks = IF hash[n].Kind = "dir" THEN {d, n} ELSE {d},
                               !.chain = NameSpaceList(n)])

\* nwfs_rename: an entry that has the new name already is unlinked first.
Rename(t, from, old, d, m) ==
  \E n \in Entries(from, old) :
    LET target == Entries(d, m)
        dirs == {x \in target : hash[x].Kind = "dir"}
    IN /\ \A x \in {from, d} \cup dirs : MayEnter(x)
       /\ n # d /\ n \notin target
       /\ \A x \in target : hash[x].Kind = hash[n].Kind
       /\ Begin(t, [NoCall EXCEPT !.op = "rename", !.pc = IF target = {} THEN "move" ELSE "drop",
                                  !.locks = {from, d} \cup dirs, !.dir = d, !.name = m,
                                  !.old = old, !.kind = hash[n].Kind, !.src = n,
                                  !.chain = IF target = {} THEN <<>>
                                            ELSE NameSpaceList(CHOOSE x \in target : TRUE)])
-----------------------------------------------------------------------------
(***************************************************************************)
(* NWCreateDirectoryEntry, which NWRenameEntry repeats: the records of     *)
(* the new entry are allocated, hashed and written.                        *)
(***************************************************************************)
\* PreAllocateFreeDirectoryRecords: mkdir wants a free block for the new directory.
PreAllocate(t) ==
  /\ call[t].pc = "prealloc"
  /\ Goto(t, IF Open(FREE_NODE) # {} THEN "alloc" ELSE "preextend")
  /\ UNCHANGED <<table, ending, owner, bits, hash, calls, errors, orphaned>>

Taken(t, b, n) ==
  /\ bits' = bits \cup {n}
  /\ owner' = [owner EXCEPT ![b] = call[t].dir]
  /\ call' = [call EXCEPT ![t].entries = Append(@, n),
                          ![t].pc = IF Len(call[t].entries) + 1 = NameSpaceCount THEN "write" ELSE "alloc"]
  /\ UNCHANGED <<table, ending, hash, calls, errors, orphaned>>

\* AllocateDirectoryRecord looks in the blocks of the parent, then in the free ones.
AllocateDirectoryRecord(t) ==
  /\ call[t].pc = "alloc"
  /\ LET blocks == IF Open(call[t].dir) # {} THEN Open(call[t].dir) ELSE Open(FREE_NODE)
     IN \E b \in blocks : Taken(t, b, LowestFree(b))

DirectoryFull(t) ==
  /\ call[t].pc = "alloc"
  /\ Open(call[t].dir) = {} /\ Open(FREE_NODE) = {}
  /\ Goto(t, "extend")
  /\ UNCHANGED <<table, ending, owner, bits, hash, calls, errors, orphaned>>

\* The directory file grows by a cluster of free blocks, under the lock of the volume.
ExtendDirectory(t) ==
  /\ call[t].pc \in {"preextend", "extend"}
  /\ ending + BlocksPerCluster <= MaxBlocks
  /\ ending' = ending + BlocksPerCluster
  /\ Goto(t, IF call[t].pc = "preextend" THEN "alloc" ELSE "retry")
  /\ UNCHANGED <<table, owner, bits, hash, calls, errors, orphaned>>

\* The volume is full, with or without room for the bound: other files take clusters too.
ExtendFails(t) ==
  /\ call[t].pc \in {"preextend", "extend"}
  /\ Goto(t, "unwind")
  /\ UNCHANGED <<table, ending, owner, bits, hash, calls, errors, orphaned>>

\* After the extension only the free blocks are searched, and only once.
TakeExtended(t) ==
  /\ call[t].pc = "retry"
  /\ \E b \in Open(FREE_NODE) : Taken(t, b, LowestFree(b))

ExtensionTaken(t) ==
  /\ call[t].pc = "retry" /\ Open(FREE_NODE) = {}
  /\ Goto(t, "unwind")
  /\ UNCHANGED <<table, ending, owner, bits, hash, calls, errors, orphaned>>

\* The record for name space i, linked to the next one and to the DOS record.
NewRecord(c, i) ==
  Record(c.dir, c.name, i, c.kind, IF i = NameSpaceCount THEN 0 ELSE c.entries[i + 1], c.entries[1], c.data)

\* A record is hashed, then written; when all are, a rename deletes the old entry.
WriteDirectoryRecord(t) ==
  LET c == call[t]
      i == c.written + 1
      n == c.entries[i]
  IN /\ c.pc = "write"
     /\ hash' = AllocHash(hash, n, NewRecord(c, i))
     /\ table' = [table EXCEPT ![n] = NewRecord(c, i)]
     /\ IF i < NameSpaceCount THEN call' = [call EXCEPT ![t].written = i]
        ELSE IF c.op = "create" THEN Return(t)
        ELSE call' = [call EXCEPT ![t].entries = <<>>, ![t].written = 0, ![t].pc = "drop"]
     /\ UNCHANGED <<ending, owner, bits, calls, errors, orphaned>>

\* The hash cannot be allocated or the record cannot be written: all is undone.
WriteFails(t) ==
  LET c == call[t]
  IN /\ c.pc = "write" /\ errors < MaxErrors
     /\ hash' = FreeHashes(hash, SubSeq(c.entries, 1, c.written))
     /\ errors' = errors + 1
     /\ Goto(t, "unwind")
     /\ UNCHANGED <<table, ending, owner, bits, calls, orphaned>>

\* FreeDirectoryRecords.
Unwind(t) ==
  LET c == call[t]
  IN /\ c.pc = "unwind" /\ c.entries # <<>>
     /\ FreeDirectoryRecord(Head(c.entries))
     /\ call' = [call EXCEPT ![t].entries = Tail(@), ![t].written = 0]
     /\ UNCHANGED <<ending, hash, calls, errors, orphaned>>

UnwindFails(t) ==
  LET c == call[t]
  IN /\ c.pc = "unwind" /\ c.entries # <<>> /\ errors < MaxErrors
     /\ errors' = errors + 1
     /\ call' = [call EXCEPT ![t].entries = Tail(@), ![t].written = 0]
     /\ UNCHANGED <<table, ending, owner, bits, hash, calls, orphaned>>

Unwound(t) ==
  /\ call[t].pc = "unwind" /\ call[t].entries = <<>>
  /\ Return(t)
  /\ UNCHANGED <<table, ending, owner, bits, hash, calls, errors, orphaned>>
-----------------------------------------------------------------------------
(***************************************************************************)
(* NWDeleteDirectoryEntry and NWDeleteDirectoryEntryAndData: record by     *)
(* record the hash is freed, then the record.                              *)
(***************************************************************************)
NotEmpty(n) == hash[n].NameSpace = 1 /\ hash[n].Kind = "dir" /\ hash[n].Blocks # 0

\* Another call makes, or is going to make, an entry in the directory.
Entered(d, t) == \E u \in Tasks \ {t} : call[u].op \in {"create", "rename"} /\ call[u].dir = d

FreeHashDirectoryRecord(t) ==
  LET n == Head(call[t].chain)
  IN /\ call[t].pc = "drop" /\ ~ NotEmpty(n)
     /\ hash' = FreeHash(hash, n)
     /\ orphaned' = (orphaned \/ Entered(n, t))
     /\ Goto(t, "free")
     /\ UNCHANGED <<table, ending, owner, bits, calls, errors>>

RefuseNotEmpty(t) ==
  /\ call[t].pc = "drop" /\ NotEmpty(Head(call[t].chain))
  /\ Return(t)
  /\ UNCHANGED <<table, ending, owner, bits, hash, calls, errors, orphaned>>

\* The last record of the target of a rename makes way for the move.
FreeRecord(t) ==
  LET c == call[t]
  IN /\ c.pc = "free"
     /\ FreeDirectoryRecord(Head(c.chain))
     /\ IF Tail(c.chain) # <<>> THEN call' = [call EXCEPT ![t].chain = Tail(@), ![t].pc = "drop"]
        ELSE IF c.src # 0 THEN call' = [call EXCEPT ![t].chain = <<>>, ![t].pc = "move"]
        ELSE Return(t)
     /\ UNCHANGED <<ending, hash, calls, errors, orphaned>>

\* The record cannot be read before, or written after, its hash is freed: the call
\* ends there.  Only a rename reads the DOS record this late.
DeleteFails(t) ==
  LET c == call[t]
  IN /\ errors < MaxErrors
     /\ \/ c.pc = "free"
        \/ c.pc = "drop" /\ (hash[Head(c.chain)].NameSpace > 1 \/ c.op = "rename")
     /\ errors' = errors + 1
     /\ Return(t)
     /\ UNCHANGED <<table, ending, owner, bits, hash, calls, orphaned>>
-----------------------------------------------------------------------------
(***************************************************************************)
(* NWRenameEntry.                                                          *)
(***************************************************************************)
\* Mutant: the old entry is deleted first.
MovedLast(c) ==
  [c EXCEPT !.pc = "drop", !.data = hash[c.src].FirstBlock, !.chain = NameSpaceList(c.src), !.src = 0]

\* A new entry is made and the old one deleted after it; src = 0 from here on.
Moved(c) ==
  [c EXCEPT !.pc = "alloc", !.data = hash[c.src].FirstBlock, !.chain = NameSpaceList(c.src), !.src = 0]

Move(t) ==
  LET c == call[t]
  IN /\ c.pc = "move"
     /\ IF c.kind = "dir" /\ hash[c.src].Parent # c.dir /\ hash[c.src].Blocks # 0 THEN Return(t)
        ELSE call' = [call EXCEPT ![t] = Moved(c)]
     /\ ~ (c.kind = "dir" /\ hash[c.src].Parent = c.dir)
     /\ UNCHANGED <<table, ending, owner, bits, hash, calls, errors, orphaned>>

Renamed(h, s, m) == [n \in DOMAIN h |-> IF n \in InSequence(s) THEN [h[n] EXCEPT !.Name = m] ELSE h[n]]

\* A subdirectory that keeps its parent keeps its records: first the hashes get the new name.
RenameInPlace(t) ==
  LET c == call[t]
  IN /\ c.pc = "move" /\ c.kind = "dir" /\ hash[c.src].Parent = c.dir
     /\ hash' = Renamed(hash, NameSpaceList(c.src), c.name)
     /\ call' = [call EXCEPT ![t].chain = NameSpaceList(c.src), ![t].pc = "inplace"]
     /\ UNCHANGED <<table, ending, owner, bits, calls, errors, orphaned>>

WriteInPlace(t) ==
  LET c == call[t]
  IN /\ c.pc = "inplace"
     /\ table' = [table EXCEPT ![Head(c.chain)].Name = c.name]
     /\ IF Tail(c.chain) = <<>> THEN Return(t) ELSE call' = [call EXCEPT ![t].chain = Tail(@)]
     /\ UNCHANGED <<ending, owner, bits, hash, calls, errors, orphaned>>

\* The names go back into the hashes, not into the records that were written.
WriteInPlaceFails(t) ==
  LET c == call[t]
  IN /\ c.pc = "inplace" /\ errors < MaxErrors
     /\ hash' = Renamed(hash, NameSpaceList(c.src), c.old)
     /\ errors' = errors + 1
     /\ Return(t)
     /\ UNCHANGED <<table, ending, owner, bits, calls, orphaned>>
-----------------------------------------------------------------------------
Start(t) ==
  \E d \in Directories, m \in Names :
    \/ \E k \in {"dir", "file"} : Create(t, d, m, k)
    \/ Remove(t, d, m)
    \/ \E from \in Directories, old \in Names : Rename(t, from, old, d, m)

Allocate(t) ==
  \/ PreAllocate(t) \/ AllocateDirectoryRecord(t) \/ DirectoryFull(t)
  \/ ExtendDirectory(t) \/ ExtendFails(t) \/ TakeExtended(t) \/ ExtensionTaken(t)

Write(t) == WriteDirectoryRecord(t) \/ WriteFails(t) \/ Unwind(t) \/ UnwindFails(t) \/ Unwound(t)
Delete(t) == FreeHashDirectoryRecord(t) \/ RefuseNotEmpty(t) \/ FreeRecord(t) \/ DeleteFails(t)
MoveEntry(t) == Move(t) \/ RenameInPlace(t) \/ WriteInPlace(t) \/ WriteInPlaceFails(t)

Next == \E t \in Tasks : Start(t) \/ Allocate(t) \/ Write(t) \/ Delete(t) \/ MoveEntry(t)

Spec == Init /\ [][Next]_vars
-----------------------------------------------------------------------------
\* The types; the count of entries is unsigned and never goes below zero.
TypeOK ==
  /\ table \in [DirNos -> Records \cup {FREE_NODE}]
  /\ ending \in 1 .. MaxBlocks
  /\ owner \in [Blocks -> DirNos \cup {FREE_NODE}]
  /\ bits \subseteq DirNos
  /\ DOMAIN hash \subseteq DirNos /\ \A n \in DOMAIN hash : hash[n] \in Hashes
  /\ ~ orphaned => \A n \in DOMAIN hash : hash[n].Blocks \in Nat
  /\ \A t \in Tasks : call[t] \in Calls
  /\ {calls, errors} \subseteq Nat
  /\ orphaned \in BOOLEAN

\* Every record in use is marked in the bit list of its block, and so is every
\* record a call has allocated and not yet written, for that call alone: two calls
\* never get the same record.  As long as no read or write failed nothing else is
\* marked, that is, no record is lost to the free lists.
RecordsAccounted ==
  LET pending(t) == InSequence(call[t].entries)
  IN /\ Used(table) \subseteq bits
     /\ \A t \in Tasks : pending(t) \subseteq bits
     /\ \A t, u \in Tasks : t # u => pending(t) \cap pending(u) = {}
     /\ errors = 0 => bits = Used(table) \cup UNION {pending(t) : t \in Tasks}
     /\ \A n \in bits : BlockOf(n) < ending

\* A block holds the records of one parent, "each 4K block in a Netware directory
\* is assumed to be owned by a single parent", and is on the free list exactly when
\* it holds none, whatever calls allocate and free at the same time.
BlocksOneOwner ==
  /\ \A b \in Blocks : owner[b] = FREE_NODE <=> RecordsOf(b) \cap bits = {}
  /\ \A n \in Used(table) : owner[BlockOf(n)] = table[n].Subdirectory
  /\ \A t \in Tasks : \A n \in InSequence(call[t].entries) : owner[BlockOf(n)] = call[t].dir

\* Between calls, and as long as no call failed half way, what the module keeps in
\* memory is what mounting the volume would build from the directory file: the
\* owners and bit lists of the blocks, every hash, the name space lists and the
\* number of entries of every directory.
MountRebuilds ==
  (\A t \in Tasks : call[t].pc = "idle") /\ errors = 0 /\ ~ orphaned =>
    /\ ~ MountRefused(table)
    /\ owner = MountOwner(table)
    /\ bits = Used(table)
    /\ hash = MountHash(table)

\* The directory file has an entry of all name spaces for stream x.
EntryOf(x) ==
  \E n \in DOSRecords(table) :
    LET list == NameListOf(table, n)
    IN /\ table[n].FirstBlock = x /\ Len(list) = NameSpaceCount
       /\ \A i \in NameSpaces : /\ list[i] \in Used(table) /\ table[list[i]].PrimaryEntry = n
                                 /\ table[list[i]].NameSpace = i /\ table[list[i]].Name = table[n].Name

\* NWRenameEntry creates the new entry before it deletes the old one so that "we will
\* not lose the file": at every step of a rename, also of one that fails, and at any
\* time for a file that no call removes, the directory file has a whole entry of it.
RenameKeepsFile ==
  \A x \in Streams \ {0} :
    LET renaming == \E t \in Tasks : call[t].op = "rename" /\ call[t].data = x
        hashed(n) == /\ hash[n].NameSpace = 1 /\ hash[n].FirstBlock = x
                     /\ \A t \in Tasks : n \notin InSequence(call[t].entries) \cup InSequence(call[t].chain)
    IN renaming \/ (\E n \in DOMAIN hash : hashed(n)) => EntryOf(x)

\* Not so, see the README: a call that extended the directory finds a free block
\* ("we'd better, we just created one above", nwdir.c:2830); another call may have taken it.
ExtendFindsFree == \A t \in Tasks : call[t].pc = "retry" => Open(FREE_NODE) # {}

\* Not so, see the README: no directory is moved or removed while an entry is made in it.
NoOrphans == ~ orphaned

\* Not so, see the README: the volume can be mounted again whenever it is interrupted.
AlwaysMounts == ~ MountRefused(table)
=============================================================================

------------------------------ MODULE FatVolume -----------------------------
(***************************************************************************)
(* The file allocation table of a volume: its two copies, the list of free *)
(* clusters, and what a mount makes of the disk a crash left (fat.c,       *)
(* cluster.c, nwvp.c, volume.c).                                           *)
(*                                                                         *)
(* Every change of the FAT is made in the buffers of the block cache, in   *)
(* copy 1 and then in copy 2; the cache writes dirty blocks when and in    *)
(* the order it likes.  So a crash leaves each block of each copy in a     *)
(* state of its own.  A mount compares the copies, repairs the table when  *)
(* they differ, rebuilds the list of free clusters from the table, walks   *)
(* the chain of every file, and frees the clusters no file has.            *)
(*                                                                         *)
(* The two buffers are changed in one step: no other thread reads copy 2,  *)
(* and as each block is flushed on its own, the disk can hold whatever it  *)
(* could hold if a flush came between.  A directory record is one block of *)
(* its own.  Disk errors are left out.                                     *)
(***************************************************************************)
EXTENDS Integers, FiniteSets

CONSTANTS
  N,            \* the clusters of files are 1 .. N
  BlockSize,    \* entries of a FAT block
  Files,
  MaxIndex,     \* bound: a file has indexes 0 .. MaxIndex
  MaxCalls,     \* bound: writes and truncates of a behaviour
  MaxCrashes    \* bound

ASSUME FatVolumeConstants ==
  /\ {N, BlockSize} \subseteq Nat \ {0}
  /\ {MaxIndex, MaxCalls, MaxCrashes} \subseteq Nat

FREE == 0       \* FATCluster of a free cluster
EOF == -1       \* FATCluster of the last cluster of a chain
NONE == -2      \* no previous cluster

Clusters == 1 .. N
Links == Clusters \union {FREE, EOF}
Copies == {1, 2}
Entry == [index : 0 .. MaxIndex, link : Links]
FreeEntry == [index |-> 0, link |-> FREE]
NoTable == [c \in Clusters |-> FreeEntry]

BlockOf(c) == (c - 1) \div BlockSize
FatBlocks == {BlockOf(c) : c \in Clusters}

VARIABLES
  fat,       \* the two copies as the block cache holds them
  disk,      \* and as the disk holds them
  head,      \* FirstBlock of each directory record, in the cache
  diskHead,  \* and on the disk
  inUse,     \* FreeBlockList: the clusters whose bit is set
  op,        \* what the call on each file is at
  phase,     \* of the volume
  repaired,  \* the table nwvp_fat_table_fix decided on
  writes,    \* its <<block, copy>> writes not yet done
  saved,     \* history: the chain of a file that was on disk at the last crash
  zeroed,    \* history: the FAT blocks a repair cleared
  broken,    \* history: the files whose chain was not whole when mounted
  calls, crashes

vars == <<fat, disk, head, diskHead, inUse, op, phase, repaired, writes,
          saved, zeroed, broken, calls, crashes>>

Idle == [pc |-> "idle", cluster |-> FREE, index |-> 0, prev |-> NONE,
         next |-> EOF]

TypeOK ==
  /\ fat \in [Copies -> [Clusters -> Entry]]
  /\ disk \in [Copies -> [Clusters -> Entry]]
  /\ head \in [Files -> Clusters \union {EOF}]
  /\ diskHead \in [Files -> Clusters \union {EOF}]
  /\ inUse \subseteq Clusters
  /\ op \in [Files -> [pc : {"idle", "enter", "link", "free", "release"},
                       cluster : Clusters \union {FREE},
                       index : 0 .. MaxIndex,
                       prev : Clusters \union {NONE},
                       next : Clusters \union {EOF}]]
  /\ phase \in {"down", "repair", "verify", "adjust", "mounted", "failed"}
  /\ repaired \in [Clusters -> Entry]
  /\ writes \subseteq FatBlocks \X Copies
  /\ zeroed \subseteq FatBlocks
  /\ broken \subseteq Files

\* The volume as nwconfig creates it, mounted, without files.
Init ==
  /\ fat = [k \in Copies |-> NoTable]
  /\ disk = fat
  /\ head = [f \in Files |-> EOF]
  /\ diskHead = head
  /\ inUse = {}
  /\ op = [f \in Files |-> Idle]
  /\ phase = "mounted"
  /\ repaired = NoTable
  /\ writes = {}
  /\ saved = [f \in Files |-> {}]
  /\ zeroed = {}
  /\ broken = {}
  /\ calls = 0 /\ crashes = 0

----------------------------------------------------------------------------
(* Chains of a table. *)

\* The clusters that the links lead to from h: the least set with h that has
\* the link of each of its clusters.
Closed(table, h) ==
  {S \in SUBSET Clusters :
     /\ h \in Clusters => h \in S
     /\ \A c \in S : table[c].link \in Clusters => table[c].link \in S}

Reached(table, h) ==
  LET closed == Closed(table, h) IN {c \in Clusters : \A S \in closed : c \in S}

\* Whether the walk from h comes to x, the end of a chain or a free cluster.
EndsIn(table, h, x) == h = x \/ \E c \in Reached(table, h) : table[c].link = x

ChainOf(table, h) == {c \in Reached(table, h) : table[c].link # FREE}

Whole(table, h) == EndsIn(table, h, EOF)

Table == fat[1]                   \* GetFatEntry reads copy 1
Chain(f) == ChainOf(Table, head[f])

\* Mutant: copy 2 is not written.
WriteOneCopy(c, entry) == [fat EXCEPT ![1][c] = entry]

\* WriteFATEntry: copy 1, then copy 2.
WriteFATEntry(c, entry) == [k \in Copies |-> [fat[k] EXCEPT ![c] = entry]]

SetClusterValue(c, link) ==
  WriteFATEntry(c, [index |-> Table[c].index, link |-> link])

----------------------------------------------------------------------------
(* Writes and truncates of files.  A call locks its file.  A file the     *)
(* mount accepted with a broken chain is left alone: see the README.       *)

Volume == <<disk, diskHead, phase, repaired, writes, zeroed, broken, crashes>>

StartCall(f) ==
  /\ phase = "mounted"
  /\ op[f].pc = "idle"
  /\ f \notin broken
  /\ calls < MaxCalls
  /\ calls' = calls + 1
  /\ saved' = [saved EXCEPT ![f] = {}]

\* The last cluster of the chain of f before index i.
PrevOf(f, i) ==
  LET before == {c \in Chain(f) : Table[c].index < i}
  IN IF before = {} THEN NONE
     ELSE CHOOSE c \in before : \A d \in before : Table[d].index <= Table[c].index

NextOf(f, prev) == IF prev = NONE THEN head[f] ELSE Table[prev].link

\* NWWriteFile at an index the file has no cluster for.  FindFreeCluster
\* finds and sets a free bit under the lock of the list; which one depends
\* on the segment whose turn it is.
AllocateCluster(f, i, c) ==
  /\ StartCall(f)
  /\ c \notin inUse
  /\ \A d \in Chain(f) : Table[d].index # i
  /\ inUse' = inUse \union {c}
  /\ LET prev == PrevOf(f, i)
     IN op' = [op EXCEPT ![f] = [pc |-> "enter", cluster |-> c, index |-> i,
                                 prev |-> prev, next |-> NextOf(f, prev)]]
  /\ UNCHANGED <<fat, head, Volume>>

\* The entry of the new cluster takes over the rest of the chain,
EnterCluster(f) ==
  /\ op[f].pc = "enter"
  /\ fat' = WriteFATEntry(op[f].cluster,
                          [index |-> op[f].index, link |-> op[f].next])
  /\ op' = [op EXCEPT ![f].pc = "link"]
  /\ UNCHANGED <<head, inUse, saved, calls, Volume>>

\* and the cluster before it is linked to it, or the directory record.
LinkCluster(f) ==
  /\ op[f].pc = "link"
  /\ IF op[f].prev = NONE
     THEN /\ head' = [head EXCEPT ![f] = op[f].cluster]
          /\ UNCHANGED fat
     ELSE /\ fat' = SetClusterValue(op[f].prev, op[f].cluster)
          /\ UNCHANGED head
  /\ op' = [op EXCEPT ![f] = Idle]
  /\ UNCHANGED <<inUse, saved, calls, Volume>>

\* Mutant: the bits of the clusters are cleared before their entries.
TruncateReleasing(f, i) ==
  /\ StartCall(f)
  /\ \E d \in Chain(f) : Table[d].index >= i
  /\ LET prev == PrevOf(f, i)
     IN /\ op' = [op EXCEPT ![f] = [Idle EXCEPT !.pc = "free", !.prev = prev,
                                      !.next = NextOf(f, prev)]]
        /\ fat' = IF prev = NONE THEN fat ELSE SetClusterValue(prev, EOF)
  /\ inUse' = inUse \ {d \in Chain(f) : Table[d].index >= i}
  /\ UNCHANGED <<head, Volume>>

\* TruncateClusterChain: the chain ends before index i,
Truncate(f, i) ==
  /\ StartCall(f)
  /\ \E d \in Chain(f) : Table[d].index >= i
  /\ LET prev == PrevOf(f, i)
     IN /\ op' = [op EXCEPT ![f] = [Idle EXCEPT !.pc = "free", !.prev = prev,
                                      !.next = NextOf(f, prev)]]
        /\ fat' = IF prev = NONE THEN fat ELSE SetClusterValue(prev, EOF)
  /\ UNCHANGED <<head, inUse, Volume>>

\* Mutant: the link is read after the entry has been cleared.
FreeEntryLate(f) ==
  /\ op[f].pc = "free"
  /\ op[f].next \in Clusters
  /\ LET c == op[f].next
     IN /\ fat' = WriteFATEntry(c, FreeEntry)
        /\ op' = [op EXCEPT ![f].pc = "release", ![f].cluster = c,
                            ![f].next = FREE]
  /\ UNCHANGED <<head, inUse, saved, calls, Volume>>

\* then each cluster after it is freed: its entry,
FreeEntryOf(f) ==
  /\ op[f].pc = "free"
  /\ op[f].next \in Clusters
  /\ LET c == op[f].next
     IN /\ fat' = WriteFATEntry(c, FreeEntry)
        /\ op' = [op EXCEPT ![f].pc = "release", ![f].cluster = c,
                            ![f].next = Table[c].link]
  /\ UNCHANGED <<head, inUse, saved, calls, Volume>>

\* and its bit.
SetFreeClusterValue(f) ==
  /\ op[f].pc = "release"
  /\ inUse' = inUse \ {op[f].cluster}
  /\ op' = [op EXCEPT ![f].pc = "free"]
  /\ UNCHANGED <<fat, head, saved, calls, Volume>>

\* The directory record of a file with no cluster left is written last.
TruncateReturn(f) ==
  /\ op[f].pc = "free"
  /\ op[f].next = EOF
  /\ head' = IF op[f].prev = NONE THEN [head EXCEPT ![f] = EOF] ELSE head
  /\ op' = [op EXCEPT ![f] = Idle]
  /\ UNCHANGED <<fat, inUse, saved, calls, Volume>>

----------------------------------------------------------------------------
(* The block cache, crashes and a clean dismount. *)

\* The cache writes a block of a copy, and need not write another.
FlushBlock(k, b) ==
  /\ phase \in {"adjust", "mounted"}
  /\ LET new == [c \in Clusters |-> IF BlockOf(c) = b THEN fat[k][c]
                                                      ELSE disk[k][c]]
     IN /\ disk[k] # new
        /\ disk' = [disk EXCEPT ![k] = new]
  /\ UNCHANGED <<fat, head, diskHead, inUse, op, phase, repaired, writes,
                 saved, zeroed, broken, calls, crashes>>

FlushRecord(f) ==
  /\ phase \in {"adjust", "mounted"}
  /\ diskHead[f] # head[f]
  /\ diskHead' = [diskHead EXCEPT ![f] = head[f]]
  /\ UNCHANGED <<fat, disk, head, inUse, op, phase, repaired, writes,
                 saved, zeroed, broken, calls, crashes>>

\* All of f that is in the cache is on the disk, in both copies.
Synced(f) ==
  /\ op[f].pc = "idle"
  /\ diskHead[f] = head[f]
  /\ Whole(Table, head[f])
  /\ \A k \in Copies, c \in Chain(f) : disk[k][c] = Table[c]

Image(f) == {[head |-> head[f], entries |-> [c \in Chain(f) |-> Table[c]]]}

Crash ==
  /\ phase # "down"
  /\ crashes < MaxCrashes
  /\ crashes' = crashes + 1
  /\ phase' = "down"
  /\ saved' = IF phase # "mounted" THEN saved
              ELSE [f \in Files |-> IF f \notin broken /\ Synced(f)
                                    THEN Image(f) ELSE {}]
  /\ fat' = disk
  /\ head' = diskHead
  /\ inUse' = {}
  /\ op' = [f \in Files |-> Idle]
  /\ writes' = {}
  /\ repaired' = NoTable
  /\ broken' = {}
  /\ UNCHANGED <<disk, diskHead, zeroed, calls>>

\* DismountVolume waits for the calls in progress and flushes the volume.
Dismount ==
  /\ phase = "mounted"
  /\ \A f \in Files : op[f].pc = "idle"
  /\ disk' = fat
  /\ diskHead' = head
  /\ phase' = "down"
  /\ saved' = [f \in Files |-> IF f \in broken THEN {} ELSE Image(f)]
  /\ inUse' = {}
  /\ broken' = {}
  /\ UNCHANGED <<fat, head, op, repaired, writes, zeroed, calls, crashes>>

----------------------------------------------------------------------------
(* The repair of the table: nwvp_fat_table_fix. *)

\* fat_block_check: no two entries of the block have the same next cluster.
ValidBlock(k, b) ==
  \A c, d \in Clusters :
    /\ c # d /\ BlockOf(c) = b /\ BlockOf(d) = b
    /\ disk[k][c].link = disk[k][d].link
    => disk[k][c].link \in {FREE, EOF}

\* Mutant: a block whose copies differ stands for no entries.
CandidateAgreed(k) ==
  [c \in Clusters |->
     IF \E d \in Clusters : BlockOf(d) = BlockOf(c) /\ disk[1][d] # disk[2][d]
     THEN FreeEntry ELSE disk[k][c]]

\* What copy k stands for: the other copy where it is not valid, and no
\* entries at all where neither is.
Candidate(k) ==
  [c \in Clusters |->
     IF ValidBlock(k, BlockOf(c)) THEN disk[k][c]
     ELSE IF ValidBlock(3 - k, BlockOf(c)) THEN disk[3 - k][c]
     ELSE FreeEntry]

Cleared == {b \in FatBlocks : \A k \in Copies : ~ValidBlock(k, b)}

\* The copies that are left differ in the block of c.
Differs(b) ==
  \E c \in Clusters : BlockOf(c) = b /\ Candidate(1)[c] # Candidate(2)[c]

\* A link that leads backwards counts against the block it is in, if the
\* copies of that block differ, and otherwise against the block it leads to.
Errors(k, b) ==
  LET t == Candidate(k)
      Linked(c) == t[c].link \in Clusters
      Back(u, c) == u[t[c].link].index <= t[c].index
      ownErrors ==
        {c \in Clusters : /\ BlockOf(c) = b /\ Linked(c)
                          /\ Back(Candidate(1), c) /\ Back(Candidate(2), c)}
      othersErrors ==
        {c \in Clusters : /\ ~Differs(BlockOf(c)) /\ Linked(c)
                          /\ BlockOf(t[c].link) = b /\ Back(t, c)}
  IN Cardinality(ownErrors) + Cardinality(othersErrors)

FatTableFix ==
  [c \in Clusters |->
     LET b == BlockOf(c)
     IN IF ~Differs(b) \/ Errors(1, b) <= Errors(2, b)
        THEN Candidate(1)[c] ELSE Candidate(2)[c]]

\* Blocks are written in order, copy 1 of a block before its copy 2.
NextWrite ==
  CHOOSE w \in writes :
    \A v \in writes : w[1] < v[1] \/ (w[1] = v[1] /\ w[2] <= v[2])

----------------------------------------------------------------------------
(* The mount. *)

Cached == <<fat, head, inUse, op, saved, broken, calls, crashes>>

\* ReadFATTable compares the copies; the first mismatch starts the repair.
ReadFATTable ==
  /\ phase = "down"
  /\ IF disk[1] = disk[2]
     THEN /\ phase' = "verify"
          /\ UNCHANGED <<repaired, writes, zeroed>>
     ELSE /\ phase' = "repair"
          /\ repaired' = FatTableFix
          /\ writes' = FatBlocks \X Copies
          /\ zeroed' = zeroed \union Cleared
  /\ UNCHANGED <<disk, diskHead, Cached>>

RepairWrite ==
  /\ phase = "repair"
  /\ writes # {}
  /\ LET w == NextWrite
     IN /\ disk' = [disk EXCEPT ![w[2]] =
                      [c \in Clusters |-> IF BlockOf(c) = w[1] THEN repaired[c]
                                                               ELSE @[c]]]
        /\ writes' = writes \ {w}
  /\ UNCHANGED <<diskHead, phase, repaired, zeroed, Cached>>

RepairDone ==
  /\ phase = "repair"
  /\ writes = {}
  /\ phase' = IF disk[1] = disk[2] THEN "verify" ELSE "failed"
  /\ repaired' = NoTable
  /\ UNCHANGED <<disk, diskHead, writes, zeroed, Cached>>

\* BuildChainAssignment refuses a cluster that is assigned already.
Overlap ==
  LET chain(f) == ChainOf(disk[1], diskHead[f])
  IN \/ \E f, g \in Files : f # g /\ chain(f) \intersect chain(g) # {}
     \/ \E f \in Files : \A x \in {FREE, EOF} : ~EndsIn(disk[1], diskHead[f], x)

\* The rest of ReadFATTable and ReadDirectoryTable: the bits of clusters with
\* an entry are set, and the chains of all files are walked.
VerifyChains ==
  /\ phase = "verify"
  /\ fat' = disk
  /\ head' = diskHead
  /\ inUse' = {c \in Clusters : disk[1][c].link # FREE}
  /\ broken' = {f \in Files : ~Whole(disk[1], diskHead[f])}
  /\ phase' = IF Overlap THEN "failed" ELSE "adjust"
  /\ UNCHANGED <<disk, diskHead, op, repaired, writes, saved, zeroed, calls,
                 crashes>>

Assigned == UNION {Chain(f) : f \in Files}

\* AdjustAllocatedClusters frees the clusters that no chain has.
AdjustCluster(c) ==
  /\ phase = "adjust"
  /\ c \in inUse \ Assigned
  /\ fat' = WriteFATEntry(c, FreeEntry)
  /\ inUse' = inUse \ {c}
  /\ UNCHANGED <<head, op, saved, calls, Volume>>

MountDone ==
  /\ phase = "adjust"
  /\ inUse \subseteq Assigned
  /\ phase' = "mounted"
  /\ UNCHANGED <<disk, diskHead, repaired, writes, zeroed, Cached>>

----------------------------------------------------------------------------

Next ==
  \/ \E f \in Files :
       \/ \E i \in 0 .. MaxIndex : \E c \in Clusters : AllocateCluster(f, i, c)
       \/ EnterCluster(f)
       \/ LinkCluster(f)
       \/ \E i \in 0 .. MaxIndex : Truncate(f, i)
       \/ FreeEntryOf(f)
       \/ SetFreeClusterValue(f)
       \/ TruncateReturn(f)
       \/ FlushRecord(f)
  \/ \E k \in Copies, b \in FatBlocks : FlushBlock(k, b)
  \/ Crash
  \/ Dismount
  \/ ReadFATTable
  \/ RepairWrite
  \/ RepairDone
  \/ VerifyChains
  \/ \E c \in Clusters : AdjustCluster(c)
  \/ MountDone

Spec == Init /\ [][Next]_vars

----------------------------------------------------------------------------
(* Properties. *)

\* A file that was on the disk when the volume went down, in both copies of
\* the FAT and in the directory, is there when it is mounted again, whatever
\* the crash did to the blocks its entries share with other files and in
\* whatever the repair was interrupted: except where the repair cleared a
\* block that it could read in neither copy (nwvp_fat_table_fix case 0).
SyncedFilesSurvive ==
  phase = "mounted" =>
    \A f \in Files : \A image \in saved[f] :
      LET chain == DOMAIN image.entries
      IN \/ \E c \in chain : BlockOf(c) \in zeroed
         \/ /\ head[f] = image.head
            /\ chain \subseteq inUse
            /\ \A k \in Copies, c \in chain : fat[k][c] = image.entries[c]

\* Between calls the list of free clusters, both copies of the FAT and the
\* chains of the files say the same: no cluster is lost and none in use can
\* be allocated (FreeCluster, AllocateCluster, AdjustAllocatedClusters).
AllocationExact ==
  phase = "mounted" /\ (\A f \in Files : op[f].pc = "idle") =>
    /\ inUse = Assigned
    /\ \A k \in Copies : inUse = {c \in Clusters : fat[k][c].link # FREE}

\* No cluster is in the chains of two files between their calls, and their
\* chains are whole, if they were when the volume was mounted.
ChainsApart ==
  phase = "mounted" =>
    \A f \in Files \ broken :
      op[f].pc = "idle" =>
        /\ Whole(Table, head[f])
        /\ \A g \in Files \ (broken \union {f}) :
             op[g].pc = "idle" => Chain(f) \intersect Chain(g) = {}

\* Not so, see the README: a mount accepts no chain that ends in a free
\* cluster (ReadDirectoryTable reports it and goes on).
NothingBroken == phase = "mounted" => broken = {}

\* Not so, see the README: after any crash the volume mounts
\* (BuildChainAssignment refuses chains that overlap).
MountsSucceed == phase # "failed"

\* Not so, see the README: a crash leaves each block of the table readable in
\* one copy at least (nwvp_fat_table_fix).
NothingCleared == zeroed = {}
=============================================================================

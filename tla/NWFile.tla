------------------------------- MODULE NWFile -------------------------------
(***************************************************************************)
(* Files of a volume: the read, write and truncate of a cluster chain      *)
(* (nwfile.c, cluster.c) as the Linux entry points of file.c and mmap.c    *)
(* call them.                                                              *)
(*                                                                         *)
(* A file is a chain of clusters.  The FAT entry of a cluster holds its    *)
(* index in the file, so a file may have holes, and the next link of the   *)
(* chain: another cluster, a suballocation record that holds the tail of   *)
(* the file, or EOF.  A call locks its file, works on a copy of the        *)
(* directory record, and writes it back when it returns without an error.  *)
(* Calls on different files interleave at every cluster.                   *)
(*                                                                         *)
(* Data is counted in units of SUBALLOC_BLOCK_SIZE, the 512 bytes that     *)
(* records are rounded to.  The chain of a suballocation bin, which holds  *)
(* the data of its records, is left to the module of suballocation: here a *)
(* record holds its data.  Disk errors are left out.                       *)
(***************************************************************************)
EXTENDS Integers

CONSTANTS
  Files,
  Clusters,
  Records,       \* the suballocation records of all bins
  ClusterSize,   \* in units
  RecordSize,    \* the size of each record, in units
  MaxUnits,      \* bound: no call reaches past this unit
  Extents,       \* bound: the <<first unit, number of units>> calls ask for
  Sizes,         \* bound: the <<units, ragged>> sizes files are truncated to
  MaxCalls,      \* bound: writes, reads and truncates of a behaviour
  TurboFat,      \* TURBO_FAT_ON
  EOF,           \* a link of (ULONG) -1
  None           \* a link of 0

ASSUME FileConstants ==
  /\ ClusterSize \in Nat \ {0}
  /\ RecordSize \in [Records -> 1 .. ClusterSize - 1]
  /\ MaxUnits \in Nat
  /\ MaxCalls \in Nat
  /\ TurboFat \in BOOLEAN
  /\ Extents \subseteq {e \in (0 .. MaxUnits) \X (1 .. MaxUnits) : e[1] + e[2] <= MaxUnits}
  /\ Sizes \subseteq (0 .. MaxUnits) \X BOOLEAN
  /\ EOF \notin Clusters \union Records
  /\ None \notin Clusters \union Records \union {EOF}
  /\ Clusters \intersect Records = {}

Units     == 0 .. ClusterSize - 1
FileUnits == 0 .. MaxUnits - 1

\* What a unit holds: the number of the call that wrote it.  Zero stands for
\* zeros, and for whatever a cluster nobody wrote holds.
Versions == 0 .. MaxCalls

Links == Clusters \union Records \union {EOF}

FAT_ENTRY == [FATIndex : Nat, FATCluster : Links \union {None}]

HASH ==
  [FirstBlock      : Links,
   FileSize        : 0 .. MaxUnits,
   TurboFATCluster : Links \union {None},
   TurboFATIndex   : Nat,
   Modified        : BOOLEAN]

Calls ==
  [op     : {"none", "write", "map", "read", "truncate"},
   step   : {"idle", "walk", "free", "return"},
   head   : Links,                     \* FirstBlock of the directory record
   chain  : Links \union {None},       \* FATChain, cluster
   index  : Nat,                       \* the index of chain in the file
   prev   : Clusters \union {None},    \* PrevCluster
   last   : Nat,                       \* prev_index
   from   : 0 .. MaxUnits,             \* the units the call asks for; a truncate
   to     : 0 .. MaxUnits,             \* cuts the file to to units, and
   pos    : Nat,                       \* pos is the start of its last cluster
   number : Versions,
   error  : BOOLEAN,
   got    : SUBSET (FileUnits \X Versions)]   \* what a read has returned

VARIABLES
  FAT,
  data,       \* what the clusters and the records hold
  inUse,      \* the records whose bit is set in their bin's list
  hash,
  call,
  written,    \* history: the last write of each unit of each file
  orphaned,   \* history: files of which a call did not see or did not keep
              \* the whole chain, see Misled and the README
  calls

vars == <<FAT, data, inUse, hash, call, written, orphaned, calls>>

NoCall ==
  [op |-> "none", step |-> "idle", head |-> EOF, chain |-> EOF, index |-> 0,
   prev |-> None, last |-> 0, from |-> 0, to |-> 0, pos |-> 0, number |-> 0,
   error |-> FALSE, got |-> {}]

Init ==
  /\ FAT = [c \in Clusters |-> [FATIndex |-> 0, FATCluster |-> None]]
  /\ data = [x \in Clusters \union Records |-> [u \in Units |-> 0]]
  /\ inUse = {}
  /\ hash = [f \in Files |->
               [FirstBlock |-> EOF, FileSize |-> 0, TurboFATCluster |-> None,
                TurboFATIndex |-> 0, Modified |-> FALSE]]
  /\ call = [f \in Files |-> NoCall]
  /\ written = [f \in Files |-> [u \in FileUnits |-> 0]]
  /\ orphaned = {}
  /\ calls = 0

-----------------------------------------------------------------------------
(* Where a call is in its chain *)

Free     == {c \in Clusters : FAT[c].FATCluster = None}
vindex(o)  == o.pos \div ClusterSize
voffset(o) == o.pos % ClusterSize
left(o)    == o.to - o.pos

\* What is left of the call within the cluster it has come to.
vsize(o) ==
  IF left(o) > ClusterSize - voffset(o) THEN ClusterSize - voffset(o) ELSE left(o)

\* The call has transferred n units.
Moved(o, n) == [o EXCEPT !.pos = @ + n]

Finished(o) == [o EXCEPT !.step = "return"]
Failed(o)   == [o EXCEPT !.step = "return", !.error = TRUE]

\* The call comes to link x.  A record is one cluster after the cluster before
\* it, and a chain ends at a cluster that turns out to be free.
Arrive(o, x, i) ==
  [o EXCEPT !.chain = x,
            !.index = IF x \in Clusters THEN FAT[x].FATIndex ELSE i,
            !.step  = IF x \in Free \union {None} THEN "return" ELSE @]

\* Mutant: the record at the end of a chain counts as part of the last cluster.
BumpInPlace(o) ==
  Arrive([o EXCEPT !.prev = o.chain, !.last = o.index],
         FAT[o.chain].FATCluster, o.index)

\* The call goes to the next link of the chain.
Bump(o) ==
  Arrive([o EXCEPT !.prev = o.chain, !.last = o.index],
         FAT[o.chain].FATCluster, o.index + 1)

\* The context that a later call may start from.
SetTurbo(f, x, i) ==
  IF TurboFat /\ call[f].op # "map"
  THEN [hash EXCEPT ![f].TurboFATCluster = x, ![f].TurboFATIndex = i]
  ELSE hash

FromTurbo(f, o) ==
  /\ TurboFat
  /\ o.op # "map"
  /\ hash[f].TurboFATCluster # None
  /\ vindex(o) >= hash[f].TurboFATIndex

ResetTurbo(h) == [h EXCEPT !.TurboFATCluster = None, !.TurboFATIndex = 0]

\* A call starts at the context of the last one, if that is not past the
\* first cluster it wants, and else at the head of the chain.
Started(f, o) ==
  LET p == [o EXCEPT !.head = hash[f].FirstBlock, !.step = "walk"]
  IN  IF FromTurbo(f, o)
      THEN Arrive(p, hash[f].TurboFATCluster, hash[f].TurboFATIndex)
      ELSE Arrive(p, hash[f].FirstBlock, 0)

At(f, ops, step) == call[f].op \in ops /\ call[f].step = step

OnCluster(f, ops) == At(f, ops, "walk") /\ call[f].chain \in Clusters
OnRecord(f, ops)  == At(f, ops, "walk") /\ call[f].chain \in Records
OnEOF(f, ops)     == At(f, ops, "walk") /\ call[f].chain = EOF

Goto(f, o) == call' = [call EXCEPT ![f] = o]

\* n units of x, from unit i, now hold what call number v wrote.
Stored(d, x, i, n, v) ==
  [d EXCEPT ![x] = [u \in Units |-> IF u \in i .. i + n - 1 THEN v ELSE @[u]]]

\* The first n units of x are copied to y.
Copied(x, y, n) ==
  [data EXCEPT ![y] = [u \in Units |-> IF u < n THEN data[x][u] ELSE @[u]]]

\* Mutants: a chain cut short keeps its last link; the head is not replaced.
RelinkedUncut(fat, o, x) ==
  IF o.prev = None \/ x = EOF THEN fat ELSE [fat EXCEPT ![o.prev].FATCluster = x]
HeadKept(o, x) == o

\* The link the call came through now names x: SetClusterValue of the cluster
\* before, or *Chain.
Relinked(fat, o, x) ==
  IF o.prev = None THEN fat ELSE [fat EXCEPT ![o.prev].FATCluster = x]
Headed(o, x) == IF o.prev = None THEN [o EXCEPT !.head = x] ELSE o

\* A call begins behind the first cluster it wants; or it takes the record its
\* context names for the head of the chain, or frees it and leaves the context.
BeginsPast(o) == o.chain \in Clusters \ {o.head} /\ o.index > vindex(o)
LosesChain(f, o) ==
  \/ o.prev = None /\ o.chain # o.head
  \/ o.op = "map" /\ o.chain = hash[f].TurboFATCluster
Misled(f, misled) == IF misled THEN orphaned \union {f} ELSE orphaned

-----------------------------------------------------------------------------
(* NWWriteFile *)

Writes == {"write", "map"}

\* nwfs_file_write, and nwfs_map_extents, which extends a file for a mapping:
\* it writes no data and has no context.
StartWrite(f) ==
  /\ call[f].op = "none"
  /\ calls < MaxCalls
  /\ calls' = calls + 1
  /\ \E op \in Writes, e \in Extents :
       LET o == Started(f, [NoCall EXCEPT !.op = op, !.from = e[1], !.to = e[1] + e[2],
                                          !.pos = e[1], !.number = calls + 1])
       IN  /\ Goto(f, o)
           /\ hash' = IF op = "write" /\ TurboFat /\ o.chain \in Clusters
                      THEN [hash EXCEPT ![f].TurboFATCluster = o.chain]
                      ELSE hash
           /\ orphaned' = Misled(f, BeginsPast(o))
  /\ UNCHANGED <<FAT, data, inUse, written>>

\* What the call writes into cluster c, when it has data at all.
Transferred(d, o, c) ==
  IF o.op = "map" THEN d ELSE Stored(d, c, voffset(o), vsize(o), o.number)

\* The unit the call wants is in a hole: a new cluster goes in front of chain.
WriteHole(f) ==
  LET o == call[f]
  IN  /\ OnCluster(f, Writes)
      /\ left(o) > 0
      /\ vindex(o) < o.index
      /\ \E c \in Free :
           /\ FAT' = Relinked([FAT EXCEPT ![c] = [FATIndex   |-> vindex(o),
                                                  FATCluster |-> o.chain]], o, c)
           /\ data' = Transferred(data, o, c)
           /\ Goto(f, [Moved(Headed(o, c), vsize(o)) EXCEPT !.prev = c])
           /\ hash' = SetTurbo(f, c, vindex(o))
      /\ UNCHANGED <<inUse, written, orphaned, calls>>

EndIfDone(o) == IF left(o) = 0 THEN Finished(o) ELSE o

\* A write goes on to the next cluster also when it has nothing left: then that
\* only moves the context.
AfterCluster(o) == EndIfDone(Bump(o))

\* vindex as the loop leaves it, one past the last cluster the call wrote.
NextIndex(o) == (o.pos + ClusterSize - 1) \div ClusterSize

WriteHit(f) ==
  LET o == call[f]
      p == AfterCluster(Moved(o, vsize(o)))
  IN  /\ OnCluster(f, Writes)
      /\ left(o) > 0
      /\ vindex(o) = o.index
      /\ data' = Transferred(data, o, o.chain)
      /\ Goto(f, p)
      /\ hash' = IF p.chain \in Clusters
                 THEN SetTurbo(f, p.chain, vindex(o) + 1)
                 ELSE SetTurbo(f, o.chain, vindex(o))
      /\ UNCHANGED <<FAT, inUse, written, orphaned, calls>>

WriteSkip(f) ==
  LET o == call[f]
      p == AfterCluster(o)
  IN  /\ OnCluster(f, Writes)
      /\ left(o) = 0 \/ vindex(o) > o.index
      /\ Goto(f, p)
      /\ hash' = IF p.chain \in Clusters
                 THEN SetTurbo(f, p.chain, IF left(o) = 0 THEN NextIndex(o) ELSE vindex(o))
                 ELSE hash
      /\ UNCHANGED <<FAT, data, inUse, written, orphaned, calls>>

\* The chain has ended: a new cluster becomes the last one.
WriteExtend(f) ==
  LET o == call[f]
  IN  /\ OnEOF(f, Writes)
      /\ \E c \in Free :
           /\ FAT' = Relinked([FAT EXCEPT ![c] = [FATIndex   |-> vindex(o),
                                                  FATCluster |-> EOF]], o, c)
           /\ data' = Transferred(data, o, c)
           /\ Goto(f, EndIfDone([Moved(Headed(o, c), vsize(o)) EXCEPT !.prev = c]))
           /\ hash' = SetTurbo(f, c, vindex(o))
      /\ UNCHANGED <<inUse, written, orphaned, calls>>

\* The call ends inside the record at the end of the chain.
Fits(o) == vindex(o) = o.index /\ left(o) + voffset(o) < RecordSize[o.chain]

WriteTail(f) ==
  LET o == call[f]
  IN  /\ OnRecord(f, Writes)
      /\ Fits(o)
      /\ data' = Transferred(data, o, o.chain)
      /\ Goto(f, Finished(Moved(o, left(o))))
      /\ UNCHANGED <<FAT, inUse, hash, written, orphaned, calls>>

\* It does not: the record becomes a cluster.  Its data is copied, the record
\* is freed and the chain is linked to the cluster, which the call may write.
WriteConvert(f) ==
  LET o == call[f]
      n == IF vindex(o) = o.index THEN vsize(o) ELSE 0
  IN  /\ OnRecord(f, Writes)
      /\ vindex(o) >= o.index
      /\ ~Fits(o)
      /\ \E c \in Free :
           LET copy == Copied(o.chain, c, RecordSize[o.chain])
           IN  /\ FAT' = Relinked([FAT EXCEPT ![c] = [FATIndex   |-> o.index,
                                                      FATCluster |-> EOF]], o, c)
               /\ data' = IF n > 0 THEN Transferred(copy, o, c) ELSE copy
               /\ Goto(f, EndIfDone([Moved(Headed(o, c), n) EXCEPT !.prev = c, !.chain = EOF]))
               /\ hash' = SetTurbo(f, c, o.index)
      /\ inUse' = inUse \ {call[f].chain}
      /\ orphaned' = Misled(f, LosesChain(f, o))
      /\ UNCHANGED <<written, calls>>

\* NwVolumeFull where a cluster is wanted, NwInsufficientResources where a
\* workspace is, and an error of WriteSuballocRecord.
WriteFails(f) ==
  LET o == call[f]
  IN  /\ \/ OnCluster(f, Writes) /\ left(o) > 0 /\ vindex(o) < o.index /\ Free = {}
         \/ OnEOF(f, Writes) /\ Free = {}
         \/ OnRecord(f, Writes)
      /\ Goto(f, Failed(o))
      /\ UNCHANGED <<FAT, data, inUse, hash, written, orphaned, calls>>

\* The directory record is written back with the new head, and with the new
\* size when a write went past the end.
Update(f, o) ==
  IF o.error THEN hash
  ELSE [hash EXCEPT ![f].FirstBlock = o.head,
                    ![f].Modified = TRUE,
                    ![f].FileSize = IF o.op = "write" /\ o.to > @ THEN o.to ELSE @]

\* What a reader may expect of the units of the call: what it wrote, or no
\* matter what when it failed.
Recorded(f, o) ==
  [written EXCEPT ![f] =
     [u \in FileUnits |->
        IF u \notin o.from .. o.to - 1 \/ (o.op = "map" /\ ~o.error) THEN @[u]
        ELSE IF o.error THEN 0 ELSE o.number]]

WriteReturn(f) ==
  LET o == call[f]
  IN  /\ At(f, Writes, "return")
      /\ Goto(f, NoCall)
      /\ hash' = Update(f, o)
      /\ written' = Recorded(f, o)
      /\ orphaned' = Misled(f, o.error /\ o.head # hash[f].FirstBlock)
      /\ UNCHANGED <<FAT, data, inUse, calls>>

NWWriteFile(f) ==
  \/ StartWrite(f)
  \/ WriteHole(f)
  \/ WriteHit(f)
  \/ WriteSkip(f)
  \/ WriteExtend(f)
  \/ WriteTail(f)
  \/ WriteConvert(f)
  \/ WriteFails(f)
  \/ WriteReturn(f)

-----------------------------------------------------------------------------
(* NWReadFile *)

\* nwfs_file_read: a read is cut to the size of the file.
StartRead(f) ==
  /\ call[f].op = "none"
  /\ calls < MaxCalls
  /\ calls' = calls + 1
  /\ \E e \in Extents :
       LET size == hash[f].FileSize
           o    == Started(f, [NoCall EXCEPT
                     !.op = "read", !.from = e[1], !.pos = e[1],
                     !.to = IF e[1] + e[2] > size THEN size ELSE e[1] + e[2]])
       IN  /\ e[1] < size
           /\ Goto(f, o)
           /\ hash' = IF o.chain \in Clusters THEN SetTurbo(f, o.chain, o.index) ELSE hash
           /\ orphaned' = Misled(f, BeginsPast(o))
  /\ UNCHANGED <<FAT, data, inUse, written>>

\* The read returns what x holds, or zeros, for its next n units.
Zeros(o, n) ==
  [Moved(o, n) EXCEPT !.got = @ \union {<<u, 0>> : u \in o.pos .. o.pos + n - 1}]
Got(o, x, n) ==
  [Moved(o, n) EXCEPT
     !.got = @ \union {<<u, data[x][u % ClusterSize]>> : u \in o.pos .. o.pos + n - 1}]

ReadHole(f) ==
  /\ OnCluster(f, {"read"})
  /\ left(call[f]) > 0
  /\ vindex(call[f]) < call[f].index
  /\ Goto(f, Zeros(call[f], vsize(call[f])))
  /\ UNCHANGED <<FAT, data, inUse, hash, written, orphaned, calls>>

\* The read takes what it wants of the cluster and goes to the next one.
ReadCluster(f) ==
  LET o == call[f]
      p == EndIfDone(Bump(IF left(o) > 0 /\ vindex(o) = o.index
                          THEN Got(o, o.chain, vsize(o)) ELSE o))
  IN  /\ OnCluster(f, {"read"})
      /\ left(o) = 0 \/ vindex(o) >= o.index
      /\ Goto(f, p)
      /\ hash' = IF p.chain \in Clusters THEN SetTurbo(f, p.chain, p.index) ELSE hash
      /\ UNCHANGED <<FAT, data, inUse, written, orphaned, calls>>

\* The file is larger than its chain: the rest is zeros.
ReadEOF(f) ==
  LET o == call[f]
  IN  /\ OnEOF(f, {"read"})
      /\ Goto(f, Finished(Zeros(o, left(o))))
      /\ hash' = SetTurbo(f, o.prev, IF o.prev = None THEN 0 ELSE o.last)
      /\ UNCHANGED <<FAT, data, inUse, written, orphaned, calls>>

\* What a record does not hold of the rest is zeros too.
ReadRecord(f) ==
  LET o    == call[f]
      held == IF voffset(o) >= RecordSize[o.chain] THEN 0
              ELSE IF left(o) > RecordSize[o.chain] - voffset(o)
                   THEN RecordSize[o.chain] - voffset(o) ELSE left(o)
      p    == IF vindex(o) = o.index THEN Got(o, o.chain, held) ELSE o
  IN  /\ OnRecord(f, {"read"})
      /\ Goto(f, Finished(Zeros(p, left(p))))
      /\ hash' = IF vindex(o) = o.index THEN SetTurbo(f, o.chain, o.index) ELSE hash
      /\ UNCHANGED <<FAT, data, inUse, written, orphaned, calls>>

ReadReturn(f) ==
  /\ At(f, {"read"}, "return")
  /\ Goto(f, NoCall)
  /\ UNCHANGED <<FAT, data, inUse, hash, written, orphaned, calls>>

NWReadFile(f) ==
  \/ StartRead(f)
  \/ ReadHole(f)
  \/ ReadCluster(f)
  \/ ReadEOF(f)
  \/ ReadRecord(f)
  \/ ReadReturn(f)

-----------------------------------------------------------------------------
(* TruncateClusterChain *)

\* Mutant: the last cluster is that of the last unit.
TruncateToLast(f, units, ragged) ==
  LET o == [NoCall EXCEPT
              !.op = "truncate", !.step = "walk", !.head = hash[f].FirstBlock,
              !.to = units, !.pos = ((units - 1) \div ClusterSize) * ClusterSize]
  IN  Goto(f, IF hash[f].FirstBlock = EOF THEN Finished(o)
              ELSE Arrive(o, hash[f].FirstBlock, 0))

\* The size is in the last cluster it reaches, at its start when it is a
\* whole number of clusters.  A ragged size ends inside its last unit.
TruncateTo(f, units, ragged) ==
  LET o == [NoCall EXCEPT
              !.op = "truncate", !.step = "walk", !.head = hash[f].FirstBlock,
              !.to = units,
              !.pos = ((IF ragged THEN units - 1 ELSE units) \div ClusterSize) * ClusterSize]
  IN  Goto(f, IF hash[f].FirstBlock = EOF THEN Finished(o)
              ELSE Arrive(o, hash[f].FirstBlock, 0))

\* nwfs_close: a file that was written is truncated to its size, which moves
\* the tail of the file into a record.
Close(f) ==
  /\ call[f].op = "none"
  /\ hash[f].Modified
  /\ hash' = [hash EXCEPT ![f] = ResetTurbo([@ EXCEPT !.Modified = FALSE])]
  /\ \E ragged \in BOOLEAN :
       (ragged => hash[f].FileSize > 0) /\ TruncateTo(f, hash[f].FileSize, ragged)
  /\ UNCHANGED <<FAT, data, inUse, written, orphaned, calls>>

\* nwfs_truncate
Truncate(f) ==
  /\ call[f].op = "none"
  /\ calls < MaxCalls
  /\ calls' = calls + 1
  /\ \E s \in Sizes : (s[2] => s[1] > 0) /\ TruncateTo(f, s[1], s[2])
  /\ hash' = [hash EXCEPT ![f] = ResetTurbo(@)]
  /\ UNCHANGED <<FAT, data, inUse, written, orphaned>>

Truncates == {"truncate"}

\* The whole cluster goes, and all behind it.
TruncateCut(f) ==
  LET o == call[f]
  IN  /\ OnCluster(f, Truncates)
      /\ o.index > vindex(o) \/ (o.index = vindex(o) /\ left(o) = 0)
      /\ FAT' = Relinked(FAT, o, EOF)
      /\ Goto(f, [Headed(o, EOF) EXCEPT !.step = "free"])
      /\ UNCHANGED <<data, inUse, hash, written, orphaned, calls>>

\* Mutant: a record may follow a hole.
AfterNothing(o) == FALSE

\* A record has no index of its own, so it cannot follow a hole.
AfterHole(o) == IF o.prev = None THEN o.index # 0 ELSE o.last + 1 # o.index

\* The file ends in this cluster, and its part of the file fits a record: the
\* cluster goes too.
TruncateToRecord(f) ==
  LET o == call[f]
  IN  /\ OnCluster(f, Truncates)
      /\ o.index = vindex(o)
      /\ left(o) > 0
      /\ ~AfterHole(o)
      /\ \E r \in Records \ inUse :
           /\ RecordSize[r] = left(o)
           /\ inUse' = inUse \union {r}
           /\ data' = Copied(o.chain, r, left(o))
           /\ FAT' = Relinked(FAT, o, r)
           /\ Goto(f, [Headed(o, r) EXCEPT !.step = "free"])
      /\ UNCHANGED <<hash, written, orphaned, calls>>

\* DontSuballocate: the cluster stays, because of a hole, its size, or for want
\* of a workspace or a record.
TruncateAfter(f) ==
  LET o    == call[f]
      next == FAT[o.chain].FATCluster
  IN  /\ OnCluster(f, Truncates)
      /\ o.index = vindex(o)
      /\ left(o) > 0
      /\ FAT' = [FAT EXCEPT ![o.chain].FATCluster = EOF]
      /\ Goto(f, IF next \in Clusters THEN [o EXCEPT !.chain = next, !.step = "free"]
                 ELSE Finished(o))
      /\ UNCHANGED <<data, inUse, hash, written, orphaned, calls>>

TruncateSkip(f) ==
  LET o == call[f]
      p == Bump(o)
  IN  /\ OnCluster(f, Truncates)
      /\ o.index < vindex(o)
      /\ Goto(f, IF p.chain = EOF THEN Finished(p) ELSE p)
      /\ UNCHANGED <<FAT, data, inUse, hash, written, orphaned, calls>>

\* The call comes to the record at the end: it goes, a smaller one takes its
\* place, or it stays.
TruncateRecord(f) ==
  LET o == call[f]
  IN  /\ OnRecord(f, Truncates)
      /\ \/ /\ o.index = vindex(o)
            /\ left(o) = 0
            /\ inUse' = inUse \ {o.chain}
            /\ FAT' = Relinked(FAT, o, EOF)
            /\ Goto(f, Finished(Headed(o, EOF)))
            /\ UNCHANGED data
         \/ /\ o.index = vindex(o)
            /\ left(o) > 0
            /\ left(o) < RecordSize[o.chain]
            /\ \E r \in Records \ inUse :
                 /\ RecordSize[r] = left(o)
                 /\ inUse' = (inUse \union {r}) \ {o.chain}
                 /\ data' = Copied(o.chain, r, left(o))
                 /\ FAT' = Relinked(FAT, o, r)
                 /\ Goto(f, Finished(Headed(o, r)))
         \/ /\ o.index # vindex(o) \/ left(o) > 0
            /\ Goto(f, Finished(o))
            /\ UNCHANGED <<FAT, data, inUse>>
      /\ UNCHANGED <<hash, written, orphaned, calls>>

\* FreeChain: the clusters cut off are freed one by one, and a record at the
\* end of them.
FreeChain(f) ==
  LET o    == call[f]
      next == FAT[o.chain].FATCluster
  IN  /\ At(f, Truncates, "free")
      /\ FAT' = [FAT EXCEPT ![o.chain] = [FATIndex |-> 0, FATCluster |-> None]]
      /\ inUse' = inUse \ {next}
      /\ Goto(f, IF next \in Clusters \ Free THEN [o EXCEPT !.chain = next] ELSE Finished(o))
      /\ UNCHANGED <<data, hash, written, orphaned, calls>>

TruncateReturn(f) ==
  LET o == call[f]
  IN  /\ At(f, Truncates, "return")
      /\ Goto(f, NoCall)
      /\ hash' = [hash EXCEPT ![f].FirstBlock = o.head, ![f].FileSize = o.to]
      /\ written' = [written EXCEPT ![f] = [u \in FileUnits |-> IF u < o.to THEN @[u] ELSE 0]]
      /\ UNCHANGED <<FAT, data, inUse, orphaned, calls>>

TruncateClusterChain(f) ==
  \/ Close(f)
  \/ Truncate(f)
  \/ TruncateCut(f)
  \/ TruncateToRecord(f)
  \/ TruncateAfter(f)
  \/ TruncateSkip(f)
  \/ TruncateRecord(f)
  \/ FreeChain(f)
  \/ TruncateReturn(f)

Next == \E f \in Files : NWWriteFile(f) \/ NWReadFile(f) \/ TruncateClusterChain(f)

Spec == Init /\ [][Next]_vars

-----------------------------------------------------------------------------
(* Properties *)

\* Every variable has its type.
TypeOK ==
  /\ FAT \in [Clusters -> FAT_ENTRY]
  /\ data \in [Clusters \union Records -> [Units -> Versions]]
  /\ inUse \subseteq Records
  /\ hash \in [Files -> HASH]
  /\ call \in [Files -> Calls]
  /\ written \in [Files -> [FileUnits -> Versions]]
  /\ orphaned \subseteq Files
  /\ calls \in 0 .. MaxCalls

\* The head of the chain of f: of the copy of the directory record while a
\* call is working on it.
Head(f) == IF call[f].op = "none" THEN hash[f].FirstBlock ELSE call[f].head

\* Everything that names cluster or record x: the cluster before it, the
\* directory record of a file, or a truncate that has cut it off.
Names(x) ==
  {<<"link", c>> : c \in {c \in Clusters : FAT[c].FATCluster = x}}
  \union {<<"head", f>> : f \in {f \in Files : Head(f) = x}}
  \union {<<"cut", f>> : f \in {f \in Files : call[f].step = "free" /\ call[f].chain = x}}

NamedOnce(x) == \E n \in Names(x) : Names(x) = {n}

\* A cluster that is allocated is in one chain, at one place, and one that is
\* free is in none: no cluster is shared, none is lost and none is used after
\* it was freed (AllocateCluster, NWWriteFile and FreeChain of every file).
ClustersInOneChain ==
  orphaned = {} =>
    /\ \A c \in Free : Names(c) = {}
    /\ \A c \in Clusters \ Free : NamedOnce(c)

\* A record that a chain ends with is in use, and by no other file.
RecordsOwned ==
  orphaned = {} =>
    \A r \in Records : Names(r) # {} => r \in inUse /\ NamedOnce(r)

\* The clusters of a chain are in the order of the file, so a chain ends.
IndexesRise ==
  orphaned = {} =>
    \A c, d \in Clusters :
      FAT[c].FATCluster = d /\ d \notin Free => FAT[c].FATIndex < FAT[d].FATIndex

\* A read returns what was last written, whatever was done to the chain, to the
\* record at its end and to other files since.
ReadsLastWrite ==
  orphaned = {} =>
    \A f \in Files : \A g \in call[f].got : written[f][g[1]] \in {0, g[2]}

\* "if (StartIndex < *Index), then we are being asked to start before the user
\* supplied context.  In this case, start at the beginning of the chain." (in
\* NWReadFile and in NWWriteFile): a call does not begin behind what it wants.
BeginsInTime ==
  \A f \in Files :
    LET o == call[f]
    IN  o.step = "walk" /\ o.prev = None /\ o.chain \in Clusters \ {o.head}
          => FAT[o.chain].FATIndex <= o.from \div ClusterSize

\* Not so, see the README. "save the chain head in the directory record"
\* (nwfile.c): when a call has
\* replaced the record a file begins with by a cluster and has freed it, no
\* directory record names it any more.
HeadSaved ==
  \A f \in Files :
    call[f].op = "none" /\ hash[f].FirstBlock \in Records => hash[f].FirstBlock \in inUse

=============================================================================

------------------------------ MODULE LRUCache ------------------------------
(***************************************************************************)
(* The block cache of the NetWare file system driver (lru.c), built for    *)
(* the Linux 2.2 kernel: LINUX_SPIN, DO_ASYNCH_IO, ASYNCH_READ_AHEAD and   *)
(* SINGLE_DIRTY_LIST (globals.h).                                          *)
(*                                                                         *)
(* The processes are the callers of ReadLRU (file system calls), the       *)
(* nwfs-flush daemon, the one second timer, the disks with their           *)
(* completion interrupts, and the nwfs-callback thread.  A critical        *)
(* section of LRU_spinlock is one action, except where FlushEligibleLRU    *)
(* keeps the lock from one mirror member to the next (lruHeld).            *)
(***************************************************************************)
EXTENDS Integers, Sequences, FiniteSets

CONSTANTS
  Buffers,      \* the cache buffers (at most MaximumLRUBlocks of them)
  Blocks,       \* the volume blocks the callers use
  Users,        \* the threads that call ReadLRU
  Following,    \* the block read ahead of a block, or NoBlock
  NoBlock,      \* lru->block of a buffer that was never used
  NoBuffer,     \* the null LRU pointer
  Mirrors,      \* how many mirror members the partition has
  Calls,        \* the kinds of calls the users make: a subset of Ops
  MaxOps,       \* bound: calls of ReadLRU over all users
  ReadErrors,   \* may a disk read fail?
  WriteErrors   \* may a disk write fail?

ASSUME NullAssumption == NoBlock \notin Blocks /\ NoBuffer \notin Buffers
ASSUME FollowingAssumption == Following \in [Blocks -> Blocks \cup {NoBlock}]
\* A group of eight members is left out: count % 8 is then zero.
ASSUME NumberAssumption == Mirrors \in 1..7 /\ MaxOps \in Nat
ASSUME ErrorAssumption == ReadErrors \in BOOLEAN /\ WriteErrors \in BOOLEAN
ASSUME FiniteAssumption == IsFiniteSet(Users) /\ IsFiniteSet(Buffers)

Members == 1..Mirrors                  \* the disks of the mirror group

Flags == {"FREE", "DATAVALID", "DIRTY", "FLUSHING", "LOADING", "MODIFIED"}
Queues == {"LRU", "FREE", "DIRTY", "HASH"}

\* What a block or a buffer contains: which write to which block.
Data == [block : Blocks \cup {NoBlock}, version : Nat]

\* The LRU structure.  io_signature is left out: what tests it, tests a buffer
\* that is not LOADING.  aged abstracts timestamp + AGING_INTERVAL.
LRU == [state : SUBSET Flags, owner : SUBSET Queues,
        block : Blocks \cup {NoBlock}, buffer : Data,
        lock_count : Int, Waiters : Nat, Semaphore : Nat, aged : BOOLEAN,
        mirrors_completed : Nat, aio_ccode : BOOLEAN]

\* An ASYNCH_IO of a buffer: what it was submitted for and how far it got.
Commands == {"read", "ahead", "write"}
Stages == {"idle", "queued", "moved", "failed"}
ASYNCH_IO == [command : Commands, sector : Blocks \cup {NoBlock},
              stage : Stages]

UserPcs == {"idle", "ahead", "search", "wait", "fill", "refill", "hold",
            "changed"}
\* A caller reads a block, changes a part of it (fill = 1) or replaces all of
\* it (fill = 0).
Ops == {"read", "update", "overwrite"}
ASSUME CallsAssumption == Calls \subseteq Ops
FlushPcs == {"down", "start", "insert", "relock", "reset"}

VARIABLES
  lru,              \* the LRU structures
  ListHead,         \* all buffers in use, in the order of listnext
  LRUDirtyBuffers,  \* the count of dirty buffers
  io,               \* lru->io[]: one request for each mirror member
  io_callback,      \* io_callback_head: buffers whose callback is to be retried
  disk,             \* what every mirror member has stored for every block
  pc, op, want, held,     \* users: position, kind of call, block, buffer
  failed,           \* the users whose last ReadLRU returned 0
  ops,              \* number of calls so far
  lru_signal, lru_active, lru_state,
  flush,            \* nwfs-flush in FlushEligibleLRU: pc, list, lru, i
  lruHeld,          \* FlushEligibleLRU holds LRU_spinlock between two steps
  cb,               \* nwfs-callback: the buffer whose write it retries
  latest,           \* history: number of the last write to every block
  unfilled          \* history: valid buffers still waiting for their first data

cacheVars == <<lru, ListHead, LRUDirtyBuffers>>
ioVars == <<io, io_callback, disk>>
userVars == <<pc, op, want, held, failed, ops>>
flushVars == <<lru_signal, lru_active, lru_state, flush, lruHeld>>
historyVars == <<latest, unfilled>>
vars == <<cacheVars, ioVars, userVars, flushVars, cb, historyVars>>

-----------------------------------------------------------------------------
(* Operations on the LRU structure and its lists.  A definition marked      *)
(* "Mutant" is a bug the runs must detect; the model does not use it.       *)

Has(b, flag) == flag \in lru[b].state
Hashed(b) == "HASH" \in lru[b].owner

\* Mutant: a block that is still being loaded is not found.
SearchHashLoaded(k) ==
  {b \in Buffers : Hashed(b) /\ lru[b].block = k /\ ~Has(b, "LOADING")}
\* SearchHash: the buffers that hold block k
SearchHash(k) == {b \in Buffers : Hashed(b) /\ lru[b].block = k}

\* Mutants: waiters are forgotten, or signalled without being counted off.
ForgetWaiters(r) == [r EXCEPT !.Waiters = 0]
SignalWaiters(r) == [r EXCEPT !.Semaphore = @ + r.Waiters]
\* ReleaseWaiters: one signal of lru->Semaphore for every waiter
ReleaseWaiters(r) == [r EXCEPT !.Semaphore = @ + r.Waiters, !.Waiters = 0]

\* RemoveDirty and InsertDirty, with what they do to LRUDirtyBuffers
RemoveDirty(r) == [r EXCEPT !.state = @ \ {"DIRTY"}, !.owner = @ \ {"DIRTY"}]
\* Mutants: RemoveDirty does not count, or counts below zero.
LessDirtyNot(n) == n
LessDirtyBlind(n) == n - 1
LessDirty(n) == IF n > 0 THEN n - 1 ELSE 0
InsertDirty(r) ==
  IF "DIRTY" \in r.owner
  THEN r
  ELSE [r EXCEPT !.state = @ \cup {"DIRTY"}, !.owner = @ \cup {"DIRTY"}]

\* What every writer does before it drops the lock to write ...
BeginFlush(r) == [r EXCEPT !.state = (@ \cup {"FLUSHING"}) \ {"MODIFIED"}]
\* Mutant: FLUSHING stays set.
EndFlushNot(r) == [r EXCEPT !.aged = TRUE]
\* ... and after the write
EndFlush(r) == [r EXCEPT !.state = @ \ {"FLUSHING"}, !.aged = TRUE]
\* Mutant: a modification during the write is ignored.
CleanIgnoringModified(r, err) == ~err
\* May RemoveDirty be called?
Clean(r, err) == ~err /\ "MODIFIED" \notin r.state

\* A load that succeeded, and one that failed: the buffer leaves every list
Loaded(r) == ReleaseWaiters(
  [r EXCEPT !.state = (@ \ {"LOADING"}) \cup {"DATAVALID"}])
\* Mutants: the failed buffer stays on the hash list, or its waiters wait on.
FreedSilently(r) ==
  [r EXCEPT !.state = {"FREE"},
            !.owner = (@ \ {"LRU", "HASH"}) \cup {"FREE"}]
FreedButHashed(r) == ReleaseWaiters(
  [r EXCEPT !.state = {"FREE"}, !.owner = (@ \ {"LRU"}) \cup {"FREE"}])
Freed(r) == ReleaseWaiters(
  [r EXCEPT !.state = {"FREE"},
            !.owner = (@ \ {"LRU", "HASH"}) \cup {"FREE"}])

\* A caller gets the buffer.
Taken(r) == [r EXCEPT !.lock_count = @ + 1]

\* Mutant: the buffer is valid without the data.
FilledNot(r, d) == Loaded(r)
\* A load whose data is read here and now: the synchronous reads
Filled(r, d) == [Loaded(r) EXCEPT !.buffer = d]

\* Mutant: the caller stays counted.
ModifiedHeld(r) == [r EXCEPT !.state = @ \cup {"MODIFIED"}, !.aged = FALSE]
\* The caller gives the buffer back, changed; ReleaseDirtyLRU on an LRU element
Modified(r) == [r EXCEPT !.lock_count = @ - 1, !.state = @ \cup {"MODIFIED"},
                         !.aged = FALSE]

\* RemoveListHead
Unlist(s, b) ==
  LET i == CHOOSE j \in DOMAIN s : s[j] = b
  IN IF \E j \in DOMAIN s : s[j] = b
     THEN SubSeq(s, 1, i - 1) \o SubSeq(s, i + 1, Len(s))
     ELSE s

\* GetAvailableLRU: a buffer of the free list, a new one, or an idle buffer of
\* the LRU list (any of them: the LRU order is left out).
OnFreeList == {b \in Buffers : "FREE" \in lru[b].owner}
Unused == {b \in Buffers : lru[b].block = NoBlock}
\* Mutants: a buffer is evicted while dirty, or while a caller holds it.
IdleOrDirty == {b \in Buffers : /\ "LRU" \in lru[b].owner
                                /\ lru[b].state \cap {"LOADING", "FLUSHING"} = {}
                                /\ lru[b].lock_count = 0}
IdleOrHeld == {b \in Buffers : /\ "LRU" \in lru[b].owner
                               /\ lru[b].state \cap {"DIRTY", "LOADING", "FLUSHING"} = {}}
Idle == {b \in Buffers : /\ "LRU" \in lru[b].owner
                         /\ lru[b].state \cap {"DIRTY", "LOADING", "FLUSHING"} = {}
                         /\ lru[b].lock_count = 0}
GetAvailableLRU == IF OnFreeList # {} THEN OnFreeList
                   ELSE IF Unused # {} THEN Unused ELSE Idle
LRUBlocks == Cardinality(Buffers \ Unused)

\* The buffer is taken for block k: fresh flags, on the LRU and hash lists, and
\* in the hands of n callers.
Assigned(r, k, flags, n) ==
  [r EXCEPT !.lock_count = @ + n, !.owner = (@ \ {"FREE"}) \cup {"LRU", "HASH"},
            !.state = flags, !.block = k, !.aio_ccode = FALSE]
Assign(b, k, flags, n) ==
  /\ lru' = [lru EXCEPT ![b] = Assigned(@, k, flags, n)]
  /\ ListHead' = IF \E i \in DOMAIN ListHead : ListHead[i] = b
                 THEN ListHead ELSE Append(ListHead, b)

\* A request of the buffer is initialised and queued.  The code does so even
\* when the request is in flight (OneWriteAtATime) and corrupts its lists; the
\* model waits there, so that it says nothing of corrupt lists.
InCallback(b) == \E n \in DOMAIN io_callback : io_callback[n].lru = b
Submit(b, c, command) ==
  /\ io[b][c].stage = "idle" /\ ~InCallback(b)
  /\ io' = [io EXCEPT ![b][c] = [command |-> command, sector |-> lru'[b].block,
                                 stage |-> "queued"]]

\* The flush daemon is signalled, unless it is signalled or at work already.
Kick == lru_signal' = (lru_signal \/ ~lru_active)
KickIf(c) == IF c THEN Kick ELSE UNCHANGED lru_signal
ManyDirty == LRUDirtyBuffers * 2 >= LRUBlocks

-----------------------------------------------------------------------------
Init ==
  /\ lru = [b \in Buffers |->
              [state |-> {"FREE"}, owner |-> {}, block |-> NoBlock,
               buffer |-> [block |-> NoBlock, version |-> 0],
               lock_count |-> 0, Waiters |-> 0, Semaphore |-> 0,
               aged |-> TRUE, mirrors_completed |-> 0, aio_ccode |-> FALSE]]
  /\ ListHead = <<>>
  /\ LRUDirtyBuffers = 0
  /\ io = [b \in Buffers |-> [c \in Members |->
             [command |-> "read", sector |-> NoBlock, stage |-> "idle"]]]
  /\ io_callback = <<>>
  /\ disk = [c \in Members |-> [k \in Blocks |-> [block |-> k, version |-> 0]]]
  /\ pc = [u \in Users |-> "idle"]
  /\ op = [u \in Users |-> "read"]
  /\ want = [u \in Users |-> NoBlock]
  /\ held = [u \in Users |-> NoBuffer]
  /\ failed = {}
  /\ ops = 0
  /\ lru_signal = FALSE /\ lru_active = FALSE /\ lru_state = FALSE
  /\ flush = [pc |-> "down", list |-> NoBuffer, lru |-> NoBuffer, i |-> 1]
  /\ lruHeld = FALSE
  /\ cb = [stage |-> "down", lru |-> NoBuffer]
  /\ latest = [k \in Blocks |-> 0]
  /\ unfilled = {}

-----------------------------------------------------------------------------
(* The callers of ReadLRU                                                  *)

Goto(u, l) == pc' = [pc EXCEPT ![u] = l]

Call(u) ==
  /\ pc[u] = "idle" /\ ops < MaxOps
  /\ ops' = ops + 1
  /\ \E k \in Blocks, o \in Calls :
       /\ want' = [want EXCEPT ![u] = k]
       /\ op' = [op EXCEPT ![u] = o]
       /\ Goto(u, IF o = "read" /\ Following[k] # NoBlock THEN "ahead" ELSE "search")
  /\ failed' = failed \ {u}
  /\ UNCHANGED <<cacheVars, ioVars, held, flushVars, cb, historyVars>>

\* PerformBlockReadAhead: the next block of the cluster is loaded without
\* waiting for it (FillBlockAsynch), if a buffer is available.
PerformBlockReadAhead(u) ==
  /\ pc[u] = "ahead" /\ ~lruHeld
  /\ LET k == Following[want[u]]
     IN IF SearchHash(k) = {} /\ GetAvailableLRU # {}
        THEN \E b \in GetAvailableLRU :
               Assign(b, k, {"LOADING"}, 0) /\ Submit(b, 1, "ahead")
        ELSE UNCHANGED <<lru, ListHead, io>>
  /\ Goto(u, "search")
  /\ UNCHANGED <<LRUDirtyBuffers, io_callback, disk, op, want, held, failed,
                 ops, flushVars, cb, historyVars>>

\* ReadLRU finds the block and returns its buffer with lock_count taken.  That
\* a buffer on the hash list is DATAVALID unless it is LOADING, so that the
\* return of 0 here is never taken, is HeldBufferStays.
ReadLRUHit(u) ==
  /\ pc[u] = "search" /\ ~lruHeld
  /\ \E b \in SearchHash(want[u]) :
       /\ ~Has(b, "LOADING")
       /\ lru' = [lru EXCEPT ![b] = Taken(@)]
       /\ held' = [held EXCEPT ![u] = b]
  /\ Goto(u, "hold")
  /\ UNCHANGED <<ListHead, LRUDirtyBuffers, ioVars, op, want, failed, ops,
                 flushVars, cb, historyVars>>

\* ReadLRU finds the block while it is loaded: WaitOnBuffer.
ReadLRUWait(u) ==
  /\ pc[u] = "search" /\ ~lruHeld
  /\ \E b \in SearchHash(want[u]) :
       /\ Has(b, "LOADING")
       /\ lru' = [lru EXCEPT ![b].Waiters = @ + 1]
       /\ held' = [held EXCEPT ![u] = b]
  /\ Goto(u, "wait")
  /\ UNCHANGED <<ListHead, LRUDirtyBuffers, ioVars, op, want, failed, ops,
                 flushVars, cb, historyVars>>

\* The waiter looks at the buffer without the lock: it starts again, or
\* returns 0 when the buffer no longer holds the block.
WaitOnBuffer(u) ==
  LET b == held[u]
      there == Has(b, "DATAVALID") /\ lru[b].block = want[u]
  IN /\ pc[u] = "wait"
     /\ lru[b].Semaphore > 0
     /\ lru' = [lru EXCEPT ![b].Semaphore = @ - 1]
     /\ Goto(u, IF there THEN "search" ELSE "idle")
     /\ failed' = IF there THEN failed ELSE failed \cup {u}
     /\ held' = [held EXCEPT ![u] = NoBuffer]
     /\ UNCHANGED <<ListHead, LRUDirtyBuffers, ioVars, op, want, ops,
                    flushVars, cb, historyVars>>

\* ReadLRU misses with fill: FillBlock queues the read and waits for it.
ReadLRUFill(u) ==
  /\ pc[u] = "search" /\ ~lruHeld /\ SearchHash(want[u]) = {}
  /\ op[u] # "overwrite"
  /\ KickIf(ManyDirty)
  /\ \E b \in GetAvailableLRU :
       /\ Assign(b, want[u], {"LOADING"}, 0)
       /\ Submit(b, 1, "read")
       /\ held' = [held EXCEPT ![u] = b]
  /\ Goto(u, "fill")
  /\ UNCHANGED <<LRUDirtyBuffers, io_callback, disk, op, want, failed, ops,
                 lru_active, lru_state, flush, lruHeld, cb, historyVars>>

\* ReadLRU misses without fill: the buffer is valid at once, with whatever it
\* contains, because the caller is about to replace all of it.
ReadLRUNoFill(u) ==
  /\ pc[u] = "search" /\ ~lruHeld /\ SearchHash(want[u]) = {}
  /\ op[u] = "overwrite"
  /\ KickIf(ManyDirty)
  /\ \E b \in GetAvailableLRU :
       /\ Assign(b, want[u], {"DATAVALID"}, 1)
       /\ held' = [held EXCEPT ![u] = b]
       /\ unfilled' = unfilled \cup {b}
  /\ Goto(u, "hold")
  /\ UNCHANGED <<LRUDirtyBuffers, ioVars, op, want, failed, ops, lru_active,
                 lru_state, flush, lruHeld, cb, latest>>

\* ReadLRU gets no buffer: it asks for a flush of everything and tries again.
ReadLRUNone(u) ==
  /\ pc[u] = "search" /\ ~lruHeld
  /\ SearchHash(want[u]) = {} /\ GetAvailableLRU = {}
  /\ lru_state' = TRUE
  /\ Kick
  /\ UNCHANGED <<cacheVars, ioVars, userVars, lru_active, flush, lruHeld, cb,
                 historyVars>>

\* The read of FillBlock is complete (release_read_aio has signalled).
FillBlock(u) ==
  LET b == held[u]
  IN /\ pc[u] = "fill" /\ ~lruHeld /\ io[b][1].stage = "moved"
     /\ io' = [io EXCEPT ![b][1].stage = "idle"]
     /\ lru' = [lru EXCEPT ![b] = Taken(Loaded(@))]
     /\ Goto(u, "hold")
     /\ UNCHANGED <<ListHead, LRUDirtyBuffers, io_callback, disk, op, want,
                    held, failed, ops, flushVars, cb, historyVars>>
FillBlockError(u) ==
  /\ pc[u] = "fill" /\ io[held[u]][1].stage = "failed"
  /\ io' = [io EXCEPT ![held[u]][1].stage = "idle"]
  /\ Goto(u, "refill")
  /\ UNCHANGED <<cacheVars, io_callback, disk, op, want, held, failed, ops,
                 flushVars, cb, historyVars>>

\* The synchronous retry of the read, nwvp_vpartition_block_read.  When it
\* fails too the buffer is freed, and ReadLRU starts again.
Refill(u) ==
  LET b == held[u]
  IN /\ pc[u] = "refill" /\ ~lruHeld
     /\ \E m \in Members :
          lru' = [lru EXCEPT ![b] = Taken(Filled(@, disk[m][lru[b].block]))]
     /\ Goto(u, "hold")
     /\ UNCHANGED <<ListHead, LRUDirtyBuffers, ioVars, op, want, held, failed,
                    ops, flushVars, cb, historyVars>>
RefillError(u) ==
  LET b == held[u]
  IN /\ pc[u] = "refill" /\ ~lruHeld
     /\ lru' = [lru EXCEPT ![b] = Freed(@)]
     /\ ListHead' = Unlist(ListHead, b)
     /\ Goto(u, "search")
     /\ held' = [held EXCEPT ![u] = NoBuffer]
     /\ lru_state' = TRUE
     /\ Kick
     /\ UNCHANGED <<LRUDirtyBuffers, ioVars, op, want, failed, ops,
                    lru_active, flush, lruHeld, cb, historyVars>>

\* The caller changes the buffer it holds: no lock protects the data.
CopyIn(u) ==
  LET b == held[u]
      k == want[u]
  IN /\ pc[u] = "hold" /\ op[u] # "read"
     /\ latest' = [latest EXCEPT ![k] = @ + 1]
     /\ lru' = [lru EXCEPT ![b].buffer = [block |-> k, version |-> latest'[k]]]
     /\ unfilled' = IF op[u] = "overwrite" THEN unfilled \ {b} ELSE unfilled
     /\ Goto(u, "changed")
     /\ UNCHANGED <<ListHead, LRUDirtyBuffers, ioVars, op, want, held, failed,
                    ops, flushVars, cb>>

ReleaseLRU(u) ==
  /\ pc[u] = "hold" /\ op[u] = "read" /\ ~lruHeld
  /\ lru' = [lru EXCEPT ![held[u]].lock_count = @ - 1]
  /\ Goto(u, "idle")
  /\ held' = [held EXCEPT ![u] = NoBuffer]
  /\ UNCHANGED <<ListHead, LRUDirtyBuffers, ioVars, op, want, failed, ops,
                 flushVars, cb, historyVars>>

ReleaseDirtyLRU(u) ==
  LET b == held[u]
  IN /\ pc[u] = "changed" /\ ~lruHeld
     /\ lru' = [lru EXCEPT ![b] = IF Has(b, "DIRTY") THEN Modified(@)
                                  ELSE InsertDirty(Modified(@))]
     /\ LRUDirtyBuffers' = IF Has(b, "DIRTY") \/ "DIRTY" \in lru[b].owner
                           THEN LRUDirtyBuffers ELSE LRUDirtyBuffers + 1
     /\ Goto(u, "idle")
     /\ held' = [held EXCEPT ![u] = NoBuffer]
     /\ UNCHANGED <<ListHead, ioVars, op, want, failed, ops, flushVars, cb,
                    historyVars>>

-----------------------------------------------------------------------------
(* The disks, and the completion interrupts they raise                     *)

SetStage(b, c, s) == io' = [io EXCEPT ![b][c].stage = s]

\* A queued request moves its data, from or to the sectors it was queued for.
Transfer(b, c) ==
  LET r == io[b][c]
  IN /\ r.stage = "queued"
     /\ SetStage(b, c, "moved")
     /\ IF r.command = "write"
        THEN /\ disk' = [disk EXCEPT ![c][r.sector] = lru[b].buffer]
             /\ UNCHANGED lru
        ELSE /\ \E m \in Members :
                  lru' = [lru EXCEPT ![b].buffer = disk[m][r.sector]]
             /\ UNCHANGED disk
     /\ UNCHANGED <<ListHead, LRUDirtyBuffers, io_callback, userVars,
                    flushVars, cb, historyVars>>

TransferError(b, c) ==
  /\ io[b][c].stage = "queued"
  /\ IF io[b][c].command = "write" THEN WriteErrors ELSE ReadErrors
  /\ SetStage(b, c, "failed")
  /\ UNCHANGED <<cacheVars, io_callback, disk, userVars, flushVars, cb,
                 historyVars>>

\* release_asynch_read_ahead: a failed read is left to the callback thread.
ReleaseAsynchReadAhead(b) ==
  /\ io[b][1].command = "ahead" /\ ~lruHeld
  /\ \/ /\ io[b][1].stage = "moved"
        /\ lru' = [lru EXCEPT ![b] = Loaded(@)]
        /\ UNCHANGED io_callback
     \/ /\ io[b][1].stage = "failed"
        /\ io_callback' = Append(io_callback, [lru |-> b, command |-> "ahead"])
        /\ UNCHANGED lru
  /\ SetStage(b, 1, "idle")
  /\ UNCHANGED <<ListHead, LRUDirtyBuffers, disk, userVars, flushVars, cb,
                 historyVars>>

\* A member completed, with or without an error.
Counted(r, err) == [r EXCEPT !.mirrors_completed = @ + 1, !.aio_ccode = err]

\* release_write_aio: the last member to complete ends the flush.  Without an
\* error the buffer is clean, unless it was modified; with one the write is
\* left to the callback thread, and FLUSHING is cleared already.
ReleaseWriteAio(b, c) ==
  LET err == lru[b].aio_ccode \/ io[b][c].stage = "failed"
      last == lru[b].mirrors_completed + 1 = Mirrors
      clean == last /\ Clean(lru[b], err)
      counted == Counted(lru[b], err)
      r == IF last THEN EndFlush(counted) ELSE counted
  IN /\ io[b][c].command = "write" /\ io[b][c].stage \in {"moved", "failed"}
     /\ ~lruHeld
     /\ lru' = [lru EXCEPT ![b] = IF clean THEN RemoveDirty(r) ELSE r]
     /\ LRUDirtyBuffers' = IF clean THEN LessDirty(LRUDirtyBuffers)
                           ELSE LRUDirtyBuffers
     /\ io_callback' = IF last /\ err
                       THEN Append(io_callback, [lru |-> b, command |-> "write"])
                       ELSE io_callback
     /\ SetStage(b, c, "idle")
     /\ UNCHANGED <<ListHead, disk, userVars, flushVars, cb, historyVars>>

-----------------------------------------------------------------------------
(* nwfs-callback: process_callback takes the requests in order             *)

\* retry_asynch_read_ahead, with the synchronous read in its middle
RetryAsynchReadAhead ==
  LET b == Head(io_callback).lru
  IN /\ cb.stage = "down" /\ io_callback # <<>> /\ ~lruHeld
     /\ Head(io_callback).command = "ahead"
     /\ \/ /\ \E m \in Members :
                lru' = [lru EXCEPT ![b] = Filled(@, disk[m][lru[b].block])]
           /\ UNCHANGED ListHead
        \/ /\ lru' = [lru EXCEPT ![b] = Freed(@)]
           /\ ListHead' = Unlist(ListHead, b)
     /\ io_callback' = Tail(io_callback)
     /\ UNCHANGED <<LRUDirtyBuffers, io, disk, userVars, flushVars, cb,
                    historyVars>>

\* retry_write_aio: the buffer is written synchronously, without the lock, to
\* the block the LRU structure names at that time.
RetryWriteAio ==
  LET b == Head(io_callback).lru
  IN /\ cb.stage = "down" /\ io_callback # <<>>
     /\ Head(io_callback).command = "write"
     /\ io_callback' = Tail(io_callback)
     /\ \/ /\ disk' = [c \in Members |->
                         [disk[c] EXCEPT ![lru[b].block] = lru[b].buffer]]
           /\ cb' = [stage |-> "written", lru |-> b]
        \/ /\ cb' = [stage |-> "error", lru |-> b]
           /\ UNCHANGED disk
     /\ UNCHANGED <<cacheVars, io, userVars, flushVars, historyVars>>

RetryWriteAioDone ==
  LET b == cb.lru
      r == EndFlush(lru[b])
      clean == Clean(r, cb.stage = "error")
  IN /\ cb.stage \in {"written", "error"} /\ ~lruHeld
     /\ lru' = [lru EXCEPT ![b] = IF clean THEN RemoveDirty(r) ELSE r]
     /\ LRUDirtyBuffers' = IF clean THEN LessDirty(LRUDirtyBuffers)
                           ELSE LRUDirtyBuffers
     /\ cb' = [stage |-> "down", lru |-> NoBuffer]
     /\ UNCHANGED <<ListHead, ioVars, userVars, flushVars, historyVars>>

-----------------------------------------------------------------------------
(* nwfs-flush and the timer                                                *)

LRUTimer ==
  /\ ~lru_signal /\ ~lru_active
  /\ lru_signal' = TRUE
  /\ UNCHANGED <<cacheVars, ioVars, userVars, lru_active, lru_state, flush,
                 lruHeld, cb, historyVars>>

\* AGING_INTERVAL passes for every buffer.
Age ==
  /\ \E b \in Buffers : ~lru[b].aged
  /\ lru' = [b \in Buffers |-> [lru[b] EXCEPT !.aged = TRUE]]
  /\ UNCHANGED <<ListHead, LRUDirtyBuffers, ioVars, userVars, flushVars, cb,
                 historyVars>>

\* nwfs_flush wakes, and tests lru_active without the lock.
FlushWake ==
  /\ flush.pc = "down" /\ lru_signal
  /\ flush' = [flush EXCEPT !.pc = IF lru_active THEN "reset" ELSE "start"]
  /\ UNCHANGED <<cacheVars, ioVars, userVars, lru_signal, lru_active,
                 lru_state, lruHeld, cb, historyVars>>

FlushReset ==
  /\ flush.pc = "reset"
  /\ lru_signal' = FALSE
  /\ flush' = [flush EXCEPT !.pc = "down"]
  /\ UNCHANGED <<cacheVars, ioVars, userVars, lru_active, lru_state, lruHeld,
                 cb, historyVars>>

\* Mutants: a buffer is flushed twice at a time, or while a caller holds it.
EligibleTwice(b) ==
  /\ {"DIRTY", "DATAVALID"} \subseteq lru[b].state
  /\ lru[b].lock_count = 0
  /\ lru_state \/ lru[b].aged
\* Mutant: nobody flushes buffers that are in demand.
EligibleAgedOnly(b) ==
  /\ {"DIRTY", "DATAVALID"} \subseteq lru[b].state
  /\ ~Has(b, "FLUSHING")
  /\ lru[b].lock_count = 0
  /\ lru_state /\ lru[b].aged
\* The buffers FlushEligibleLRU may write now
Eligible(b) ==
  /\ {"DIRTY", "DATAVALID"} \subseteq lru[b].state
  /\ ~Has(b, "FLUSHING")
  /\ lru[b].lock_count = 0
  /\ lru_state \/ lru[b].aged

\* The walk of FlushEligibleLRU from buffer b to the next eligible one, whose
\* successor is remembered while the lock is dropped.  A buffer that has left
\* the list has no successor.
WalkFrom(b, active) ==
  LET rest == {i \in DOMAIN ListHead :
                 \E j \in 1..i : ListHead[j] = b /\ Eligible(ListHead[i])}
  IN IF rest = {}
     THEN /\ lru_state' = FALSE
          /\ lru_active' = FALSE
          /\ flush' = [pc |-> "reset", list |-> NoBuffer, lru |-> NoBuffer, i |-> 1]
          /\ UNCHANGED lru
     ELSE \E i \in rest :
            /\ \A j \in rest : i <= j
            /\ lru' = [lru EXCEPT ![ListHead[i]] = BeginFlush(@)]
            /\ flush' = [pc |-> "insert", lru |-> ListHead[i], i |-> 1,
                         list |-> IF i = Len(ListHead) THEN NoBuffer
                                  ELSE ListHead[i + 1]]
            /\ lru_active' = active
            /\ UNCHANGED lru_state

FlushStart ==
  /\ flush.pc = "start" /\ ~lruHeld
  /\ WalkFrom(IF ListHead = <<>> THEN NoBuffer ELSE Head(ListHead), TRUE)
  /\ UNCHANGED <<ListHead, LRUDirtyBuffers, ioVars, userVars, lru_signal,
                 lruHeld, cb, historyVars>>

Uncounted(r) == [r EXCEPT !.mirrors_completed = 0, !.aio_ccode = FALSE]

\* One request of the mirrored write is queued.
FlushInsert ==
  LET b == flush.lru
  IN /\ flush.pc = "insert"
     /\ lru' = IF flush.i = 1 THEN [lru EXCEPT ![b] = Uncounted(@)] ELSE lru
     /\ Submit(b, flush.i, "write")
     /\ flush' = [flush EXCEPT !.pc = "relock"]
     /\ UNCHANGED <<ListHead, LRUDirtyBuffers, io_callback, disk, userVars,
                    lru_signal, lru_active, lru_state, lruHeld, cb, historyVars>>

\* NWLockLRU at the end of the loop over the members: the lock is kept for the
\* next member, and for the walk after the last one.
FlushRelock ==
  /\ flush.pc = "relock" /\ ~lruHeld
  /\ IF flush.i < Mirrors
     THEN /\ lruHeld' = TRUE
          /\ flush' = [flush EXCEPT !.pc = "insert", !.i = @ + 1]
          /\ UNCHANGED <<lru, lru_active, lru_state>>
     ELSE WalkFrom(flush.list, lru_active) /\ UNCHANGED lruHeld
  /\ UNCHANGED <<ListHead, LRUDirtyBuffers, ioVars, userVars, lru_signal, cb,
                 historyVars>>

-----------------------------------------------------------------------------
ReadLRU(u) ==
  \/ PerformBlockReadAhead(u)
  \/ ReadLRUHit(u) \/ ReadLRUWait(u) \/ WaitOnBuffer(u)
  \/ ReadLRUFill(u) \/ ReadLRUNoFill(u) \/ ReadLRUNone(u)
  \/ FillBlock(u) \/ FillBlockError(u) \/ Refill(u) \/ RefillError(u)
Release(u) == CopyIn(u) \/ ReleaseLRU(u) \/ ReleaseDirtyLRU(u)
Disk(b, c) == Transfer(b, c) \/ TransferError(b, c)
Interrupt(b, c) == ReleaseWriteAio(b, c) \/ (c = 1 /\ ReleaseAsynchReadAhead(b))
Callback == RetryAsynchReadAhead \/ RetryWriteAio \/ RetryWriteAioDone
FlushDaemon == FlushWake \/ FlushStart \/ FlushInsert \/ FlushRelock \/ FlushReset

Next ==
  \/ \E u \in Users : Call(u) \/ ReadLRU(u) \/ Release(u)
  \/ \E b \in Buffers, c \in Members : Disk(b, c) \/ Interrupt(b, c)
  \/ Callback \/ FlushDaemon \/ LRUTimer \/ Age

Spec == Init /\ [][Next]_vars

\* The users stop calling after MaxOps calls, the disks serve every request
\* and raise their interrupts, every runnable thread runs, time passes.
Fairness ==
  /\ \A u \in Users : WF_vars(ReadLRU(u)) /\ WF_vars(Release(u))
  /\ \A b \in Buffers, c \in Members :
       /\ WF_vars(Disk(b, c))
       /\ WF_vars(Interrupt(b, c))
  /\ WF_vars(Callback) /\ WF_vars(FlushDaemon)
  /\ WF_vars(LRUTimer) /\ WF_vars(Age)
FairSpec == Spec /\ Fairness

-----------------------------------------------------------------------------
(* Properties                                                              *)

TypeOK ==
  /\ lru \in [Buffers -> LRU]
  /\ ListHead \in Seq(Buffers)
  /\ LRUDirtyBuffers \in Nat
  /\ io \in [Buffers -> [Members -> ASYNCH_IO]]
  /\ io_callback \in Seq([lru : Buffers, command : {"ahead", "write"}])
  /\ disk \in [Members -> [Blocks -> Data]]
  /\ pc \in [Users -> UserPcs]
  /\ op \in [Users -> Ops]
  /\ want \in [Users -> Blocks \cup {NoBlock}]
  /\ held \in [Users -> Buffers \cup {NoBuffer}]
  /\ failed \subseteq Users
  /\ ops \in 0..MaxOps
  /\ lru_signal \in BOOLEAN /\ lru_active \in BOOLEAN /\ lru_state \in BOOLEAN
  /\ flush \in [pc : FlushPcs, list : Buffers \cup {NoBuffer},
                lru : Buffers \cup {NoBuffer}, i : Members]
  /\ lruHeld \in BOOLEAN
  /\ cb \in [stage : {"down", "written", "error"}, lru : Buffers \cup {NoBuffer}]
  /\ latest \in [Blocks -> Nat]
  /\ unfilled \subseteq Buffers

Holding(u) == pc[u] \in {"hold", "changed"}
Newest(k) == [block |-> k, version |-> latest[k]]

\* A block is in at most one buffer, so that all callers see the same data:
\* ReadLRU, the read ahead and the failure paths agree on who owns the block.
OneBufferPerBlock ==
  \A a, b \in Buffers :
    Hashed(a) /\ Hashed(b) /\ lru[a].block = lru[b].block => a = b

\* A caller that holds a buffer finds the block it asked for in it until it
\* releases it: the buffer is not given to another block (GetAvailableLRU), nor
\* freed by the error path of another thread.
HeldBufferStays ==
  \A u \in Users : Holding(u) =>
    /\ Hashed(held[u]) /\ lru[held[u]].block = want[u]
    /\ Has(held[u], "DATAVALID")

\* Nobody waits for a load that is over: whoever ends one, with the data,
\* with an error or after a retry, wakes the waiters.
WaitersHaveLoad == \A b \in Buffers : lru[b].Waiters > 0 => Has(b, "LOADING")

\* The last write to a block is never lost: it is on every disk, or in a buffer
\* that is dirty, or that its writer still has to release as dirty.
NoLostUpdate ==
  \A k \in Blocks, c \in Members :
    \/ disk[c][k] = Newest(k)
    \/ \E b \in SearchHash(k) :
         /\ lru[b].buffer = Newest(k) \/ b \in unfilled
         /\ \/ Has(b, "DIRTY")
            \/ \E u \in Users : pc[u] = "changed" /\ held[u] = b

\* A valid buffer contains the last write to its block, unless its first data
\* is still to come from the caller that asked for it without fill.
BuffersCurrent ==
  \A b \in Buffers \ unfilled :
    Hashed(b) /\ Has(b, "DATAVALID") => lru[b].buffer = Newest(lru[b].block)

\* The counters are exact.  lock_count counts the callers that hold the buffer,
\* neither more nor fewer: GetAvailableLRU and FlushEligibleLRU rely on it.  Those
\* that still wait for a buffer are counted in Waiters or have a signal of the
\* semaphore to take, so that no wake-up is lost or sent twice.  And the number that
\* decides when ReadLRU wakes the flush daemon is that of the dirty buffers: every
\* buffer enters and leaves the dirty set once.
CountsExact ==
  /\ \A b \in Buffers :
       /\ lru[b].lock_count = Cardinality({u \in Users : Holding(u) /\ held[u] = b})
       /\ lru[b].Waiters + lru[b].Semaphore
            = Cardinality({u \in Users : pc[u] = "wait" /\ held[u] = b})
  /\ LRUDirtyBuffers = Cardinality({b \in Buffers : Has(b, "DIRTY")})

Writing(b) ==
  \/ \E c \in Members : io[b][c].command = "write" /\ io[b][c].stage # "idle"
  \/ \E n \in DOMAIN io_callback : io_callback[n] = [lru |-> b, command |-> "write"]
  \/ cb.stage # "down" /\ cb.lru = b
  \/ flush.lru = b /\ (flush.pc = "insert" \/ (flush.pc = "relock" /\ flush.i < Mirrors))

\* A buffer is FLUSHING exactly while a write of it is under way: it is neither
\* flushed again nor taken for another block under the write, and something is
\* there to end the flush.  A request is initialised only when it is neither queued
\* for the disk nor on the callback list ("asynch io request already active"), by
\* a flush that begins or for a block that gets the buffer.
OneWriteAtATime ==
  /\ \A b \in Buffers : Writing(b) <=> Has(b, "FLUSHING")
  /\ flush.pc = "insert" =>
       io[flush.lru][flush.i].stage = "idle" /\ ~InCallback(flush.lru)
  /\ \A b \in GetAvailableLRU :
       ~InCallback(b) /\ \A c \in Members : io[b][c].stage = "idle"

\* Not so with write errors, see the README: what is on disk for a block was
\* written for this block.
DiskBlocksOwn == \A c \in Members, k \in Blocks : disk[c][k].block = k

\* A flush that has begun ends: all mirror members complete, or the write is
\* retried, and the buffer can be evicted or flushed again.
FlushCompletes == \A b \in Buffers : Has(b, "FLUSHING") ~> ~Has(b, "FLUSHING")

Unspecified == -1   \* no contents: of a buffer that was not filled yet
\* The version of a block that ReadLRU gives its callers: the one in its valid
\* buffer, or the one it would load from the disk.
Cached(k) == {b \in SearchHash(k) : Has(b, "DATAVALID")}
Contents(k) ==
  IF Cached(k) = {} THEN disk[1][k]
  ELSE LET b == CHOOSE a \in Cached(k) : TRUE
       IN IF b \in unfilled THEN [block |-> k, version |-> Unspecified]
          ELSE lru[b].buffer
Version(d, k) == IF d.block = k THEN d.version ELSE -2

Store == INSTANCE WriteBackStore WITH
           mem <- [k \in Blocks |-> Version(Contents(k), k)],
           stable <- [k \in Blocks |-> Version(disk[1][k], k)],
           writes <- latest

\* The cache implements the write-back store: a buffer that is evicted, loaded,
\* flushed or shared never changes what a reader of the block gets, and the disk
\* only receives what the readers see.
ImplementsStore == Store!Spec

\* Every write gets to every disk in the end, or is overtaken by a later one.
WritesReachDisk ==
  \A k \in Blocks, c \in Members, n \in 1..MaxOps :
    latest[k] = n ~> (disk[c][k].block = k /\ disk[c][k].version >= n)

\* A caller of ReadLRU gets its answer.
ReadLRUReturns ==
  \A u \in Users : pc[u] \in {"ahead", "search", "wait", "fill", "refill"}
                     ~> pc[u] \in {"hold", "idle"}
=============================================================================

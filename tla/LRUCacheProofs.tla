--------------------------- MODULE LRUCacheProofs ---------------------------
(***************************************************************************)
(* Proofs about the block cache (LRUCache), for any number of buffers,     *)
(* blocks, callers and mirror members.                                     *)
(***************************************************************************)
EXTENDS LRUCache, SequenceTheorems, FiniteSetTheorems, TLAPS

-----------------------------------------------------------------------------
(* The inductive invariant.  TypeOK alone is not inductive: that a buffer   *)
(* takes data of the right type from the disk needs that a request always   *)
(* names a block, and that needs that whoever holds a buffer, as caller,    *)
(* request, flush or retry, holds one that was assigned to a block.  There  *)
(* is one part for every group of variables.                                *)

\* A buffer that was assigned to a block; it never gets unassigned.
Known(b) == b \in Buffers /\ lru[b].block \in Blocks
\* What a step of the cache may do to the buffers
Kept == \A b \in Buffers : lru[b].block \in Blocks => lru'[b].block \in Blocks

CacheInv ==
  /\ lru \in [Buffers -> LRU]
  /\ ListHead \in Seq(Buffers)
  /\ LRUDirtyBuffers \in Nat
  /\ \A i \in DOMAIN ListHead : Known(ListHead[i])
IoInv ==
  /\ io \in [Buffers -> [Members -> ASYNCH_IO]]
  /\ \A b \in Buffers, c \in Members : io[b][c].stage # "idle" =>
       Known(b) /\ io[b][c].sector \in Blocks
CallbackInv ==
  /\ io_callback \in Seq([lru : Buffers, command : {"ahead", "write"}])
  /\ cb \in [stage : {"down", "written", "error"}, lru : Buffers \cup {NoBuffer}]
  /\ \A i \in DOMAIN io_callback : Known(io_callback[i].lru)
  /\ cb.stage # "down" => Known(cb.lru)
DiskInv == disk \in [Members -> [Blocks -> Data]]
UsersInv ==
  /\ pc \in [Users -> UserPcs]
  /\ op \in [Users -> Ops]
  /\ want \in [Users -> Blocks \cup {NoBlock}]
  /\ held \in [Users -> Buffers \cup {NoBuffer}]
  /\ failed \subseteq Users
  /\ ops \in 0..MaxOps
  /\ \A u \in Users :
       /\ pc[u] # "idle" => want[u] \in Blocks
       /\ pc[u] = "ahead" => Following[want[u]] \in Blocks
       /\ pc[u] \notin {"idle", "ahead", "search"} => Known(held[u])
FlushInv ==
  /\ lru_signal \in BOOLEAN /\ lru_active \in BOOLEAN /\ lru_state \in BOOLEAN
  /\ flush \in [pc : FlushPcs, list : Buffers \cup {NoBuffer},
                lru : Buffers \cup {NoBuffer}, i : Members]
  /\ lruHeld \in BOOLEAN
  /\ flush.pc \in {"insert", "relock"} => Known(flush.lru)
HistoryInv == latest \in [Blocks -> Nat] /\ unfilled \subseteq Buffers

TypeInv ==
  CacheInv /\ IoInv /\ CallbackInv /\ DiskInv /\ UsersInv /\ FlushInv /\ HistoryInv

\* A part whose variables do not change stays true while the buffers are kept.
LEMMA Frame ==
  ASSUME TypeInv, Kept, lru' \in [Buffers -> LRU]
  PROVE  /\ UNCHANGED <<ListHead, LRUDirtyBuffers>> => CacheInv'
         /\ UNCHANGED io => IoInv'
         /\ UNCHANGED <<io_callback, cb>> => CallbackInv'
         /\ UNCHANGED disk => DiskInv'
         /\ UNCHANGED userVars => UsersInv'
         /\ UNCHANGED flushVars => FlushInv'
         /\ UNCHANGED historyVars => HistoryInv'
<1> USE DEF TypeInv, Kept, Known
<1>1. UNCHANGED <<ListHead, LRUDirtyBuffers>> => CacheInv'
  BY DEF CacheInv
<1>2. UNCHANGED io => IoInv'
  BY DEF IoInv
<1>3. UNCHANGED <<io_callback, cb>> => CallbackInv'
  BY DEF CallbackInv
<1>4. UNCHANGED disk => DiskInv'
  BY DEF DiskInv
<1>5. UNCHANGED userVars => UsersInv'
  BY DEF UsersInv, userVars
<1>6. UNCHANGED flushVars => FlushInv'
  BY DEF FlushInv, flushVars
<1>7. UNCHANGED historyVars => HistoryInv'
  BY DEF HistoryInv, historyVars
<1>8. QED
  BY <1>1, <1>2, <1>3, <1>4, <1>5, <1>6, <1>7

\* A step that replaces one buffer by a buffer that holds a block keeps them.
LEMMA OneBuffer ==
  ASSUME lru \in [Buffers -> LRU], NEW b \in Buffers, NEW r \in LRU,
         lru[b].block \in Blocks => r.block \in Blocks,
         lru' = [lru EXCEPT ![b] = r]
  PROVE  /\ lru' \in [Buffers -> LRU] /\ Kept
         /\ r.block \in Blocks => Known(b)'
BY DEF Kept, Known

-----------------------------------------------------------------------------
(* The operations on one buffer                                            *)

\* Every operation of the cache on an LRU structure yields an LRU structure
\* that holds the same block.
LEMMA OperationTypes ==
  ASSUME NEW r \in LRU
  PROVE  /\ ReleaseWaiters(r) \in LRU /\ ReleaseWaiters(r).block = r.block
         /\ RemoveDirty(r) \in LRU /\ RemoveDirty(r).block = r.block
         /\ InsertDirty(r) \in LRU /\ InsertDirty(r).block = r.block
         /\ BeginFlush(r) \in LRU /\ BeginFlush(r).block = r.block
         /\ EndFlush(r) \in LRU /\ EndFlush(r).block = r.block
         /\ Loaded(r) \in LRU /\ Loaded(r).block = r.block
         /\ Freed(r) \in LRU /\ Freed(r).block = r.block
<1>0. r.Semaphore + r.Waiters \in Nat /\ 0 \in Nat
  BY DEF LRU
<1>1. \A q \in LRU : q.Semaphore + q.Waiters \in Nat =>
        ReleaseWaiters(q) \in LRU /\ ReleaseWaiters(q).block = q.block
  <2> SUFFICES ASSUME NEW q \in LRU, q.Semaphore + q.Waiters \in Nat
               PROVE  ReleaseWaiters(q) \in LRU /\ ReleaseWaiters(q).block = q.block
    OBVIOUS
  <2> DEFINE q1 == [q EXCEPT !.Semaphore = @ + q.Waiters]
  <2>1. q1 \in LRU /\ q1.block = q.block
    BY DEF LRU
  <2>2. ReleaseWaiters(q) = [q1 EXCEPT !.Waiters = 0]
    BY DEF ReleaseWaiters
  <2> HIDE DEF q1
  <2>3. [q1 EXCEPT !.Waiters = 0] \in LRU /\ [q1 EXCEPT !.Waiters = 0].block = q1.block
    BY <2>1 DEF LRU
  <2>4. QED
    BY <2>1, <2>2, <2>3
<1>2. RemoveDirty(r) \in LRU /\ RemoveDirty(r).block = r.block
  BY DEF RemoveDirty, LRU
<1>3. InsertDirty(r) \in LRU /\ InsertDirty(r).block = r.block
  BY DEF InsertDirty, LRU, Flags, Queues
<1>4. BeginFlush(r) \in LRU /\ BeginFlush(r).block = r.block
  BY DEF BeginFlush, LRU, Flags
<1>5. EndFlush(r) \in LRU /\ EndFlush(r).block = r.block
  BY DEF EndFlush, LRU
<1>6. Loaded(r) \in LRU /\ Loaded(r).block = r.block
  <2> DEFINE q == [r EXCEPT !.state = (@ \ {"LOADING"}) \cup {"DATAVALID"}]
  <2>1. q \in LRU /\ q.block = r.block /\ q.Semaphore = r.Semaphore /\ q.Waiters = r.Waiters
    BY DEF LRU, Flags
  <2>2. Loaded(r) = ReleaseWaiters(q)
    BY DEF Loaded
  <2>3. QED
    BY <1>0, <1>1, <2>1, <2>2
<1>7. Freed(r) \in LRU /\ Freed(r).block = r.block
  <2> DEFINE q == [r EXCEPT !.state = {"FREE"},
                            !.owner = (@ \ {"LRU", "HASH"}) \cup {"FREE"}]
  <2>1. q \in LRU /\ q.block = r.block /\ q.Semaphore = r.Semaphore /\ q.Waiters = r.Waiters
    BY DEF LRU, Flags, Queues
  <2>2. Freed(r) = ReleaseWaiters(q)
    BY DEF Freed
  <2>3. QED
    BY <1>0, <1>1, <2>1, <2>2
<1>8. QED
  BY <1>0, <1>1, <1>2, <1>3, <1>4, <1>5, <1>6, <1>7

\* RemoveListHead leaves a sequence of elements of the list.
LEMMA UnlistType ==
  ASSUME NEW S, NEW s \in Seq(S), NEW b
  PROVE  /\ Unlist(s, b) \in Seq(S)
         /\ \A i \in DOMAIN Unlist(s, b) : \E j \in DOMAIN s : Unlist(s, b)[i] = s[j]
<1>1. CASE \E j \in DOMAIN s : s[j] = b
  <2> DEFINE i == CHOOSE j \in DOMAIN s : s[j] = b
  <2> DEFINE pre == SubSeq(s, 1, i - 1)
  <2> DEFINE post == SubSeq(s, i + 1, Len(s))
  <2>1. i \in 1..Len(s)
    BY <1>1
  <2> HIDE DEF i
  <2>2. /\ pre \in Seq(S) /\ Len(pre) = i - 1
        /\ \A j \in 1..(i - 1) : pre[j] = s[j]
    <3>1. 1 \in Int /\ i - 1 \in Int /\ \A m \in 1..(i - 1) : s[m] \in S
      BY <2>1
    <3>2. /\ pre \in Seq(S)
          /\ Len(pre) = IF 1 <= i - 1 THEN (i - 1) - 1 + 1 ELSE 0
          /\ \A j \in 1..((i - 1) - 1 + 1) : pre[j] = s[1 + j - 1]
      BY ONLY <3>1, SubSeqProperties
    <3>3. QED
      BY <2>1, <3>2
  <2>3. /\ post \in Seq(S) /\ Len(post) = Len(s) - i
        /\ \A j \in 1..(Len(s) - i) : post[j] = s[i + j]
    <3>1. i + 1 \in Int /\ Len(s) \in Int /\ \A m \in (i + 1)..Len(s) : s[m] \in S
      BY <2>1
    <3>2. /\ post \in Seq(S)
          /\ Len(post) = IF i + 1 <= Len(s) THEN Len(s) - (i + 1) + 1 ELSE 0
          /\ \A j \in 1..(Len(s) - (i + 1) + 1) : post[j] = s[(i + 1) + j - 1]
      BY ONLY <3>1, SubSeqProperties
    <3>3. QED
      BY <2>1, <3>2
  <2>4. Unlist(s, b) = pre \o post
    BY <1>1 DEF Unlist, i
  <2> HIDE DEF pre, post
  <2>5. /\ pre \o post \in Seq(S) /\ Len(pre \o post) = Len(s) - 1
        /\ \A n \in 1..(Len(s) - 1) :
             (pre \o post)[n] = IF n <= i - 1 THEN pre[n] ELSE post[n - (i - 1)]
    BY <2>1, <2>2, <2>3, ConcatProperties
  <2>6. \A n \in DOMAIN (pre \o post) : \E j \in DOMAIN s : (pre \o post)[n] = s[j]
    <3> SUFFICES ASSUME NEW n \in DOMAIN (pre \o post)
                 PROVE  \E j \in DOMAIN s : (pre \o post)[n] = s[j]
      OBVIOUS
    <3>1. n \in 1..(Len(s) - 1) /\ Len(s) \in Nat
      BY <2>5
    <3>2. CASE n <= i - 1
      BY <3>1, <3>2, <2>1, <2>2, <2>5
    <3>3. CASE n > i - 1
      <4>0. n \in 1..(Len(s) - 1) /\ ~(n <= i - 1)
        BY <3>1, <3>3, <2>1
      <4>1. (pre \o post)[n] = post[n - (i - 1)]
        BY <4>0, <2>5, Zenon
      <4>2. n - (i - 1) \in 1..(Len(s) - i)
        BY <3>1, <3>3, <2>1
      <4>3. post[n - (i - 1)] = s[i + (n - (i - 1))]
        BY <4>2, <2>3
      <4>4. i + (n - (i - 1)) \in DOMAIN s
        BY <3>1, <3>3, <2>1
      <4>5. QED
        BY <4>1, <4>3, <4>4
    <3>4. QED
      BY <3>1, <3>2, <3>3, <2>1
  <2>7. QED
    BY <2>4, <2>5, <2>6
<1>2. CASE ~\E j \in DOMAIN s : s[j] = b
  BY <1>2 DEF Unlist
<1>3. QED
  BY <1>1, <1>2
-----------------------------------------------------------------------------
(* The steps                                                               *)

\* Changing one field of a buffer to a value of its type
LEMMA FieldTypes ==
  ASSUME NEW r \in LRU
  PROVE  /\ Taken(r) \in LRU /\ Taken(r).block = r.block
         /\ [r EXCEPT !.lock_count = @ - 1] \in LRU
         /\ [r EXCEPT !.lock_count = @ - 1].block = r.block
         /\ [r EXCEPT !.Waiters = @ + 1] \in LRU
         /\ [r EXCEPT !.Waiters = @ + 1].block = r.block
         /\ r.Semaphore > 0 => [r EXCEPT !.Semaphore = @ - 1] \in LRU
         /\ [r EXCEPT !.Semaphore = @ - 1].block = r.block
         /\ [r EXCEPT !.aged = TRUE] \in LRU
         /\ [r EXCEPT !.aged = TRUE].block = r.block
         /\ \A d \in Data : [r EXCEPT !.buffer = d] \in LRU
                          /\ [r EXCEPT !.buffer = d].block = r.block
<1>1. Taken(r) \in LRU /\ Taken(r).block = r.block
  BY DEF Taken, LRU
<1>2. [r EXCEPT !.lock_count = @ - 1] \in LRU
      /\ [r EXCEPT !.lock_count = @ - 1].block = r.block
  BY DEF LRU
<1>3. [r EXCEPT !.Waiters = @ + 1] \in LRU /\ [r EXCEPT !.Waiters = @ + 1].block = r.block
  BY DEF LRU
<1>4. (r.Semaphore > 0 => [r EXCEPT !.Semaphore = @ - 1] \in LRU)
      /\ [r EXCEPT !.Semaphore = @ - 1].block = r.block
  BY DEF LRU
<1>5. [r EXCEPT !.aged = TRUE] \in LRU /\ [r EXCEPT !.aged = TRUE].block = r.block
  BY DEF LRU
<1>6. \A d \in Data : [r EXCEPT !.buffer = d] \in LRU
                    /\ [r EXCEPT !.buffer = d].block = r.block
  BY DEF LRU
<1>7. QED
  BY <1>1, <1>2, <1>3, <1>4, <1>5, <1>6

\* The operations that change several fields, or take an argument
LEMMA ArgumentTypes ==
  ASSUME NEW r \in LRU
  PROVE  /\ Modified(r) \in LRU /\ Modified(r).block = r.block
         /\ Uncounted(r) \in LRU /\ Uncounted(r).block = r.block
         /\ \A e \in BOOLEAN : Counted(r, e) \in LRU /\ Counted(r, e).block = r.block
         /\ \A d \in Data : Filled(r, d) \in LRU /\ Filled(r, d).block = r.block
         /\ \A k \in Blocks, flags \in SUBSET Flags, n \in Int :
              Assigned(r, k, flags, n) \in LRU /\ Assigned(r, k, flags, n).block = k
<1>1. Modified(r) \in LRU /\ Modified(r).block = r.block
  <2> DEFINE q == [r EXCEPT !.lock_count = @ - 1]
  <2>1. q \in LRU /\ q.block = r.block /\ q.state = r.state
    BY DEF LRU
  <2>2. Modified(r) = [q EXCEPT !.state = @ \cup {"MODIFIED"}, !.aged = FALSE]
    BY DEF Modified
  <2> HIDE DEF q
  <2>3. [q EXCEPT !.state = @ \cup {"MODIFIED"}, !.aged = FALSE] \in LRU
        /\ [q EXCEPT !.state = @ \cup {"MODIFIED"}, !.aged = FALSE].block = q.block
    BY <2>1 DEF LRU, Flags
  <2>4. QED
    BY <2>1, <2>2, <2>3
<1>2. Uncounted(r) \in LRU /\ Uncounted(r).block = r.block
  BY DEF Uncounted, LRU
<1>3. \A e \in BOOLEAN : Counted(r, e) \in LRU /\ Counted(r, e).block = r.block
  <2> SUFFICES ASSUME NEW e \in BOOLEAN
               PROVE  Counted(r, e) \in LRU /\ Counted(r, e).block = r.block
    OBVIOUS
  <2> DEFINE q == [r EXCEPT !.mirrors_completed = @ + 1]
  <2>1. q \in LRU /\ q.block = r.block
    BY DEF LRU
  <2>2. Counted(r, e) = [q EXCEPT !.aio_ccode = e]
    BY DEF Counted
  <2> HIDE DEF q
  <2>3. [q EXCEPT !.aio_ccode = e] \in LRU /\ [q EXCEPT !.aio_ccode = e].block = q.block
    BY <2>1 DEF LRU
  <2>4. QED
    BY <2>1, <2>2, <2>3
<1>4. \A d \in Data : Filled(r, d) \in LRU /\ Filled(r, d).block = r.block
  <2> SUFFICES ASSUME NEW d \in Data
               PROVE  Filled(r, d) \in LRU /\ Filled(r, d).block = r.block
    OBVIOUS
  <2>1. Loaded(r) \in LRU /\ Loaded(r).block = r.block
    BY OperationTypes
  <2> DEFINE q == Loaded(r)
  <2> HIDE DEF q
  <2>2. [q EXCEPT !.buffer = d] \in LRU /\ [q EXCEPT !.buffer = d].block = q.block
    BY <2>1, FieldTypes DEF q
  <2>3. Filled(r, d) = [q EXCEPT !.buffer = d]
    BY DEF Filled, q
  <2>4. QED
    BY <2>1, <2>2, <2>3 DEF q
<1>5. \A k \in Blocks, flags \in SUBSET Flags, n \in Int :
        Assigned(r, k, flags, n) \in LRU /\ Assigned(r, k, flags, n).block = k
  <2> SUFFICES ASSUME NEW k \in Blocks, NEW flags \in SUBSET Flags, NEW n \in Int
               PROVE  Assigned(r, k, flags, n) \in LRU /\ Assigned(r, k, flags, n).block = k
    OBVIOUS
  <2> DEFINE q == [r EXCEPT !.lock_count = @ + n,
                            !.owner = (@ \ {"FREE"}) \cup {"LRU", "HASH"}]
  <2>1. q \in LRU
    <3> DEFINE p == [r EXCEPT !.lock_count = @ + n]
    <3>1. p \in LRU /\ p.owner = r.owner
      BY DEF LRU
    <3>2. q = [p EXCEPT !.owner = (@ \ {"FREE"}) \cup {"LRU", "HASH"}]
      OBVIOUS
    <3> HIDE DEF p, q
    <3>3. [p EXCEPT !.owner = (@ \ {"FREE"}) \cup {"LRU", "HASH"}] \in LRU
      BY <3>1 DEF LRU, Queues
    <3>4. QED
      BY <3>2, <3>3
  <2>2. Assigned(r, k, flags, n)
          = [q EXCEPT !.state = flags, !.block = k, !.aio_ccode = FALSE]
    BY DEF Assigned
  <2> HIDE DEF q
  <2>3. [q EXCEPT !.state = flags, !.block = k, !.aio_ccode = FALSE] \in LRU
        /\ [q EXCEPT !.state = flags, !.block = k, !.aio_ccode = FALSE].block = k
    BY <2>1 DEF LRU
  <2>4. QED
    BY <2>2, <2>3
<1>6. QED
  BY <1>1, <1>2, <1>3, <1>4, <1>5

\* GetAvailableLRU yields buffers, and Assign gives one to a block.
LEMMA AssignType ==
  ASSUME CacheInv, NEW b \in GetAvailableLRU, NEW k \in Blocks,
         NEW flags \in SUBSET Flags, NEW n \in Int, Assign(b, k, flags, n),
         LRUDirtyBuffers' = LRUDirtyBuffers
  PROVE  CacheInv' /\ Kept /\ Known(b)' /\ lru'[b].block = k
<1>1. b \in Buffers /\ lru[b] \in LRU
  BY DEF GetAvailableLRU, OnFreeList, Unused, Idle, CacheInv
<1> DEFINE r == Assigned(lru[b], k, flags, n)
<1>2. r \in LRU /\ r.block = k
  <2> DEFINE q == lru[b]
  <2>1. q \in LRU
    BY <1>1
  <2> HIDE DEF q
  <2>2. \A kk \in Blocks, ff \in SUBSET Flags, nn \in Int :
              Assigned(q, kk, ff, nn) \in LRU /\ Assigned(q, kk, ff, nn).block = kk
    BY <2>1, ArgumentTypes
  <2>3. Assigned(q, k, flags, n) \in LRU /\ Assigned(q, k, flags, n).block = k
    BY <2>2
  <2>4. QED
    BY <2>3 DEF q
<1>3. lru' = [lru EXCEPT ![b] = r]
  BY DEF Assign
<1> HIDE DEF r
<1>4. lru' \in [Buffers -> LRU] /\ Kept
  BY <1>1, <1>2, <1>3, OneBuffer DEF CacheInv
<1>5. Known(b)' /\ lru'[b].block = k
  BY <1>1, <1>2, <1>3 DEF CacheInv, Known
<1>6. /\ ListHead' \in Seq(Buffers)
      /\ \A i \in DOMAIN ListHead' :
           ListHead'[i] \in Buffers /\ lru'[ListHead'[i]].block \in Blocks
  <2>1. CASE \E i \in DOMAIN ListHead : ListHead[i] = b
    <3>1. ListHead' = ListHead
      BY <2>1 DEF Assign
    <3>2. QED
      BY <3>1, <1>4 DEF CacheInv, Kept, Known
  <2>2. CASE ~\E i \in DOMAIN ListHead : ListHead[i] = b
    <3>1. ListHead' = Append(ListHead, b) /\ ListHead \in Seq(Buffers)
      BY <2>2 DEF Assign, CacheInv
    <3>2. /\ ListHead' \in Seq(Buffers) /\ DOMAIN ListHead' = 1..(Len(ListHead) + 1)
          /\ \A i \in DOMAIN ListHead' :
               ListHead'[i] = b \/ (i \in DOMAIN ListHead /\ ListHead'[i] = ListHead[i])
      BY <1>1, <3>1, AppendProperties
    <3>3. ASSUME NEW i \in DOMAIN ListHead'
          PROVE  ListHead'[i] \in Buffers /\ lru'[ListHead'[i]].block \in Blocks
      <4>1. CASE ListHead'[i] = b
        BY <4>1, <1>5 DEF Known
      <4>2. CASE i \in DOMAIN ListHead /\ ListHead'[i] = ListHead[i]
        <5>1. Known(ListHead[i])
          BY <4>2 DEF CacheInv
        <5>2. QED
          BY <5>1, <4>2, <1>4 DEF Kept, Known
      <4>3. QED
        BY <3>2, <4>1, <4>2
    <3>4. QED
      BY <3>2, <3>3
  <2>3. QED
    BY <2>1, <2>2
<1>7. LRUDirtyBuffers' \in Nat
  BY DEF CacheInv
<1>8. CacheInv'
  BY <1>4, <1>6, <1>7 DEF CacheInv, Known
<1>9. QED
  BY <1>4, <1>5, <1>8
\* A step of caller u that goes to l with buffer h
LEMMA UserStep ==
  ASSUME UsersInv, Kept, NEW u \in Users, NEW l \in UserPcs \ {"ahead"},
         NEW h \in Buffers \cup {NoBuffer},
         pc' = [pc EXCEPT ![u] = l], held' = [held EXCEPT ![u] = h],
         UNCHANGED <<op, want, ops>>, failed' \subseteq Users,
         l # "idle" => want[u] \in Blocks,
         l \notin {"idle", "search"} => h \in Buffers /\ lru'[h].block \in Blocks
  PROVE  UsersInv'
<1>1. /\ pc' \in [Users -> UserPcs] /\ held' \in [Users -> Buffers \cup {NoBuffer}]
      /\ want' \in [Users -> Blocks \cup {NoBlock}] /\ op' \in [Users -> Ops]
      /\ ops' \in 0..MaxOps
  BY DEF UsersInv
<1>2. ASSUME NEW v \in Users
      PROVE  /\ pc'[v] # "idle" => want'[v] \in Blocks
             /\ pc'[v] = "ahead" => Following[want'[v]] \in Blocks
             /\ pc'[v] \notin {"idle", "ahead", "search"} =>
                  held'[v] \in Buffers /\ lru'[held'[v]].block \in Blocks
  <2>1. CASE v = u
    BY <2>1 DEF UsersInv
  <2>2. CASE v # u
    BY <2>2 DEF UsersInv, Kept, Known
  <2>3. QED
    BY <2>1, <2>2
<1>3. QED
  BY <1>1, <1>2 DEF UsersInv, Known

\* A step that changes one buffer, which keeps its block
LEMMA SameBlock ==
  ASSUME lru \in [Buffers -> LRU], NEW b \in Buffers, NEW r \in LRU,
         r.block = lru[b].block, lru' = [lru EXCEPT ![b] = r]
  PROVE  /\ lru' \in [Buffers -> LRU] /\ Kept
         /\ lru'[b].block = lru[b].block
BY OneBuffer

\* A request is queued for a buffer that was assigned to a block.
LEMMA SubmitType ==
  ASSUME IoInv, Kept, NEW a \in Buffers, NEW c \in Members, NEW command \in Commands,
         lru'[a].block \in Blocks, Submit(a, c, command)
  PROVE  IoInv'
<1>1. io' \in [Buffers -> [Members -> ASYNCH_IO]]
  BY DEF IoInv, Submit, ASYNCH_IO, Stages
<1>2. ASSUME NEW d \in Buffers, NEW m \in Members, io'[d][m].stage # "idle"
      PROVE  lru'[d].block \in Blocks /\ io'[d][m].sector \in Blocks
  <2>1. CASE d = a /\ m = c
    BY <2>1 DEF IoInv, Submit
  <2>2. CASE ~(d = a /\ m = c)
    <3>1. io'[d][m] = io[d][m]
      BY <2>2 DEF IoInv, Submit
    <3>2. QED
      BY <1>2, <3>1 DEF IoInv, Kept, Known
  <2>3. QED
    BY <2>1, <2>2
<1>3. QED
  BY <1>1, <1>2 DEF IoInv, Known

\* A request is moved on.
LEMMA StageType ==
  ASSUME IoInv, Kept, NEW a \in Buffers, NEW c \in Members, NEW st \in Stages,
         st = "idle" \/ io[a][c].stage # "idle",
         io' = [io EXCEPT ![a][c].stage = st]
  PROVE  IoInv'
<1>1. io' \in [Buffers -> [Members -> ASYNCH_IO]]
  <2> DEFINE q == [io[a][c] EXCEPT !.stage = st]
  <2>1. q \in ASYNCH_IO
    BY DEF IoInv, ASYNCH_IO
  <2> DEFINE p == [io[a] EXCEPT ![c] = q]
  <2>2. io' = [io EXCEPT ![a] = p]
    OBVIOUS
  <2> HIDE DEF q
  <2>3. p \in [Members -> ASYNCH_IO]
    BY <2>1 DEF IoInv
  <2> HIDE DEF p
  <2>4. QED
    BY <2>2, <2>3 DEF IoInv
<1>2. ASSUME NEW d \in Buffers, NEW m \in Members, io'[d][m].stage # "idle"
      PROVE  lru'[d].block \in Blocks /\ io'[d][m].sector \in Blocks
  <2>1. io[d][m].stage # "idle" /\ io'[d][m].sector = io[d][m].sector
    <3>1. CASE d = a /\ m = c
      BY <1>2, <3>1 DEF IoInv, ASYNCH_IO
    <3>2. CASE ~(d = a /\ m = c)
      BY <1>2, <3>2 DEF IoInv, ASYNCH_IO
    <3>3. QED
      BY <3>1, <3>2
  <2>2. QED
    BY <2>1 DEF IoInv, Kept, Known
<1>3. QED
  BY <1>1, <1>2 DEF IoInv, Known

\* A buffer is taken off the list of all buffers.
LEMMA UnlistKept ==
  ASSUME CacheInv, Kept, lru' \in [Buffers -> LRU], NEW a,
         ListHead' = Unlist(ListHead, a), UNCHANGED LRUDirtyBuffers
  PROVE  CacheInv'
<1>1. /\ ListHead' \in Seq(Buffers)
      /\ \A i \in DOMAIN ListHead' : \E j \in DOMAIN ListHead : ListHead'[i] = ListHead[j]
  BY UnlistType DEF CacheInv
<1>2. QED
  BY <1>1 DEF CacheInv, Kept, Known

\* A request is put on the callback list.
LEMMA Posted ==
  ASSUME CallbackInv, Kept, NEW b \in Buffers, NEW command \in {"ahead", "write"},
         lru[b].block \in Blocks, UNCHANGED cb,
         UNCHANGED io_callback \/
           io_callback' = Append(io_callback, [lru |-> b, command |-> command])
  PROVE  CallbackInv'
<1> DEFINE R == [lru : Buffers, command : {"ahead", "write"}]
<1> DEFINE e == [lru |-> b, command |-> command]
<1>1. CASE UNCHANGED io_callback
  BY <1>1 DEF CallbackInv, Kept, Known
<1>2. CASE io_callback' = Append(io_callback, e)
  <2>1. e \in R /\ e.lru = b /\ io_callback \in Seq(R)
    BY DEF CallbackInv
  <2> HIDE DEF e
  <2>2. /\ io_callback' \in Seq(R)
        /\ \A i \in DOMAIN io_callback' : io_callback'[i] = e
             \/ (i \in DOMAIN io_callback /\ io_callback'[i] = io_callback[i])
    BY <1>2, <2>1, AppendProperties
  <2>3. \A i \in DOMAIN io_callback' :
          io_callback'[i].lru \in Buffers /\ lru'[io_callback'[i].lru].block \in Blocks
    BY <2>1, <2>2 DEF CallbackInv, Kept, Known
  <2>4. QED
    BY <2>2, <2>3 DEF CallbackInv, Kept, Known
<1>3. QED
  BY <1>1, <1>2

\* The counter of dirty buffers stays a natural number.
LEMMA Counter ==
  ASSUME CacheInv, Kept, lru' \in [Buffers -> LRU], UNCHANGED ListHead,
         LRUDirtyBuffers' \in {LRUDirtyBuffers, LessDirty(LRUDirtyBuffers)}
  PROVE  CacheInv'
<1>1. LRUDirtyBuffers' \in Nat
  BY DEF CacheInv, LessDirty
<1>2. QED
  BY <1>1 DEF CacheInv, Kept, Known

\* The steps of the callers of ReadLRU
LEMMA UserTypes ==
  ASSUME TypeInv, NEW u \in Users, Call(u) \/ ReadLRU(u) \/ Release(u)
  PROVE  TypeInv'
<1> USE DEF TypeInv
<1>0. /\ lru \in [Buffers -> LRU] /\ pc[u] \in UserPcs
      /\ held[u] \in Buffers \cup {NoBuffer}
      /\ pc[u] # "idle" => want[u] \in Blocks
      /\ pc[u] = "ahead" => Following[want[u]] \in Blocks
      /\ pc[u] \notin {"idle", "ahead", "search"} => Known(held[u])
  BY DEF CacheInv, UsersInv
<1> DEFINE b == held[u]
<1>1. CASE Call(u)
  <2>1. lru' \in [Buffers -> LRU] /\ Kept
    BY <1>0, <1>1 DEF Call, cacheVars, Kept
  <2>2. CacheInv' /\ IoInv' /\ CallbackInv' /\ DiskInv' /\ FlushInv' /\ HistoryInv'
    BY <1>1, <2>1, Frame DEF Call, cacheVars, ioVars
  <2>3. UsersInv'
    <3>1. PICK k \in Blocks, o \in Calls :
            /\ want' = [want EXCEPT ![u] = k]
            /\ op' = [op EXCEPT ![u] = o]
            /\ pc' = [pc EXCEPT ![u] = IF o = "read" /\ Following[k] # NoBlock
                                       THEN "ahead" ELSE "search"]
      BY <1>1 DEF Call, Goto
    <3>2. Following[k] # NoBlock => Following[k] \in Blocks
      BY FollowingAssumption
    <3>3. /\ pc' \in [Users -> UserPcs] /\ op' \in [Users -> Ops]
          /\ want' \in [Users -> Blocks \cup {NoBlock}] /\ held' = held
      BY <1>1, <3>1, CallsAssumption DEF Call, UsersInv, UserPcs
    <3>4. ops' \in 0..MaxOps /\ failed' \subseteq Users
      BY <1>1, NumberAssumption DEF Call, UsersInv
    <3>5. ASSUME NEW v \in Users
          PROVE  /\ pc'[v] # "idle" => want'[v] \in Blocks
                 /\ pc'[v] = "ahead" => Following[want'[v]] \in Blocks
                 /\ pc'[v] \notin {"idle", "ahead", "search"} =>
                      held'[v] \in Buffers /\ lru'[held'[v]].block \in Blocks
      <4>1. CASE v = u
        BY <3>1, <3>2, <4>1 DEF UsersInv
      <4>2. CASE v # u
        BY <2>1, <3>1, <3>3, <4>2 DEF UsersInv, Kept, Known
      <4>3. QED
        BY <4>1, <4>2
    <3>6. QED
      BY <3>3, <3>4, <3>5 DEF UsersInv, Known
  <2>4. QED
    BY <2>2, <2>3
<1>2. CASE PerformBlockReadAhead(u)
  <2> DEFINE k == Following[want[u]]
  <2>0. k \in Blocks
    BY <1>0, <1>2 DEF PerformBlockReadAhead
  <2>1. CASE UNCHANGED <<lru, ListHead, io>>
    <3>1. lru' \in [Buffers -> LRU] /\ Kept
      BY <1>0, <2>1 DEF Kept
    <3>2. CacheInv' /\ IoInv' /\ CallbackInv' /\ DiskInv' /\ FlushInv' /\ HistoryInv'
      BY <1>2, <2>1, <3>1, Frame DEF PerformBlockReadAhead
    <3>3. UsersInv'
      <4>1. /\ pc' = [pc EXCEPT ![u] = "search"] /\ held' = [held EXCEPT ![u] = held[u]]
            /\ UNCHANGED <<op, want, ops>> /\ failed' \subseteq Users
        BY <1>2 DEF PerformBlockReadAhead, Goto, UsersInv
      <4>2. want[u] \in Blocks
        BY <1>0, <1>2 DEF PerformBlockReadAhead
      <4>3. QED
        BY <1>0, <3>1, <4>1, <4>2, UserStep DEF UserPcs
    <3>4. QED
      BY <3>2, <3>3
  <2>2. CASE \E a \in GetAvailableLRU :
               Assign(a, k, {"LOADING"}, 0) /\ Submit(a, 1, "ahead")
    <3>1. PICK a \in GetAvailableLRU :
               Assign(a, k, {"LOADING"}, 0) /\ Submit(a, 1, "ahead")
      BY <2>2
    <3>2. CacheInv' /\ Kept /\ Known(a)' /\ lru'[a].block = k
      <4>1. {"LOADING"} \in SUBSET Flags /\ 0 \in Int /\ LRUDirtyBuffers' = LRUDirtyBuffers
        BY <1>2 DEF Flags, PerformBlockReadAhead
      <4>2. QED
        BY <2>0, <3>1, <4>1, AssignType
    <3>3. lru' \in [Buffers -> LRU]
      BY <3>2 DEF CacheInv
    <3>4. CallbackInv' /\ DiskInv' /\ FlushInv' /\ HistoryInv'
      BY <1>2, <3>2, <3>3, Frame DEF PerformBlockReadAhead
    <3>5. IoInv'
      BY <2>0, <3>1, <3>2, SubmitType, NumberAssumption DEF Commands, Known, Members
    <3>6. UsersInv'
      <4>1. /\ pc' = [pc EXCEPT ![u] = "search"] /\ held' = [held EXCEPT ![u] = held[u]]
            /\ UNCHANGED <<op, want, ops>> /\ failed' \subseteq Users
        BY <1>2 DEF PerformBlockReadAhead, Goto, UsersInv
      <4>2. want[u] \in Blocks
        BY <1>0, <1>2 DEF PerformBlockReadAhead
      <4>3. QED
        BY <1>0, <3>2, <4>1, <4>2, UserStep DEF UserPcs
    <3>7. QED
      BY <3>2, <3>4, <3>5, <3>6
  <2>3. QED
    BY <1>2, <2>1, <2>2 DEF PerformBlockReadAhead
<1>3. CASE ReadLRUHit(u)
  <2>1. PICK a \in SearchHash(want[u]) :
          /\ lru' = [lru EXCEPT ![a] = Taken(lru[a])]
          /\ held' = [held EXCEPT ![u] = a]
    BY <1>3 DEF ReadLRUHit
  <2>2. a \in Buffers /\ lru[a] \in LRU /\ lru[a].block \in Blocks /\ want[u] \in Blocks
    BY <1>0, <1>3, <2>1 DEF ReadLRUHit, SearchHash
  <2>3. lru' \in [Buffers -> LRU] /\ Kept /\ lru'[a].block = lru[a].block
    <3> DEFINE r == Taken(lru[a])
    <3>1. r \in LRU /\ r.block = lru[a].block
      BY <2>2, FieldTypes
    <3> HIDE DEF r
    <3>2. QED
      BY <1>0, <2>1, <2>2, <3>1, SameBlock DEF r
  <2>4. CacheInv' /\ IoInv' /\ CallbackInv' /\ DiskInv' /\ FlushInv' /\ HistoryInv'
    BY <1>3, <2>3, Frame DEF ReadLRUHit, ioVars
  <2>5. UsersInv'
    <3>1. /\ pc' = [pc EXCEPT ![u] = "hold"] /\ held' = [held EXCEPT ![u] = a]
          /\ UNCHANGED <<op, want, ops>> /\ failed' \subseteq Users
      BY <1>3, <2>1 DEF ReadLRUHit, Goto, UsersInv
    <3>2. QED
      BY <2>2, <2>3, <3>1, UserStep DEF UserPcs
  <2>6. QED
    BY <2>3, <2>4, <2>5
<1>4. CASE ReadLRUWait(u)
  <2>1. PICK a \in SearchHash(want[u]) :
          /\ lru' = [lru EXCEPT ![a] = [lru[a] EXCEPT !.Waiters = @ + 1]]
          /\ held' = [held EXCEPT ![u] = a]
    BY <1>4 DEF ReadLRUWait
  <2>2. a \in Buffers /\ lru[a] \in LRU /\ lru[a].block \in Blocks /\ want[u] \in Blocks
    BY <1>0, <1>4, <2>1 DEF ReadLRUWait, SearchHash
  <2>3. lru' \in [Buffers -> LRU] /\ Kept /\ lru'[a].block = lru[a].block
    <3> DEFINE r == [lru[a] EXCEPT !.Waiters = @ + 1]
    <3>1. r \in LRU /\ r.block = lru[a].block
      BY <2>2, FieldTypes
    <3> HIDE DEF r
    <3>2. QED
      BY <1>0, <2>1, <2>2, <3>1, SameBlock DEF r
  <2>4. CacheInv' /\ IoInv' /\ CallbackInv' /\ DiskInv' /\ FlushInv' /\ HistoryInv'
    BY <1>4, <2>3, Frame DEF ReadLRUWait, ioVars
  <2>5. UsersInv'
    <3>1. /\ pc' = [pc EXCEPT ![u] = "wait"] /\ held' = [held EXCEPT ![u] = a]
          /\ UNCHANGED <<op, want, ops>> /\ failed' \subseteq Users
      BY <1>4, <2>1 DEF ReadLRUWait, Goto, UsersInv
    <3>2. QED
      BY <2>2, <2>3, <3>1, UserStep DEF UserPcs
  <2>6. QED
    BY <2>3, <2>4, <2>5
<1>5. CASE WaitOnBuffer(u)
  <2>1. /\ lru' = [lru EXCEPT ![b] = [lru[b] EXCEPT !.Semaphore = @ - 1]]
        /\ pc' = [pc EXCEPT ![u] = IF Has(b, "DATAVALID") /\ lru[b].block = want[u]
                                   THEN "search" ELSE "idle"] /\ held' = [held EXCEPT ![u] = NoBuffer]
        /\ UNCHANGED <<op, want, ops>> /\ failed' \subseteq Users
    BY <1>0, <1>5 DEF WaitOnBuffer, Goto, UsersInv
  <2>2. b \in Buffers /\ lru[b] \in LRU /\ lru[b].block \in Blocks /\ want[u] \in Blocks
    BY <1>0, <1>5 DEF WaitOnBuffer, Known
  <2>3. lru' \in [Buffers -> LRU] /\ Kept /\ lru'[b].block = lru[b].block
    <3> DEFINE r == [lru[b] EXCEPT !.Semaphore = @ - 1]
    <3>1. r \in LRU /\ r.block = lru[b].block
      BY <1>5, <2>2, FieldTypes DEF WaitOnBuffer
    <3> HIDE DEF r
    <3>2. QED
      BY <1>0, <2>1, <2>2, <3>1, SameBlock DEF r
  <2>4. CacheInv' /\ IoInv' /\ CallbackInv' /\ DiskInv' /\ FlushInv' /\ HistoryInv'
    BY <1>5, <2>3, Frame DEF WaitOnBuffer, ioVars
  <2>5. UsersInv'
    BY <2>1, <2>2, <2>3, UserStep DEF UserPcs
  <2>6. QED
    BY <2>4, <2>5
<1>6. CASE ReadLRUFill(u)
  <2>1. PICK a \in GetAvailableLRU :
          /\ Assign(a, want[u], {"LOADING"}, 0) /\ Submit(a, 1, "read")
          /\ held' = [held EXCEPT ![u] = a]
    BY <1>6 DEF ReadLRUFill
  <2>2. CacheInv' /\ Kept /\ Known(a)' /\ lru' \in [Buffers -> LRU] /\ want[u] \in Blocks
    <3>1. {"LOADING"} \in SUBSET Flags /\ 0 \in Int /\ UNCHANGED LRUDirtyBuffers
          /\ want[u] \in Blocks
      BY <1>0, <1>6 DEF Flags, ReadLRUFill
    <3>2. QED
      BY <2>1, <3>1, AssignType DEF CacheInv
  <2>3. UsersInv'
    <3>1. /\ pc' = [pc EXCEPT ![u] = "fill"]
          /\ UNCHANGED <<op, want, ops>> /\ failed' \subseteq Users
      BY <1>6 DEF ReadLRUFill, Goto, UsersInv
    <3>2. QED
      BY <2>1, <2>2, <3>1, UserStep DEF UserPcs, Known
  <2>4. FlushInv'
    BY <1>6, <2>2 DEF ReadLRUFill, FlushInv, Kept, Known, KickIf, Kick
  <2>5. IoInv'
    BY <2>1, <2>2, SubmitType, NumberAssumption DEF Commands, Known, Members
  <2>6. CallbackInv' /\ DiskInv' /\ HistoryInv'
    BY <1>6, <2>2, Frame DEF ReadLRUFill
  <2>7. QED
    BY <2>2, <2>3, <2>4, <2>5, <2>6
<1>7. CASE ReadLRUNoFill(u)
  <2>1. PICK a \in GetAvailableLRU :
          /\ Assign(a, want[u], {"DATAVALID"}, 1) /\ unfilled' = unfilled \cup {a}
          /\ held' = [held EXCEPT ![u] = a]
    BY <1>7 DEF ReadLRUNoFill
  <2>2. CacheInv' /\ Kept /\ Known(a)' /\ lru' \in [Buffers -> LRU] /\ want[u] \in Blocks
    <3>1. {"DATAVALID"} \in SUBSET Flags /\ 1 \in Int /\ UNCHANGED LRUDirtyBuffers
          /\ want[u] \in Blocks
      BY <1>0, <1>7 DEF Flags, ReadLRUNoFill
    <3>2. QED
      BY <2>1, <3>1, AssignType DEF CacheInv
  <2>3. UsersInv'
    <3>1. /\ pc' = [pc EXCEPT ![u] = "hold"]
          /\ UNCHANGED <<op, want, ops>> /\ failed' \subseteq Users
      BY <1>7 DEF ReadLRUNoFill, Goto, UsersInv
    <3>2. QED
      BY <2>1, <2>2, <3>1, UserStep DEF UserPcs, Known
  <2>4. FlushInv'
    BY <1>7, <2>2 DEF ReadLRUNoFill, FlushInv, Kept, Known, KickIf, Kick
  <2>5. IoInv' /\ CallbackInv' /\ DiskInv'
    BY <1>7, <2>2, Frame DEF ReadLRUNoFill, ioVars
  <2>6. HistoryInv'
    BY <1>7, <2>1, <2>2 DEF ReadLRUNoFill, HistoryInv, Known
  <2>7. QED
    BY <2>2, <2>3, <2>4, <2>5, <2>6
<1>8. CASE ReadLRUNone(u)
  <2>1. lru' \in [Buffers -> LRU] /\ Kept
    BY <1>0, <1>8 DEF ReadLRUNone, cacheVars, Kept
  <2>2. CacheInv' /\ IoInv' /\ CallbackInv' /\ DiskInv' /\ UsersInv' /\ HistoryInv'
    BY <1>8, <2>1, Frame DEF ReadLRUNone, cacheVars, ioVars
  <2>3. FlushInv'
    BY <1>8, <2>1 DEF ReadLRUNone, FlushInv, Kept, Known, Kick
  <2>4. QED
    BY <2>2, <2>3
<1>9. CASE FillBlock(u)
  <2>0. b \in Buffers /\ lru[b] \in LRU /\ lru[b].block \in Blocks /\ want[u] \in Blocks
    BY <1>0, <1>9 DEF FillBlock, Known
  <2>1. /\ pc' = [pc EXCEPT ![u] = "hold"] /\ held' = [held EXCEPT ![u] = b]
        /\ UNCHANGED <<op, want, ops>> /\ failed' \subseteq Users
    BY <1>9 DEF FillBlock, Goto, UsersInv
  <2>2. PICK r \in LRU : r.block = lru[b].block /\ lru' = [lru EXCEPT ![b] = r]
    <3>1. Loaded(lru[b]) \in LRU /\ Loaded(lru[b]).block = lru[b].block
      BY <2>0, OperationTypes
    <3> DEFINE q == Loaded(lru[b])
    <3>2. lru' = [lru EXCEPT ![b] = Taken(q)]
      BY <1>9 DEF FillBlock
    <3> HIDE DEF q
    <3>3. Taken(q) \in LRU /\ Taken(q).block = q.block
      BY <3>1, FieldTypes DEF q
    <3>4. q.block = lru[b].block
      BY <3>1 DEF q
    <3>5. QED
      BY <3>2, <3>3, <3>4
  <2>3. lru' \in [Buffers -> LRU] /\ Kept /\ lru'[b].block = lru[b].block
    BY <1>0, <2>0, <2>2, SameBlock
  <2>4. CacheInv' /\ CallbackInv' /\ DiskInv' /\ FlushInv' /\ HistoryInv'
    BY <1>9, <2>3, Frame DEF FillBlock
  <2>5. UsersInv'
    BY <2>0, <2>1, <2>3, UserStep DEF UserPcs
  <2>6. IoInv'
    <3>1. io' = [io EXCEPT ![b][1].stage = "idle"] /\ 1 \in Members /\ "idle" \in Stages
      BY <1>9, NumberAssumption DEF FillBlock, Stages, Members
    <3>2. QED
      BY <2>0, <2>3, <3>1, StageType
  <2>7. QED
    BY <2>4, <2>5, <2>6
<1>10. CASE FillBlockError(u)
  <2>0. b \in Buffers /\ lru[b].block \in Blocks /\ want[u] \in Blocks
    BY <1>0, <1>10 DEF FillBlockError, Known
  <2>1. /\ pc' = [pc EXCEPT ![u] = "refill"] /\ held' = [held EXCEPT ![u] = b]
        /\ UNCHANGED <<op, want, ops>> /\ failed' \subseteq Users
    BY <1>10 DEF FillBlockError, Goto, UsersInv
  <2>2. lru' \in [Buffers -> LRU] /\ Kept /\ lru'[b].block = lru[b].block
    BY <1>0, <1>10 DEF FillBlockError, cacheVars, Kept
  <2>3. CacheInv' /\ CallbackInv' /\ DiskInv' /\ FlushInv' /\ HistoryInv'
    BY <1>10, <2>2, Frame DEF FillBlockError, cacheVars
  <2>4. IoInv'
    <3>1. io' = [io EXCEPT ![b][1].stage = "idle"] /\ 1 \in Members /\ "idle" \in Stages
      BY <1>10, NumberAssumption DEF FillBlockError, Stages, Members
    <3>2. QED
      BY <2>0, <2>2, <3>1, StageType
  <2>5. UsersInv'
    BY <2>0, <2>1, <2>2, UserStep DEF UserPcs
  <2>6. QED
    BY <2>3, <2>4, <2>5
<1>11. CASE Refill(u)
  <2>0. b \in Buffers /\ lru[b] \in LRU /\ lru[b].block \in Blocks /\ want[u] \in Blocks
    BY <1>0, <1>11 DEF Refill, Known
  <2>1. /\ pc' = [pc EXCEPT ![u] = "hold"] /\ held' = [held EXCEPT ![u] = b]
        /\ UNCHANGED <<op, want, ops>> /\ failed' \subseteq Users
    BY <1>11 DEF Refill, Goto, UsersInv
  <2>2. PICK r \in LRU : r.block = lru[b].block /\ lru' = [lru EXCEPT ![b] = r]
    <3>1. PICK m \in Members :
            lru' = [lru EXCEPT ![b] = Taken(Filled(lru[b], disk[m][lru[b].block]))]
      BY <1>11 DEF Refill
    <3> DEFINE q == Filled(lru[b], disk[m][lru[b].block])
    <3>2. lru' = [lru EXCEPT ![b] = Taken(q)]
      BY <3>1
    <3>3. disk[m][lru[b].block] \in Data
      BY <2>0 DEF DiskInv
    <3>4. q \in LRU /\ q.block = lru[b].block
      BY <2>0, <3>3, ArgumentTypes
    <3> HIDE DEF q
    <3>5. Taken(q) \in LRU /\ Taken(q).block = q.block
      BY <3>4, FieldTypes
    <3>6. QED
      BY <3>2, <3>4, <3>5
  <2>3. lru' \in [Buffers -> LRU] /\ Kept /\ lru'[b].block = lru[b].block
    BY <1>0, <2>0, <2>2, SameBlock
  <2>4. CacheInv' /\ IoInv' /\ CallbackInv' /\ DiskInv' /\ FlushInv' /\ HistoryInv'
    BY <1>11, <2>3, Frame DEF Refill, ioVars
  <2>5. UsersInv'
    BY <2>0, <2>1, <2>3, UserStep DEF UserPcs
  <2>6. QED
    BY <2>4, <2>5
<1>12. CASE RefillError(u)
  <2>0. b \in Buffers /\ lru[b] \in LRU /\ lru[b].block \in Blocks /\ want[u] \in Blocks
    BY <1>0, <1>12 DEF RefillError, Known
  <2>1. /\ pc' = [pc EXCEPT ![u] = "search"] /\ held' = [held EXCEPT ![u] = NoBuffer]
        /\ UNCHANGED <<op, want, ops>> /\ failed' \subseteq Users
    BY <1>12 DEF RefillError, Goto, UsersInv
  <2>2. PICK r \in LRU : r.block = lru[b].block /\ lru' = [lru EXCEPT ![b] = r]
    BY <1>12, <2>0, OperationTypes DEF RefillError
  <2>3. lru' \in [Buffers -> LRU] /\ Kept /\ lru'[b].block = lru[b].block
    BY <1>0, <2>0, <2>2, SameBlock
  <2>4. IoInv' /\ CallbackInv' /\ DiskInv' /\ HistoryInv'
    BY <1>12, <2>3, Frame DEF RefillError, ioVars
  <2>5. UsersInv'
    BY <2>0, <2>1, <2>3, UserStep DEF UserPcs
  <2>6. CacheInv'
    <3>1. ListHead' = Unlist(ListHead, b) /\ UNCHANGED LRUDirtyBuffers
      BY <1>12 DEF RefillError
    <3>2. QED
      BY <2>3, <3>1, UnlistKept
  <2>7. FlushInv'
    BY <1>12, <2>3 DEF RefillError, FlushInv, Kept, Known, Kick
  <2>8. QED
    BY <2>4, <2>5, <2>6, <2>7
<1>13. CASE CopyIn(u)
  <2>0. b \in Buffers /\ lru[b] \in LRU /\ lru[b].block \in Blocks /\ want[u] \in Blocks
    BY <1>0, <1>13 DEF CopyIn, Known
  <2>1. /\ pc' = [pc EXCEPT ![u] = "changed"] /\ held' = [held EXCEPT ![u] = b]
        /\ UNCHANGED <<op, want, ops>> /\ failed' \subseteq Users
    BY <1>13 DEF CopyIn, Goto, UsersInv
  <2>2. PICK r \in LRU : r.block = lru[b].block /\ lru' = [lru EXCEPT ![b] = r]
    <3> DEFINE d == [block |-> want[u], version |-> latest'[want[u]]]
    <3>1. latest'[want[u]] \in Nat
      BY <1>13, <2>0 DEF CopyIn, HistoryInv
    <3>2. d \in Data
      BY <2>0, <3>1 DEF Data
    <3>3. lru' = [lru EXCEPT ![b] = [lru[b] EXCEPT !.buffer = d]]
      BY <1>13 DEF CopyIn
    <3> HIDE DEF d
    <3>4. QED
      BY <2>0, <3>2, <3>3, FieldTypes
  <2>3. lru' \in [Buffers -> LRU] /\ Kept /\ lru'[b].block = lru[b].block
    BY <1>0, <2>0, <2>2, SameBlock
  <2>4. CacheInv' /\ IoInv' /\ CallbackInv' /\ DiskInv' /\ FlushInv'
    BY <1>13, <2>3, Frame DEF CopyIn, ioVars
  <2>5. UsersInv'
    BY <2>0, <2>1, <2>3, UserStep DEF UserPcs
  <2>6. HistoryInv'
    BY <1>13, <2>0 DEF CopyIn, HistoryInv
  <2>7. QED
    BY <2>4, <2>5, <2>6
<1>14. CASE ReleaseLRU(u)
  <2>0. b \in Buffers /\ lru[b] \in LRU /\ lru[b].block \in Blocks /\ want[u] \in Blocks
    BY <1>0, <1>14 DEF ReleaseLRU, Known
  <2>1. /\ pc' = [pc EXCEPT ![u] = "idle"] /\ held' = [held EXCEPT ![u] = NoBuffer]
        /\ UNCHANGED <<op, want, ops>> /\ failed' \subseteq Users
    BY <1>14 DEF ReleaseLRU, Goto, UsersInv
  <2>2. PICK r \in LRU : r.block = lru[b].block /\ lru' = [lru EXCEPT ![b] = r]
    <3>1. lru' = [lru EXCEPT ![b] = [lru[b] EXCEPT !.lock_count = @ - 1]]
      BY <1>14 DEF ReleaseLRU
    <3>2. QED
      BY <2>0, <3>1, FieldTypes
  <2>3. lru' \in [Buffers -> LRU] /\ Kept /\ lru'[b].block = lru[b].block
    BY <1>0, <2>0, <2>2, SameBlock
  <2>4. CacheInv' /\ IoInv' /\ CallbackInv' /\ DiskInv' /\ FlushInv' /\ HistoryInv'
    BY <1>14, <2>3, Frame DEF ReleaseLRU, ioVars
  <2>5. UsersInv'
    BY <2>0, <2>1, <2>3, UserStep DEF UserPcs
  <2>6. QED
    BY <2>4, <2>5
<1>15. CASE ReleaseDirtyLRU(u)
  <2>0. b \in Buffers /\ lru[b] \in LRU /\ lru[b].block \in Blocks /\ want[u] \in Blocks
    BY <1>0, <1>15 DEF ReleaseDirtyLRU, Known
  <2>1. /\ pc' = [pc EXCEPT ![u] = "idle"] /\ held' = [held EXCEPT ![u] = NoBuffer]
        /\ UNCHANGED <<op, want, ops>> /\ failed' \subseteq Users
    BY <1>15 DEF ReleaseDirtyLRU, Goto, UsersInv
  <2>2. PICK r \in LRU : r.block = lru[b].block /\ lru' = [lru EXCEPT ![b] = r]
    <3> DEFINE q == Modified(lru[b])
    <3>1. q \in LRU /\ q.block = lru[b].block
      BY <2>0, ArgumentTypes
    <3>2. lru' = [lru EXCEPT ![b] = IF Has(b, "DIRTY") THEN q ELSE InsertDirty(q)]
      BY <1>15 DEF ReleaseDirtyLRU
    <3> HIDE DEF q
    <3>3. InsertDirty(q) \in LRU /\ InsertDirty(q).block = q.block
      BY <3>1, OperationTypes
    <3>4. QED
      BY <3>1, <3>2, <3>3
  <2>3. lru' \in [Buffers -> LRU] /\ Kept /\ lru'[b].block = lru[b].block
    BY <1>0, <2>0, <2>2, SameBlock
  <2>4. IoInv' /\ CallbackInv' /\ DiskInv' /\ FlushInv' /\ HistoryInv'
    BY <1>15, <2>3, Frame DEF ReleaseDirtyLRU, ioVars
  <2>5. UsersInv'
    BY <2>0, <2>1, <2>3, UserStep DEF UserPcs
  <2>6. CacheInv'
    <3>1. UNCHANGED ListHead /\ LRUDirtyBuffers' \in Nat
      BY <1>15 DEF ReleaseDirtyLRU, CacheInv
    <3>2. QED
      BY <2>3, <3>1 DEF CacheInv, Kept, Known
  <2>7. QED
    BY <2>4, <2>5, <2>6
<1>20. QED
  BY <1>1, <1>2, <1>3, <1>4, <1>5, <1>6, <1>7, <1>8, <1>9, <1>10,
     <1>11, <1>12, <1>13, <1>14, <1>15 DEF ReadLRU, Release

\* The steps of the disks and their interrupts
LEMMA DiskTypes ==
  ASSUME TypeInv, NEW b \in Buffers, NEW c \in Members, Disk(b, c) \/ Interrupt(b, c)
  PROVE  TypeInv'
<1> USE DEF TypeInv
<1>0. /\ lru \in [Buffers -> LRU] /\ lru[b] \in LRU /\ lru[b].buffer \in Data
      /\ io[b][c].stage # "idle" => lru[b].block \in Blocks /\ io[b][c].sector \in Blocks
  <2>1. lru \in [Buffers -> LRU] /\ lru[b] \in LRU
    BY DEF CacheInv
  <2>2. lru[b].buffer \in Data
    BY <2>1 DEF LRU
  <2>3. QED
    BY <2>1, <2>2 DEF IoInv, Known
<1>1. CASE Transfer(b, c)
  <2>1. "moved" \in Stages /\ io' = [io EXCEPT ![b][c].stage = "moved"]
        /\ io[b][c].stage # "idle"
    BY <1>1 DEF Transfer, SetStage, Stages
  <2>2. CASE io[b][c].command = "write"
    <3>1. lru' \in [Buffers -> LRU] /\ Kept
      BY <1>0, <1>1, <2>2 DEF Transfer, Kept
    <3>2. CacheInv' /\ CallbackInv' /\ UsersInv' /\ FlushInv' /\ HistoryInv'
      BY <1>1, <2>2, <3>1, Frame DEF Transfer
    <3>3. IoInv'
      BY <2>1, <3>1, StageType
    <3>4. DiskInv'
      <4> DEFINE p == [disk[c] EXCEPT ![io[b][c].sector] = lru[b].buffer]
      <4>1. p \in [Blocks -> Data]
        BY <1>0, <2>1 DEF DiskInv
      <4>2. disk' = [disk EXCEPT ![c] = p]
        BY <1>1, <2>2 DEF Transfer
      <4> HIDE DEF p
      <4>3. QED
        BY <4>1, <4>2 DEF DiskInv
    <3>5. QED
      BY <3>2, <3>3, <3>4
  <2>3. CASE io[b][c].command # "write"
    <3>1. PICK m \in Members : lru' = [lru EXCEPT ![b].buffer = disk[m][io[b][c].sector]]
      BY <1>1, <2>3 DEF Transfer
    <3> DEFINE d == disk[m][io[b][c].sector]
    <3>2. d \in Data
      BY <1>0, <2>1 DEF DiskInv
    <3>3. lru' = [lru EXCEPT ![b] = [lru[b] EXCEPT !.buffer = d]]
      BY <3>1
    <3> HIDE DEF d
    <3>4. [lru[b] EXCEPT !.buffer = d] \in LRU
          /\ [lru[b] EXCEPT !.buffer = d].block = lru[b].block
      BY <1>0, <3>2, FieldTypes
    <3>5. lru' \in [Buffers -> LRU] /\ Kept
      BY <1>0, <3>3, <3>4, SameBlock
    <3>6. CacheInv' /\ CallbackInv' /\ DiskInv' /\ UsersInv' /\ FlushInv' /\ HistoryInv'
      BY <1>1, <2>3, <3>5, Frame DEF Transfer
    <3>7. IoInv'
      BY <2>1, <3>5, StageType
    <3>8. QED
      BY <3>6, <3>7
  <2>4. QED
    BY <2>2, <2>3
<1>2. CASE TransferError(b, c)
  <2>1. lru' \in [Buffers -> LRU] /\ Kept
    BY <1>0, <1>2 DEF TransferError, cacheVars, Kept
  <2>2. CacheInv' /\ CallbackInv' /\ DiskInv' /\ UsersInv' /\ FlushInv' /\ HistoryInv'
    BY <1>2, <2>1, Frame DEF TransferError, cacheVars
  <2>3. "failed" \in Stages /\ io' = [io EXCEPT ![b][c].stage = "failed"]
        /\ io[b][c].stage # "idle"
    BY <1>2 DEF TransferError, SetStage, Stages
  <2>4. IoInv'
    BY <2>1, <2>3, StageType
  <2>5. QED
    BY <2>2, <2>4
<1>3. CASE c = 1 /\ ReleaseAsynchReadAhead(b)
  <2>0. lru[b].block \in Blocks /\ "idle" \in Stages
        /\ io' = [io EXCEPT ![b][c].stage = "idle"]
    BY <1>0, <1>3 DEF ReleaseAsynchReadAhead, SetStage, Stages
  <2>1. lru' \in [Buffers -> LRU] /\ Kept
    <3>1. CASE lru' = [lru EXCEPT ![b] = Loaded(lru[b])]
      BY <1>0, <3>1, OperationTypes, SameBlock
    <3>2. CASE lru' = lru
      BY <1>0, <3>2 DEF Kept
    <3>3. QED
      BY <1>3, <3>1, <3>2 DEF ReleaseAsynchReadAhead
  <2>2. CacheInv' /\ DiskInv' /\ UsersInv' /\ FlushInv' /\ HistoryInv'
    BY <1>3, <2>1, Frame DEF ReleaseAsynchReadAhead
  <2>3. IoInv'
    BY <2>0, <2>1, StageType
  <2>4. CallbackInv'
    <3>1. UNCHANGED cb /\ (UNCHANGED io_callback \/
            io_callback' = Append(io_callback, [lru |-> b, command |-> "ahead"]))
      BY <1>3 DEF ReleaseAsynchReadAhead
    <3>2. QED
      BY <2>0, <2>1, <3>1, Posted
  <2>5. QED
    BY <2>2, <2>3, <2>4
<1>4. CASE ReleaseWriteAio(b, c)
  <2>0. lru[b].block \in Blocks /\ "idle" \in Stages
        /\ io' = [io EXCEPT ![b][c].stage = "idle"]
    BY <1>0, <1>4 DEF ReleaseWriteAio, SetStage, Stages
  <2>1. PICK r \in LRU : r.block = lru[b].block /\ lru' = [lru EXCEPT ![b] = r]
    <3> DEFINE err == lru[b].aio_ccode \/ io[b][c].stage = "failed"
    <3> DEFINE q == Counted(lru[b], err)
    <3>1. q \in LRU /\ q.block = lru[b].block
      BY <1>0, ArgumentTypes DEF LRU
    <3> HIDE DEF q
    <3>2. EndFlush(q) \in LRU /\ EndFlush(q).block = q.block
      BY <3>1, OperationTypes
    <3>3. \A p \in LRU : RemoveDirty(p) \in LRU /\ RemoveDirty(p).block = p.block
      BY OperationTypes
    <3>4. \E r \in {q, EndFlush(q), RemoveDirty(q), RemoveDirty(EndFlush(q))} :
            lru' = [lru EXCEPT ![b] = r]
      BY <1>4 DEF ReleaseWriteAio, q
    <3>5. QED
      BY <3>1, <3>2, <3>3, <3>4
  <2>2. lru' \in [Buffers -> LRU] /\ Kept
    BY <1>0, <2>1, SameBlock
  <2>3. DiskInv' /\ UsersInv' /\ FlushInv' /\ HistoryInv'
    BY <1>4, <2>2, Frame DEF ReleaseWriteAio
  <2>4. IoInv'
    BY <2>0, <2>2, StageType
  <2>5. CallbackInv'
    <3>1. UNCHANGED cb /\ (UNCHANGED io_callback \/
            io_callback' = Append(io_callback, [lru |-> b, command |-> "write"]))
      BY <1>4 DEF ReleaseWriteAio
    <3>2. QED
      BY <2>0, <2>2, <3>1, Posted
  <2>6. CacheInv'
    <3>1. UNCHANGED ListHead /\ LRUDirtyBuffers' \in {LRUDirtyBuffers, LessDirty(LRUDirtyBuffers)}
      BY <1>4 DEF ReleaseWriteAio
    <3>2. QED
      BY <2>2, <3>1, Counter
  <2>7. QED
    BY <2>3, <2>4, <2>5, <2>6
<1>5. QED
  BY <1>1, <1>2, <1>3, <1>4 DEF Disk, Interrupt

\* The steps of nwfs-callback
LEMMA CallbackTypes ==
  ASSUME TypeInv, Callback
  PROVE  TypeInv'
<1> USE DEF TypeInv
<1> DEFINE R == [lru : Buffers, command : {"ahead", "write"}]
<1>0. lru \in [Buffers -> LRU] /\ io_callback \in Seq(R)
  BY DEF CacheInv, CallbackInv
<1>1. ASSUME io_callback # <<>>
      PROVE  /\ Head(io_callback).lru \in Buffers
             /\ lru[Head(io_callback).lru] \in LRU
             /\ lru[Head(io_callback).lru].block \in Blocks
             /\ Tail(io_callback) \in Seq(R)
             /\ \A i \in DOMAIN Tail(io_callback) :
                  i + 1 \in DOMAIN io_callback /\ Tail(io_callback)[i] = io_callback[i + 1]
  <2>1. 1 \in DOMAIN io_callback /\ Head(io_callback) = io_callback[1]
    BY <1>0, <1>1
  <2>2. Known(Head(io_callback).lru)
    BY <2>1 DEF CallbackInv
  <2>3. /\ Tail(io_callback) \in Seq(R)
        /\ \A i \in DOMAIN Tail(io_callback) :
             i + 1 \in DOMAIN io_callback /\ Tail(io_callback)[i] = io_callback[i + 1]
    BY <1>0, <1>1
  <2>4. QED
    BY <1>0, <2>2, <2>3 DEF Known
<1>2. CASE RetryAsynchReadAhead
  <2> DEFINE b == Head(io_callback).lru
  <2>0. io_callback # <<>> /\ io_callback' = Tail(io_callback) /\ cb' = cb
        /\ UNCHANGED LRUDirtyBuffers
    BY <1>2 DEF RetryAsynchReadAhead
  <2>1. b \in Buffers /\ lru[b] \in LRU /\ lru[b].block \in Blocks
    BY <1>1, <2>0
  <2>2. \E r \in LRU : r.block = lru[b].block /\ lru' = [lru EXCEPT ![b] = r]
    <3>1. CASE \E m \in Members :
                 lru' = [lru EXCEPT ![b] = Filled(lru[b], disk[m][lru[b].block])]
      <4>1. PICK m \in Members :
              lru' = [lru EXCEPT ![b] = Filled(lru[b], disk[m][lru[b].block])]
        BY <3>1
      <4>2. disk[m][lru[b].block] \in Data
        BY <2>1 DEF DiskInv
      <4>3. QED
        BY <2>1, <4>1, <4>2, ArgumentTypes
    <3>2. CASE lru' = [lru EXCEPT ![b] = Freed(lru[b])]
      BY <2>1, <3>2, OperationTypes
    <3>3. QED
      BY <1>2, <3>1, <3>2 DEF RetryAsynchReadAhead
  <2>3. lru' \in [Buffers -> LRU] /\ Kept
    BY <1>0, <2>1, <2>2, SameBlock
  <2>4. IoInv' /\ DiskInv' /\ UsersInv' /\ FlushInv' /\ HistoryInv'
    BY <1>2, <2>3, Frame DEF RetryAsynchReadAhead
  <2>5. CallbackInv'
    BY <1>1, <2>0, <2>3 DEF CallbackInv, Kept, Known
  <2>6. CacheInv'
    <3>1. CASE UNCHANGED ListHead
      BY <2>0, <2>3, <3>1 DEF CacheInv, Kept, Known
    <3>2. CASE ListHead' = Unlist(ListHead, b)
      BY <2>0, <2>3, <3>2, UnlistKept
    <3>3. QED
      BY <1>2, <3>1, <3>2 DEF RetryAsynchReadAhead
  <2>7. QED
    BY <2>4, <2>5, <2>6
<1>3. CASE RetryWriteAio
  <2> DEFINE b == Head(io_callback).lru
  <2>0. io_callback # <<>> /\ io_callback' = Tail(io_callback) /\ lru' = lru
    BY <1>3 DEF RetryWriteAio, cacheVars
  <2>1. b \in Buffers /\ lru[b] \in LRU /\ lru[b].block \in Blocks /\ lru[b].buffer \in Data
    BY <1>1, <2>0 DEF LRU
  <2>2. lru' \in [Buffers -> LRU] /\ Kept
    BY <1>0, <2>0 DEF Kept
  <2>3. CacheInv' /\ IoInv' /\ UsersInv' /\ FlushInv' /\ HistoryInv'
    BY <1>3, <2>2, Frame DEF RetryWriteAio, cacheVars
  <2>4. CallbackInv'
    <3>1. cb' \in {[stage |-> "written", lru |-> b], [stage |-> "error", lru |-> b]}
      BY <1>3 DEF RetryWriteAio
    <3>2. cb' \in [stage : {"down", "written", "error"}, lru : Buffers \cup {NoBuffer}]
          /\ cb'.lru = b
      BY <2>1, <3>1
    <3>3. QED
      BY <1>1, <2>0, <2>1, <2>2, <3>2 DEF CallbackInv, Kept, Known
  <2>5. DiskInv'
    BY <1>3, <2>1 DEF RetryWriteAio, DiskInv
  <2>6. QED
    BY <2>3, <2>4, <2>5
<1>4. CASE RetryWriteAioDone
  <2> DEFINE b == cb.lru
  <2>1. b \in Buffers /\ lru[b] \in LRU /\ lru[b].block \in Blocks
    BY <1>0, <1>4 DEF RetryWriteAioDone, CallbackInv, Known
  <2>2. PICK r \in LRU : r.block = lru[b].block /\ lru' = [lru EXCEPT ![b] = r]
    <3> DEFINE q == EndFlush(lru[b])
    <3>1. q \in LRU /\ q.block = lru[b].block
      BY <2>1, OperationTypes
    <3>2. \E r \in {q, RemoveDirty(q)} : lru' = [lru EXCEPT ![b] = r]
      BY <1>4 DEF RetryWriteAioDone
    <3> HIDE DEF q
    <3>3. RemoveDirty(q) \in LRU /\ RemoveDirty(q).block = q.block
      BY <3>1, OperationTypes
    <3>4. QED
      BY <3>1, <3>2, <3>3
  <2>3. lru' \in [Buffers -> LRU] /\ Kept
    BY <1>0, <2>1, <2>2, SameBlock
  <2>4. IoInv' /\ DiskInv' /\ UsersInv' /\ FlushInv' /\ HistoryInv'
    BY <1>4, <2>3, Frame DEF RetryWriteAioDone, ioVars
  <2>5. CallbackInv'
    BY <1>4, <2>3 DEF RetryWriteAioDone, CallbackInv, Kept, Known, ioVars
  <2>6. CacheInv'
    <3>1. UNCHANGED ListHead /\ LRUDirtyBuffers' \in {LRUDirtyBuffers, LessDirty(LRUDirtyBuffers)}
      BY <1>4 DEF RetryWriteAioDone
    <3>2. QED
      BY <2>3, <3>1, Counter
  <2>7. QED
    BY <2>4, <2>5, <2>6
<1>5. QED
  BY <1>2, <1>3, <1>4 DEF Callback

\* The walk of FlushEligibleLRU
LEMMA WalkType ==
  ASSUME CacheInv, FlushInv, NEW a, NEW active, active \in BOOLEAN,
         WalkFrom(a, active), UNCHANGED <<lru_signal, lruHeld>>
  PROVE  lru' \in [Buffers -> LRU] /\ Kept /\ FlushInv'
<1> DEFINE rest == {i \in DOMAIN ListHead :
                      \E j \in 1..i : ListHead[j] = a /\ Eligible(ListHead[i])}
<1>0. lru \in [Buffers -> LRU] /\ ListHead \in Seq(Buffers) /\ 1 \in Members
  BY NumberAssumption DEF CacheInv, Members
<1>1. CASE rest = {}
  <2>1. /\ lru_state' = FALSE /\ lru_active' = FALSE /\ lru' = lru
        /\ flush' = [pc |-> "reset", list |-> NoBuffer, lru |-> NoBuffer, i |-> 1]
    BY <1>1 DEF WalkFrom
  <2>2. QED
    BY <1>0, <2>1 DEF FlushInv, FlushPcs, Kept
<1>2. CASE rest # {}
  <2> HIDE DEF rest
  <2>1. PICK i \in DOMAIN ListHead :
          /\ lru' = [lru EXCEPT ![ListHead[i]] = BeginFlush(lru[ListHead[i]])]
          /\ flush' = [pc |-> "insert", lru |-> ListHead[i], i |-> 1,
                       list |-> IF i = Len(ListHead) THEN NoBuffer
                                ELSE ListHead[i + 1]]
          /\ lru_active' = active /\ UNCHANGED lru_state
    BY <1>2 DEF WalkFrom, rest
  <2> DEFINE b == ListHead[i]
  <2>2. b \in Buffers /\ lru[b].block \in Blocks
    BY DEF CacheInv, Known
  <2>3. BeginFlush(lru[b]) \in LRU /\ BeginFlush(lru[b]).block = lru[b].block
    BY <1>0, <2>2, OperationTypes
  <2>4. lru' \in [Buffers -> LRU] /\ Kept /\ lru'[b].block \in Blocks
    BY <1>0, <2>1, <2>2, <2>3, SameBlock
  <2>5. i # Len(ListHead) => ListHead[i + 1] \in Buffers
    BY <1>0
  <2>6. FlushInv'
    <3>1. /\ flush' \in [pc : FlushPcs, list : Buffers \cup {NoBuffer},
                         lru : Buffers \cup {NoBuffer}, i : Members]
          /\ flush'.lru = b
      BY <1>0, <2>1, <2>2, <2>5 DEF FlushPcs
    <3>2. lru_signal' \in BOOLEAN /\ lruHeld' \in BOOLEAN /\ lru_state' \in BOOLEAN
          /\ lru_active' \in BOOLEAN
      BY <2>1 DEF FlushInv
    <3>3. QED
      BY <2>2, <2>4, <3>1, <3>2 DEF FlushInv, Known
  <2>7. QED
    BY <2>4, <2>6
<1>3. QED
  BY <1>1, <1>2

\* The steps of nwfs-flush, and of the clock
LEMMA FlushTypes ==
  ASSUME TypeInv, FlushDaemon \/ LRUTimer \/ Age
  PROVE  TypeInv'
<1> USE DEF TypeInv
<1>0. lru \in [Buffers -> LRU] /\ lru_active \in BOOLEAN
      /\ flush \in [pc : FlushPcs, list : Buffers \cup {NoBuffer},
                    lru : Buffers \cup {NoBuffer}, i : Members]
  BY DEF CacheInv, FlushInv
<1>1. CASE LRUTimer \/ FlushWake \/ FlushReset
  <2>1. lru' = lru /\ UNCHANGED <<cacheVars, ioVars, userVars, cb, historyVars>>
    BY <1>1 DEF LRUTimer, FlushWake, FlushReset, cacheVars
  <2>2. lru' \in [Buffers -> LRU] /\ Kept
    BY <1>0, <2>1 DEF Kept
  <2>3. CacheInv' /\ IoInv' /\ CallbackInv' /\ DiskInv' /\ UsersInv' /\ HistoryInv'
    BY <2>1, <2>2, Frame DEF cacheVars, ioVars
  <2>4. FlushInv'
    <3>1. \E l \in FlushPcs \ {"insert", "relock"} :
            flush' = flush \/ flush' = [flush EXCEPT !.pc = l]
      BY <1>1 DEF LRUTimer, FlushWake, FlushReset, FlushPcs
    <3>2. UNCHANGED <<lru_active, lru_state, lruHeld>> /\ lru_signal' \in BOOLEAN
      BY <1>1 DEF LRUTimer, FlushWake, FlushReset, FlushInv
    <3>3. QED
      BY <1>0, <2>2, <3>1, <3>2 DEF FlushInv, Kept, Known
  <2>5. QED
    BY <2>3, <2>4
<1>2. CASE Age
  <2>1. lru' \in [Buffers -> LRU] /\ Kept
    <3>1. ASSUME NEW a \in Buffers
          PROVE  lru'[a] \in LRU /\ lru'[a].block = lru[a].block
      <4>1. lru[a] \in LRU
        BY <1>0
      <4>2. lru'[a] = [lru[a] EXCEPT !.aged = TRUE]
        BY <1>2 DEF Age
      <4>3. QED
        BY <4>1, <4>2, FieldTypes
    <3>2. lru' = [a \in Buffers |-> [lru[a] EXCEPT !.aged = TRUE]]
      BY <1>2 DEF Age
    <3>3. QED
      BY <3>1, <3>2 DEF Kept
  <2>2. CacheInv' /\ IoInv' /\ CallbackInv' /\ DiskInv' /\ UsersInv' /\ FlushInv' /\ HistoryInv'
    BY <1>2, <2>1, Frame DEF Age, ioVars
  <2>3. QED
    BY <2>2
<1>3. CASE FlushStart
  <2>1. lru' \in [Buffers -> LRU] /\ Kept /\ FlushInv'
    <3>1. PICK a : WalkFrom(a, TRUE)
      BY <1>3 DEF FlushStart
    <3>2. QED
      BY <1>3, <3>1, WalkType DEF FlushStart
  <2>2. CacheInv' /\ IoInv' /\ CallbackInv' /\ DiskInv' /\ UsersInv' /\ HistoryInv'
    BY <1>3, <2>1, Frame DEF FlushStart, ioVars
  <2>3. QED
    BY <2>1, <2>2
<1>4. CASE FlushInsert
  <2> DEFINE b == flush.lru
  <2>1. b \in Buffers /\ lru[b] \in LRU /\ lru[b].block \in Blocks
    BY <1>0, <1>4 DEF FlushInsert, FlushInv, Known
  <2>2. lru' \in [Buffers -> LRU] /\ Kept
    <3>1. CASE lru' = [lru EXCEPT ![b] = Uncounted(lru[b])]
      <4>1. Uncounted(lru[b]) \in LRU /\ Uncounted(lru[b]).block = lru[b].block
        BY <2>1, ArgumentTypes
      <4>2. QED
        BY <1>0, <2>1, <3>1, <4>1, SameBlock
    <3>2. CASE lru' = lru
      BY <1>0, <3>2 DEF Kept
    <3>3. QED
      BY <1>4, <3>1, <3>2 DEF FlushInsert
  <2>3. CacheInv' /\ CallbackInv' /\ DiskInv' /\ UsersInv' /\ HistoryInv'
    BY <1>4, <2>2, Frame DEF FlushInsert
  <2>4. IoInv'
    <3>1. Submit(b, flush.i, "write") /\ flush.i \in Members /\ "write" \in Commands
      BY <1>0, <1>4 DEF FlushInsert, Commands
    <3>2. lru'[b].block \in Blocks
      BY <2>1, <2>2 DEF Kept
    <3>3. QED
      BY <2>1, <2>2, <3>1, <3>2, SubmitType
  <2>5. FlushInv'
    BY <1>0, <1>4, <2>1, <2>2 DEF FlushInsert, FlushInv, FlushPcs, Kept, Known
  <2>6. QED
    BY <2>3, <2>4, <2>5
<1>5. CASE FlushRelock
  <2>1. lru' \in [Buffers -> LRU] /\ Kept /\ FlushInv'
    <3>1. CASE flush.i < Mirrors
      <4>1. /\ lru' = lru /\ lruHeld' = TRUE /\ UNCHANGED <<lru_signal, lru_active, lru_state>>
            /\ flush' = [flush EXCEPT !.pc = "insert", !.i = @ + 1]
            /\ flush.pc = "relock"
        BY <1>5, <3>1 DEF FlushRelock
      <4>2. flush.i + 1 \in Members
        BY <1>0, <3>1, NumberAssumption DEF Members
      <4>3. Known(flush.lru)
        BY <4>1 DEF FlushInv
      <4>4. flush' \in [pc : FlushPcs, list : Buffers \cup {NoBuffer},
                        lru : Buffers \cup {NoBuffer}, i : Members]
            /\ flush'.lru = flush.lru
        BY <1>0, <4>1, <4>2 DEF FlushPcs
      <4>5. QED
        BY <1>0, <4>1, <4>3, <4>4 DEF FlushInv, Kept, Known
    <3>2. CASE ~(flush.i < Mirrors)
      <4>1. WalkFrom(flush.list, lru_active) /\ UNCHANGED <<lru_signal, lruHeld>>
        BY <1>5, <3>2 DEF FlushRelock
      <4>2. QED
        BY <1>0, <4>1, WalkType
    <3>3. QED
      BY <3>1, <3>2
  <2>2. CacheInv' /\ IoInv' /\ CallbackInv' /\ DiskInv' /\ UsersInv' /\ HistoryInv'
    BY <1>5, <2>1, Frame DEF FlushRelock, ioVars
  <2>3. QED
    BY <2>1, <2>2
<1>6. QED
  BY <1>1, <1>2, <1>3, <1>4, <1>5 DEF FlushDaemon

-----------------------------------------------------------------------------
(* The theorems                                                            *)

\* The inductive invariant holds when the module is loaded.
LEMMA InitTypes == Init => TypeInv
<1> SUFFICES ASSUME Init
             PROVE  TypeInv
  OBVIOUS
<1>1. CacheInv
  <2> DEFINE r == [state |-> {"FREE"}, owner |-> {}, block |-> NoBlock,
                   buffer |-> [block |-> NoBlock, version |-> 0],
                   lock_count |-> 0, Waiters |-> 0, Semaphore |-> 0,
                   aged |-> TRUE, mirrors_completed |-> 0, aio_ccode |-> FALSE]
  <2>1. r \in LRU
    BY DEF LRU, Flags, Queues, Data
  <2>2. lru = [b \in Buffers |-> r]
    BY DEF Init
  <2> HIDE DEF r
  <2>3. lru \in [Buffers -> LRU]
    BY <2>1, <2>2
  <2>4. QED
    <3>1. ListHead = <<>> /\ LRUDirtyBuffers = 0
      BY DEF Init
    <3>2. QED
      BY <2>3, <3>1 DEF CacheInv
<1>2. IoInv
  BY DEF Init, IoInv, ASYNCH_IO, Commands, Stages
<1>3. CallbackInv
  <2>1. io_callback = <<>> /\ cb = [stage |-> "down", lru |-> NoBuffer]
    BY DEF Init
  <2>2. QED
    BY <2>1 DEF CallbackInv
<1>4. FlushInv
  <2>1. 1 \in Members
    BY NumberAssumption DEF Members
  <2>2. /\ flush = [pc |-> "down", list |-> NoBuffer, lru |-> NoBuffer, i |-> 1]
        /\ lru_signal = FALSE /\ lru_active = FALSE /\ lru_state = FALSE
        /\ lruHeld = FALSE
    BY DEF Init
  <2>3. flush \in [pc : FlushPcs, list : Buffers \cup {NoBuffer},
                   lru : Buffers \cup {NoBuffer}, i : Members]
    BY <2>1, <2>2 DEF FlushPcs
  <2>4. QED
    BY <2>2, <2>3 DEF FlushInv
<1>5. DiskInv /\ HistoryInv
  BY DEF Init, DiskInv, HistoryInv, Data
<1>6. UsersInv
  BY NumberAssumption DEF Init, UsersInv, UserPcs, Ops
<1>7. QED
  BY <1>1, <1>2, <1>3, <1>4, <1>5, <1>6 DEF TypeInv

\* Every step keeps the inductive invariant.
LEMMA TypeStep == TypeInv /\ [Next]_vars => TypeInv'
<1> SUFFICES ASSUME TypeInv, [Next]_vars
             PROVE  TypeInv'
  OBVIOUS
<1>1. CASE \E u \in Users : Call(u) \/ ReadLRU(u) \/ Release(u)
  BY <1>1, UserTypes
<1>2. CASE \E b \in Buffers, c \in Members : Disk(b, c) \/ Interrupt(b, c)
  BY <1>2, DiskTypes
<1>3. CASE Callback
  BY <1>3, CallbackTypes
<1>4. CASE FlushDaemon \/ LRUTimer \/ Age
  BY <1>4, FlushTypes
<1>5. CASE UNCHANGED vars
  <2>1. lru' \in [Buffers -> LRU] /\ Kept
    BY <1>5 DEF vars, cacheVars, TypeInv, CacheInv, Kept
  <2>2. QED
    BY <1>5, <2>1, Frame DEF vars, cacheVars, ioVars, TypeInv
<1>6. QED
  BY <1>1, <1>2, <1>3, <1>4, <1>5 DEF Next

\* It is stronger than the type invariant.
LEMMA TypeInvTypeOK == TypeInv => TypeOK
BY DEF TypeInv, CacheInv, IoInv, CallbackInv, DiskInv, UsersInv, FlushInv, HistoryInv, TypeOK

\* Type correctness: every variable keeps its type.  In particular what the
\* cache writes to a disk is always the contents of a buffer, at a sector of a
\* block.
THEOREM TypeCorrect == Spec => []TypeOK
<1>1. Init => TypeInv
  BY InitTypes
<1>2. TypeInv /\ [Next]_vars => TypeInv'
  BY TypeStep
<1>3. TypeInv => TypeOK
  BY TypeInvTypeOK
<1>4. QED
  BY <1>1, <1>2, <1>3, PTL DEF Spec

-----------------------------------------------------------------------------
(* A block is in at most one buffer, and nobody waits for a load that is    *)
(* over.  No operation but Assign changes the block of a buffer or puts it  *)
(* on the hash list, and ReadLRU and the read ahead assign a block only     *)
(* when the hash list does not have it, in the critical section in which    *)
(* they searched for it.  No operation but the end of a load clears         *)
(* LOADING, and Assign, which sets it, takes a buffer that is not LOADING:  *)
(* one of the free list, one that was never used, or an idle one.           *)

\* The buffer has waiters only while it is LOADING, and GetAvailableLRU, which
\* looks at LOADING on the LRU list only, never takes it under a load.
Awaited(r) ==
  /\ r.Waiters > 0 => "LOADING" \in r.state
  /\ "FREE" \in r.owner \/ r.block = NoBlock => "LOADING" \notin r.state

\* What an operation that makes q of a buffer r respects
Respects(r, q) ==
  /\ q.block = r.block
  /\ "HASH" \in q.owner => "HASH" \in r.owner
  /\ Awaited(r) => Awaited(q)
\* A step that changes one buffer by such an operation, or none
OneRespects ==
  \/ lru' = lru
  \/ \E b \in Buffers : \E q : Respects(lru[b], q) /\ lru' = [lru EXCEPT ![b] = q]
AllRespect == \A b \in Buffers : Respects(lru[b], lru'[b])
\* A step that takes a buffer for a block that is in no buffer
Assigns == \E b \in GetAvailableLRU, k \in Blocks, flags \in SUBSET Flags, n \in Int :
             Assign(b, k, flags, n) /\ SearchHash(k) = {}

\* Every operation on one buffer respects its block, its hash list and those
\* who wait for it; a waiter is added only to a buffer that is LOADING.
LEMMA OperationRespects ==
  ASSUME NEW r \in LRU
  PROVE  /\ Respects(r, Taken(r)) /\ Respects(r, [r EXCEPT !.lock_count = @ - 1])
         /\ "LOADING" \in r.state => Respects(r, [r EXCEPT !.Waiters = @ + 1])
         /\ Respects(r, [r EXCEPT !.Semaphore = @ - 1])
         /\ \A d \in Data : Respects(r, [r EXCEPT !.buffer = d]) /\ Respects(r, Filled(r, d))
         /\ Respects(r, RemoveDirty(r)) /\ Respects(r, InsertDirty(r))
         /\ Respects(r, BeginFlush(r)) /\ Respects(r, EndFlush(r))
         /\ Respects(r, Loaded(r)) /\ Respects(r, Freed(r))
         /\ Respects(r, Modified(r)) /\ Respects(r, Uncounted(r))
         /\ \A e \in BOOLEAN : Respects(r, Counted(r, e))
<1> USE DEF Respects, Awaited
<1>1. Respects(r, Taken(r)) /\ Respects(r, [r EXCEPT !.lock_count = @ - 1])
  BY DEF LRU, Taken
<1>2. /\ "LOADING" \in r.state => Respects(r, [r EXCEPT !.Waiters = @ + 1])
      /\ Respects(r, [r EXCEPT !.Semaphore = @ - 1])
  BY DEF LRU
<1>3. Respects(r, RemoveDirty(r)) /\ Respects(r, InsertDirty(r))
  BY DEF LRU, RemoveDirty, InsertDirty
<1>4. Respects(r, BeginFlush(r)) /\ Respects(r, EndFlush(r))
  BY DEF LRU, BeginFlush, EndFlush
<1>5. Respects(r, Loaded(r))
  BY DEF LRU, Loaded, ReleaseWaiters
<1>6. Respects(r, Freed(r))
  BY DEF LRU, Freed, ReleaseWaiters
<1>7. Respects(r, Modified(r)) /\ Respects(r, Uncounted(r))
  BY DEF LRU, Modified, Uncounted
<1>8. \A e \in BOOLEAN : Respects(r, Counted(r, e))
  BY DEF LRU, Counted
<1>9. \A d \in Data : Respects(r, [r EXCEPT !.buffer = d])
  BY DEF LRU
<1>10. \A d \in Data : Respects(r, Filled(r, d))
  <2> DEFINE q == Loaded(r)
  <2>1. q \in LRU /\ Respects(r, q)
    BY <1>5, OperationTypes
  <2> HIDE DEF q
  <2>2. \A d \in Data : Respects(q, [q EXCEPT !.buffer = d])
    BY <2>1 DEF LRU
  <2>3. \A d \in Data : Filled(r, d) = [q EXCEPT !.buffer = d]
    BY DEF Filled, q
  <2>4. QED
    BY <2>1, <2>2, <2>3
<1>11. QED
  BY <1>1, <1>2, <1>3, <1>4, <1>5, <1>6, <1>7, <1>8, <1>9, <1>10

\* A step that leaves the block and the hash list of every buffer alone cannot
\* put a block in two buffers.
LEMMA OneAll ==
  ASSUME lru \in [Buffers -> LRU], OneRespects
  PROVE  AllRespect
BY DEF OneRespects, AllRespect, Respects

\* Only the read ahead and the misses of ReadLRU take a buffer for a block.
LEMMA UserRespects ==
  ASSUME TypeInv, NEW u \in Users, Call(u) \/ ReadLRU(u) \/ Release(u)
  PROVE  OneRespects \/ Assigns
<1>0. /\ lru \in [Buffers -> LRU]
      /\ pc[u] # "idle" => want[u] \in Blocks
      /\ pc[u] = "ahead" => Following[want[u]] \in Blocks
      /\ pc[u] \notin {"idle", "ahead", "search"} => Known(held[u])
      /\ {{"LOADING"}, {"DATAVALID"}} \subseteq SUBSET Flags /\ 0 \in Int /\ 1 \in Int
  BY DEF TypeInv, CacheInv, UsersInv, Flags
<1> DEFINE b == held[u]
<1>1. CASE Call(u) \/ ReadLRUNone(u) \/ FillBlockError(u)
  BY <1>1 DEF Call, ReadLRUNone, FillBlockError, cacheVars, OneRespects
<1>2. CASE PerformBlockReadAhead(u)
  <2>1. CASE lru' = lru
    BY <2>1 DEF OneRespects
  <2>2. CASE lru' # lru
    <3>1. /\ SearchHash(Following[want[u]]) = {} /\ pc[u] = "ahead"
          /\ \E a \in GetAvailableLRU : Assign(a, Following[want[u]], {"LOADING"}, 0)
      BY <1>2, <2>2 DEF PerformBlockReadAhead
    <3>2. QED
      BY <1>0, <3>1 DEF Assigns
  <2>3. QED
    BY <2>1, <2>2
<1>3. CASE ReadLRUHit(u) \/ ReadLRUWait(u)
  <2>1. PICK a \in Buffers :
          \/ lru' = [lru EXCEPT ![a] = Taken(lru[a])]
          \/ /\ "LOADING" \in lru[a].state
             /\ lru' = [lru EXCEPT ![a] = [lru[a] EXCEPT !.Waiters = @ + 1]]
    BY <1>3 DEF ReadLRUHit, ReadLRUWait, SearchHash, Has
  <2>2. QED
    BY <1>0, <2>1, OperationRespects DEF OneRespects
<1>4. CASE WaitOnBuffer(u)
  <2>1. b \in Buffers /\ lru' = [lru EXCEPT ![b] = [lru[b] EXCEPT !.Semaphore = @ - 1]]
    BY <1>0, <1>4 DEF WaitOnBuffer, Known
  <2>2. QED
    BY <1>0, <2>1, OperationRespects DEF OneRespects
<1>5. CASE ReadLRUFill(u)
  <2>1. /\ SearchHash(want[u]) = {} /\ want[u] \in Blocks
        /\ \E a \in GetAvailableLRU : Assign(a, want[u], {"LOADING"}, 0)
    BY <1>0, <1>5 DEF ReadLRUFill
  <2>2. QED
    BY <1>0, <2>1 DEF Assigns
<1>6. CASE ReadLRUNoFill(u)
  <2>1. /\ SearchHash(want[u]) = {} /\ want[u] \in Blocks
        /\ \E a \in GetAvailableLRU : Assign(a, want[u], {"DATAVALID"}, 1)
    BY <1>0, <1>6 DEF ReadLRUNoFill
  <2>2. QED
    BY <1>0, <2>1 DEF Assigns
<1>7. CASE FillBlock(u) \/ Refill(u) \/ RefillError(u)
  <2>1. b \in Buffers /\ lru[b] \in LRU /\ lru[b].block \in Blocks
    BY <1>0, <1>7 DEF FillBlock, Refill, RefillError, Known
  <2>2. PICK q \in LRU : Respects(lru[b], q) /\ lru' \in {[lru EXCEPT ![b] = q],
                                                          [lru EXCEPT ![b] = Taken(q)]}
    <3>1. CASE RefillError(u)
      BY <2>1, <3>1, OperationTypes, OperationRespects DEF RefillError
    <3>2. CASE FillBlock(u)
      <4> DEFINE q == Loaded(lru[b])
      <4>1. q \in LRU /\ Respects(lru[b], q)
        BY <2>1, OperationTypes, OperationRespects
      <4>2. lru' = [lru EXCEPT ![b] = Taken(q)]
        BY <3>2 DEF FillBlock
      <4>3. QED
        BY <4>1, <4>2
    <3>3. CASE Refill(u)
      <4>1. PICK m \in Members :
              lru' = [lru EXCEPT ![b] = Taken(Filled(lru[b], disk[m][lru[b].block]))]
        BY <3>3 DEF Refill
      <4>2. disk[m][lru[b].block] \in Data
        BY <2>1 DEF TypeInv, DiskInv
      <4>3. QED
        BY <2>1, <4>1, <4>2, ArgumentTypes, OperationRespects
    <3>4. QED
      BY <1>7, <3>1, <3>2, <3>3
  <2>3. Respects(q, Taken(q))
    BY OperationRespects
  <2>4. QED
    BY <2>1, <2>2, <2>3 DEF OneRespects, Respects
<1>8. CASE CopyIn(u)
  <2>1. b \in Buffers /\ lru[b] \in LRU /\ want[u] \in Blocks
    BY <1>0, <1>8 DEF CopyIn, Known
  <2> DEFINE d == [block |-> want[u], version |-> latest'[want[u]]]
  <2>2. d \in Data
    BY <1>8, <2>1 DEF CopyIn, TypeInv, HistoryInv, Data
  <2>3. lru' = [lru EXCEPT ![b] = [lru[b] EXCEPT !.buffer = d]]
    BY <1>8 DEF CopyIn
  <2> HIDE DEF d
  <2>4. QED
    BY <2>1, <2>2, <2>3, OperationRespects DEF OneRespects
<1>9. CASE ReleaseLRU(u)
  <2>1. b \in Buffers /\ lru[b] \in LRU
        /\ lru' = [lru EXCEPT ![b] = [lru[b] EXCEPT !.lock_count = @ - 1]]
    BY <1>0, <1>9 DEF ReleaseLRU, Known
  <2>2. QED
    BY <2>1, OperationRespects DEF OneRespects
<1>10. CASE ReleaseDirtyLRU(u)
  <2> DEFINE q == Modified(lru[b])
  <2>1. b \in Buffers /\ lru[b] \in LRU
    BY <1>0, <1>10 DEF ReleaseDirtyLRU, Known
  <2>2. q \in LRU /\ Respects(lru[b], q)
    BY <2>1, ArgumentTypes, OperationRespects
  <2>3. lru' \in {[lru EXCEPT ![b] = q], [lru EXCEPT ![b] = InsertDirty(q)]}
    BY <1>10 DEF ReleaseDirtyLRU
  <2> HIDE DEF q
  <2>4. Respects(q, InsertDirty(q))
    BY <2>2, OperationRespects
  <2>5. QED
    BY <2>1, <2>2, <2>3, <2>4 DEF OneRespects, Respects
<1>11. QED
  BY <1>1, <1>2, <1>3, <1>4, <1>5, <1>6, <1>7, <1>8, <1>9, <1>10 DEF ReadLRU, Release

\* No step of a disk, an interrupt or a daemon does.
LEMMA OtherRespects ==
  ASSUME TypeInv,
         \/ \E b \in Buffers, c \in Members : Disk(b, c) \/ Interrupt(b, c)
         \/ Callback \/ FlushDaemon \/ LRUTimer \/ Age \/ UNCHANGED vars
  PROVE  AllRespect
<1>0. lru \in [Buffers -> LRU]
  BY DEF TypeInv, CacheInv
<1>1. ASSUME NEW b \in Buffers, NEW c \in Members, Disk(b, c)
      PROVE  AllRespect
  <2>1. CASE lru' = lru
    BY <2>1 DEF AllRespect, Respects
  <2>2. CASE lru' # lru
    <3>1. PICK m \in Members : lru' = [lru EXCEPT ![b].buffer = disk[m][io[b][c].sector]]
      BY <1>1, <2>2 DEF Disk, Transfer, TransferError, cacheVars
    <3>2. io[b][c].stage # "idle"
      BY <1>1 DEF Disk, Transfer, TransferError
    <3> DEFINE d == disk[m][io[b][c].sector]
    <3>3. d \in Data
      BY <3>2 DEF TypeInv, IoInv, DiskInv
    <3>4. lru' = [lru EXCEPT ![b] = [lru[b] EXCEPT !.buffer = d]]
      BY <3>1
    <3> HIDE DEF d
    <3>5. lru[b] \in LRU
      BY <1>0
    <3>6. Respects(lru[b], [lru[b] EXCEPT !.buffer = d])
      BY <3>3, <3>5, OperationRespects
    <3>7. QED
      BY <1>0, <3>4, <3>6, OneAll DEF OneRespects
  <2>3. QED
    BY <2>1, <2>2
<1>2. ASSUME NEW b \in Buffers, NEW c \in Members, Interrupt(b, c)
      PROVE  AllRespect
  <2>1. CASE ReleaseAsynchReadAhead(b)
    <3>1. lru' \in {lru, [lru EXCEPT ![b] = Loaded(lru[b])]}
      BY <2>1 DEF ReleaseAsynchReadAhead
    <3>2. QED
      BY <1>0, <3>1, OperationRespects, OneAll DEF OneRespects
  <2>2. CASE ReleaseWriteAio(b, c)
    <3> DEFINE err == lru[b].aio_ccode \/ io[b][c].stage = "failed"
    <3> DEFINE q == Counted(lru[b], err)
    <3>1. q \in LRU /\ Respects(lru[b], q)
      BY <1>0, ArgumentTypes, OperationRespects DEF LRU
    <3> HIDE DEF q
    <3>2. EndFlush(q) \in LRU /\ Respects(q, EndFlush(q))
      BY <3>1, OperationTypes, OperationRespects
    <3>3. \A p \in LRU : Respects(p, RemoveDirty(p))
      BY OperationRespects
    <3>4. \E r \in {q, EndFlush(q), RemoveDirty(q), RemoveDirty(EndFlush(q))} :
            lru' = [lru EXCEPT ![b] = r]
      BY <2>2 DEF ReleaseWriteAio, q
    <3>5. PICK r : /\ r \in {q, EndFlush(q), RemoveDirty(q), RemoveDirty(EndFlush(q))}
                   /\ lru' = [lru EXCEPT ![b] = r]
      BY <3>4
    <3>6. Respects(q, RemoveDirty(q)) /\ Respects(EndFlush(q), RemoveDirty(EndFlush(q)))
      BY <3>1, <3>2, <3>3
    <3>7. Respects(lru[b], r)
      BY <3>1, <3>2, <3>5, <3>6 DEF Respects
    <3>8. QED
      BY <1>0, <3>5, <3>7, OneAll DEF OneRespects
  <2>3. QED
    BY <1>2, <2>1, <2>2 DEF Interrupt
<1>3. CASE Callback
  <2>1. CASE RetryAsynchReadAhead
    <3> DEFINE b == Head(io_callback).lru
    <3>1. Known(b)
      <4>1. 1 \in DOMAIN io_callback /\ Head(io_callback) = io_callback[1]
        BY <2>1 DEF RetryAsynchReadAhead, TypeInv, CallbackInv
      <4>2. QED
        BY <4>1 DEF TypeInv, CallbackInv
    <3>2. b \in Buffers /\ lru[b] \in LRU
      BY <1>0, <3>1 DEF Known
    <3>3. CASE lru' = [lru EXCEPT ![b] = Freed(lru[b])]
      BY <1>0, <3>2, <3>3, OperationRespects, OneAll DEF OneRespects
    <3>4. CASE \E m \in Members :
                 lru' = [lru EXCEPT ![b] = Filled(lru[b], disk[m][lru[b].block])]
      <4>1. PICK m \in Members :
              lru' = [lru EXCEPT ![b] = Filled(lru[b], disk[m][lru[b].block])]
        BY <3>4
      <4>2. disk[m][lru[b].block] \in Data
        BY <3>1 DEF TypeInv, DiskInv, Known
      <4>3. QED
        BY <1>0, <3>2, <4>1, <4>2, OperationRespects, OneAll DEF OneRespects
    <3>5. QED
      BY <2>1, <3>3, <3>4 DEF RetryAsynchReadAhead
  <2>2. CASE RetryWriteAio
    BY <2>2 DEF RetryWriteAio, cacheVars, AllRespect, Respects
  <2>3. CASE RetryWriteAioDone
    <3> DEFINE b == cb.lru
    <3> DEFINE q == EndFlush(lru[b])
    <3>1. b \in Buffers /\ lru[b] \in LRU
      BY <1>0, <2>3 DEF RetryWriteAioDone, TypeInv, CallbackInv, Known
    <3>2. q \in LRU /\ Respects(lru[b], q)
      BY <3>1, OperationTypes, OperationRespects
    <3>3. lru' \in {[lru EXCEPT ![b] = q], [lru EXCEPT ![b] = RemoveDirty(q)]}
      BY <2>3 DEF RetryWriteAioDone
    <3> HIDE DEF q
    <3>4. Respects(q, RemoveDirty(q))
      BY <3>2, OperationRespects
    <3>5. QED
      BY <1>0, <3>1, <3>2, <3>3, <3>4, OneAll DEF OneRespects, Respects
  <2>4. QED
    BY <1>3, <2>1, <2>2, <2>3 DEF Callback
<1>4. ASSUME NEW a, NEW active, WalkFrom(a, active)
      PROVE  AllRespect
  <2>1. lru' = lru \/ \E i \in DOMAIN ListHead :
          lru' = [lru EXCEPT ![ListHead[i]] = BeginFlush(lru[ListHead[i]])]
    BY <1>4 DEF WalkFrom
  <2>2. \A i \in DOMAIN ListHead : ListHead[i] \in Buffers
    BY DEF TypeInv, CacheInv, Known
  <2>3. QED
    BY <1>0, <2>1, <2>2, OperationRespects, OneAll DEF OneRespects
<1>5. CASE FlushDaemon
  <2>1. CASE FlushWake \/ FlushReset
    BY <2>1 DEF FlushWake, FlushReset, cacheVars, AllRespect, Respects
  <2>2. CASE FlushStart
    BY <1>4, <2>2 DEF FlushStart
  <2>3. CASE FlushInsert
    <3>1. flush.lru \in Buffers /\ lru[flush.lru] \in LRU
      BY <1>0, <2>3 DEF FlushInsert, TypeInv, FlushInv, Known
    <3>2. lru' \in {lru, [lru EXCEPT ![flush.lru] = Uncounted(lru[flush.lru])]}
      BY <2>3 DEF FlushInsert
    <3>3. QED
      BY <1>0, <3>1, <3>2, OperationRespects, OneAll DEF OneRespects
  <2>4. CASE FlushRelock
    BY <1>4, <2>4 DEF FlushRelock, AllRespect, Respects
  <2>5. QED
    BY <1>5, <2>1, <2>2, <2>3, <2>4 DEF FlushDaemon
<1>6. CASE LRUTimer \/ UNCHANGED vars
  BY <1>6 DEF LRUTimer, vars, cacheVars, AllRespect, Respects
<1>7. CASE Age
  <2>1. ASSUME NEW a \in Buffers
        PROVE  Respects(lru[a], lru'[a])
    <3>1. lru[a] \in LRU /\ lru'[a] = [lru[a] EXCEPT !.aged = TRUE]
      BY <1>0, <1>7 DEF Age
    <3>2. QED
      BY <3>1 DEF LRU, Respects, Awaited
  <2>2. QED
    BY <2>1 DEF AllRespect
<1>8. QED
  BY <1>1, <1>2, <1>3, <1>5, <1>6, <1>7

AllAwaited == \A b \in Buffers : Awaited(lru[b])
ReadInv == OneBufferPerBlock /\ AllAwaited

\* Taking a buffer for block k
LEMMA AssignedAwaited ==
  ASSUME NEW r \in LRU, Awaited(r), "LOADING" \notin r.state,
         NEW k \in Blocks, NEW flags \in SUBSET Flags, NEW n \in Int
  PROVE  Awaited(Assigned(r, k, flags, n))
<1>1. k # NoBlock
  BY NullAssumption
<1>2. r.Waiters = 0
  BY DEF LRU, Awaited
<1> DEFINE q == [r EXCEPT !.lock_count = @ + n,
                          !.owner = (@ \ {"FREE"}) \cup {"LRU", "HASH"}]
<1>3. q \in LRU /\ q.Waiters = r.Waiters /\ "FREE" \notin q.owner
  <2> DEFINE p == [r EXCEPT !.lock_count = @ + n]
  <2>1. p \in LRU /\ p.Waiters = r.Waiters
    BY DEF LRU
  <2>2. q = [p EXCEPT !.owner = (@ \ {"FREE"}) \cup {"LRU", "HASH"}]
    OBVIOUS
  <2> HIDE DEF p, q
  <2>3. QED
    BY <2>1, <2>2 DEF LRU, Queues
<1>4. Assigned(r, k, flags, n) = [q EXCEPT !.state = flags, !.block = k, !.aio_ccode = FALSE]
  BY DEF Assigned
<1> HIDE DEF q
<1>5. QED
  BY <1>1, <1>2, <1>3, <1>4 DEF LRU, Awaited

\* Every step keeps a block in at most one buffer, and waiters at a load.
LEMMA ReadStep == TypeInv /\ ReadInv /\ [Next]_vars => ReadInv'
<1> SUFFICES ASSUME TypeInv, ReadInv, [Next]_vars
             PROVE  ReadInv'
  OBVIOUS
<1>0. lru \in [Buffers -> LRU]
  BY DEF TypeInv, CacheInv
<1>1. AllRespect \/ Assigns
  <2>1. CASE \E u \in Users : Call(u) \/ ReadLRU(u) \/ Release(u)
    BY <1>0, <2>1, UserRespects, OneAll
  <2>2. CASE ~\E u \in Users : Call(u) \/ ReadLRU(u) \/ Release(u)
    BY <2>2, OtherRespects DEF Next
  <2>3. QED
    BY <2>1, <2>2
<1>2. CASE AllRespect
  BY <1>2 DEF AllRespect, Respects, ReadInv, OneBufferPerBlock, Hashed, AllAwaited
<1>3. CASE Assigns
  <2>1. PICK b \in GetAvailableLRU, k \in Blocks, flags \in SUBSET Flags, n \in Int :
          Assign(b, k, flags, n) /\ SearchHash(k) = {}
    BY <1>3 DEF Assigns
  <2>2. b \in Buffers
    BY DEF GetAvailableLRU, OnFreeList, Unused, Idle
  <2>3. lru' = [lru EXCEPT ![b] = Assigned(lru[b], k, flags, n)]
    BY <2>1 DEF Assign
  <2>4. Assigned(lru[b], k, flags, n).block = k
    <3> DEFINE q == lru[b]
    <3>1. q \in LRU
      BY <1>0, <2>2
    <3> HIDE DEF q
    <3>2. Assigned(q, k, flags, n).block = k
      BY <3>1, ArgumentTypes
    <3>3. QED
      BY <3>2 DEF q
  <2>5. lru'[b].block = k /\ \A a \in Buffers \ {b} : lru'[a] = lru[a]
    BY <1>0, <2>2, <2>3, <2>4
  <2>6. \A a \in Buffers : ~(Hashed(a) /\ lru[a].block = k)
    BY <2>1 DEF SearchHash
  <2>7. OneBufferPerBlock'
    BY <2>5, <2>6 DEF ReadInv, OneBufferPerBlock, Hashed
  <2>8. "LOADING" \notin lru[b].state /\ Awaited(lru[b])
    BY <2>2 DEF ReadInv, AllAwaited, Awaited, GetAvailableLRU, OnFreeList, Unused, Idle
  <2>9. Awaited(Assigned(lru[b], k, flags, n))
    BY <1>0, <2>2, <2>8, AssignedAwaited
  <2>10. AllAwaited'
    BY <1>0, <2>2, <2>3, <2>5, <2>9 DEF ReadInv, AllAwaited
  <2>11. QED
    BY <2>7, <2>10 DEF ReadInv
<1>4. QED
  BY <1>1, <1>2, <1>3

LEMMA ReadInvariant == Spec => []ReadInv
<1>1. Init => TypeInv /\ ReadInv
  <2>1. Init => ReadInv
    BY DEF Init, ReadInv, OneBufferPerBlock, Hashed, AllAwaited, Awaited
  <2>2. QED
    BY <2>1, InitTypes
<1>2. (TypeInv /\ ReadInv) /\ [Next]_vars => (TypeInv /\ ReadInv)'
  BY TypeStep, ReadStep
<1>3. QED
  BY <1>1, <1>2, PTL DEF Spec

\* A block of the volume is in at most one buffer, for any number of buffers,
\* callers and mirror members, with and without disk errors.
THEOREM BlockInOneBuffer == Spec => []OneBufferPerBlock
<1>1. ReadInv => OneBufferPerBlock
  BY DEF ReadInv
<1>2. QED
  BY <1>1, ReadInvariant, PTL

\* Nobody waits for a load that is over: whoever ends a load, with the data, with
\* an error or after a retry, wakes those who wait, and no buffer is taken for
\* another block while somebody waits for it.
THEOREM WaitersAreWoken == Spec => []WaitersHaveLoad
<1>1. ReadInv => WaitersHaveLoad
  BY DEF ReadInv, AllAwaited, Awaited, WaitersHaveLoad, Has
<1>2. QED
  BY <1>1, ReadInvariant, PTL

-----------------------------------------------------------------------------
(***************************************************************************)
(* What the operations and the steps change, field by field, and what the  *)
(* callers may rely on: the counts of every buffer are exact, a load has   *)
(* one who ends it, and a caller keeps the buffer it holds.                *)
(***************************************************************************)
-----------------------------------------------------------------------------
(* What the operations and the steps change, field by field                *)

SameFlags(q, r)   == q.state = r.state /\ q.owner = r.owner
SameData(q, r)    == q.block = r.block /\ q.buffer = r.buffer
SameLocks(q, r)   == q.lock_count = r.lock_count
SameWaiters(q, r) == q.Waiters = r.Waiters /\ q.Semaphore = r.Semaphore
SameMirrors(q, r) == q.mirrors_completed = r.mirrors_completed /\ q.aio_ccode = r.aio_ccode
Woken(q, r)       == q.Waiters = 0 /\ q.Semaphore = r.Semaphore + r.Waiters

LEMMA LoadFields ==
  ASSUME NEW r \in LRU
  PROVE  /\ Loaded(r).state = (r.state \ {"LOADING"}) \cup {"DATAVALID"}
         /\ Loaded(r).owner = r.owner /\ SameData(Loaded(r), r)
         /\ SameLocks(Loaded(r), r) /\ Woken(Loaded(r), r) /\ SameMirrors(Loaded(r), r)
         /\ Freed(r).state = {"FREE"}
         /\ Freed(r).owner = (r.owner \ {"LRU", "HASH"}) \cup {"FREE"}
         /\ SameData(Freed(r), r) /\ SameLocks(Freed(r), r) /\ Woken(Freed(r), r)
         /\ SameMirrors(Freed(r), r)
         /\ \A d \in Data :
              /\ SameFlags(Filled(r, d), Loaded(r)) /\ SameLocks(Filled(r, d), r)
              /\ Filled(r, d).block = r.block /\ Filled(r, d).buffer = d
              /\ Woken(Filled(r, d), r) /\ SameMirrors(Filled(r, d), r)
<1> USE DEF SameFlags, SameData, SameLocks, SameMirrors, Woken
<1>1. /\ Loaded(r).state = (r.state \ {"LOADING"}) \cup {"DATAVALID"}
      /\ Loaded(r).owner = r.owner /\ SameData(Loaded(r), r)
      /\ SameLocks(Loaded(r), r) /\ Woken(Loaded(r), r) /\ SameMirrors(Loaded(r), r)
  BY DEF LRU, Loaded, ReleaseWaiters
<1>2. /\ Freed(r).state = {"FREE"}
      /\ Freed(r).owner = (r.owner \ {"LRU", "HASH"}) \cup {"FREE"}
      /\ SameData(Freed(r), r) /\ SameLocks(Freed(r), r) /\ Woken(Freed(r), r)
      /\ SameMirrors(Freed(r), r)
  BY DEF LRU, Freed, ReleaseWaiters
<1>3. \A d \in Data :
        /\ SameFlags(Filled(r, d), Loaded(r)) /\ SameLocks(Filled(r, d), Loaded(r))
        /\ Filled(r, d).block = Loaded(r).block /\ Filled(r, d).buffer = d
        /\ SameWaiters(Filled(r, d), Loaded(r)) /\ SameMirrors(Filled(r, d), Loaded(r))
  <2> SUFFICES ASSUME NEW d \in Data
               PROVE  /\ SameFlags(Filled(r, d), Loaded(r)) /\ SameLocks(Filled(r, d), Loaded(r))
                      /\ Filled(r, d).block = Loaded(r).block /\ Filled(r, d).buffer = d
                      /\ SameWaiters(Filled(r, d), Loaded(r))
                      /\ SameMirrors(Filled(r, d), Loaded(r))
    OBVIOUS
  <2> DEFINE q == Loaded(r)
             p == [q EXCEPT !.buffer = d]
  <2>1. q \in LRU
    BY OperationTypes
  <2>2. Filled(r, d) = p
    BY DEF Filled
  <2> HIDE DEF q
  <2>3. /\ SameFlags(p, q) /\ SameLocks(p, q) /\ p.block = q.block /\ p.buffer = d
        /\ SameWaiters(p, q) /\ SameMirrors(p, q)
    BY <2>1 DEF LRU, SameWaiters
  <2> HIDE DEF p
  <2>4. QED
    BY <2>2, <2>3 DEF q
<1>4. \A d \in Data :
        /\ SameFlags(Filled(r, d), Loaded(r)) /\ SameLocks(Filled(r, d), r)
        /\ Filled(r, d).block = r.block /\ Filled(r, d).buffer = d
        /\ Woken(Filled(r, d), r) /\ SameMirrors(Filled(r, d), r)
  BY <1>1, <1>3 DEF SameWaiters
<1>5. QED
  BY <1>1, <1>2, <1>4

LEMMA HoldFields ==
  ASSUME NEW r \in LRU
  PROVE  /\ SameFlags(Taken(r), r) /\ SameData(Taken(r), r) /\ SameWaiters(Taken(r), r)
         /\ Taken(r).lock_count = r.lock_count + 1 /\ SameMirrors(Taken(r), r)
         /\ Modified(r).state = r.state \cup {"MODIFIED"} /\ Modified(r).owner = r.owner
         /\ SameData(Modified(r), r) /\ SameWaiters(Modified(r), r)
         /\ Modified(r).lock_count = r.lock_count - 1 /\ SameMirrors(Modified(r), r)
         /\ "DIRTY" \in r.owner => InsertDirty(r) = r
         /\ "DIRTY" \notin r.owner =>
              /\ InsertDirty(r).state = r.state \cup {"DIRTY"}
              /\ InsertDirty(r).owner = r.owner \cup {"DIRTY"}
              /\ SameData(InsertDirty(r), r) /\ SameLocks(InsertDirty(r), r)
              /\ SameWaiters(InsertDirty(r), r) /\ SameMirrors(InsertDirty(r), r)
<1> USE DEF SameFlags, SameData, SameLocks, SameWaiters, SameMirrors
<1>1. /\ SameFlags(Taken(r), r) /\ SameData(Taken(r), r) /\ SameWaiters(Taken(r), r)
      /\ Taken(r).lock_count = r.lock_count + 1 /\ SameMirrors(Taken(r), r)
  BY DEF LRU, Taken
<1>2. /\ Modified(r).state = r.state \cup {"MODIFIED"} /\ Modified(r).owner = r.owner
      /\ SameData(Modified(r), r) /\ SameWaiters(Modified(r), r)
      /\ Modified(r).lock_count = r.lock_count - 1 /\ SameMirrors(Modified(r), r)
  BY DEF LRU, Modified
<1>3. /\ "DIRTY" \in r.owner => InsertDirty(r) = r
      /\ "DIRTY" \notin r.owner =>
              /\ InsertDirty(r).state = r.state \cup {"DIRTY"}
              /\ InsertDirty(r).owner = r.owner \cup {"DIRTY"}
              /\ SameData(InsertDirty(r), r) /\ SameLocks(InsertDirty(r), r)
              /\ SameWaiters(InsertDirty(r), r) /\ SameMirrors(InsertDirty(r), r)
  BY DEF LRU, InsertDirty
<1>4. QED
  BY <1>1, <1>2, <1>3

LEMMA FlushFields ==
  ASSUME NEW r \in LRU
  PROVE  /\ BeginFlush(r).state = (r.state \cup {"FLUSHING"}) \ {"MODIFIED"}
         /\ BeginFlush(r).owner = r.owner
         /\ SameData(BeginFlush(r), r) /\ SameLocks(BeginFlush(r), r)
         /\ SameWaiters(BeginFlush(r), r) /\ SameMirrors(BeginFlush(r), r)
         /\ EndFlush(r).state = r.state \ {"FLUSHING"} /\ EndFlush(r).owner = r.owner
         /\ SameData(EndFlush(r), r) /\ SameLocks(EndFlush(r), r)
         /\ SameWaiters(EndFlush(r), r) /\ SameMirrors(EndFlush(r), r)
         /\ RemoveDirty(r).state = r.state \ {"DIRTY"}
         /\ RemoveDirty(r).owner = r.owner \ {"DIRTY"}
         /\ SameData(RemoveDirty(r), r) /\ SameLocks(RemoveDirty(r), r)
         /\ SameWaiters(RemoveDirty(r), r) /\ SameMirrors(RemoveDirty(r), r)
         /\ SameFlags(Uncounted(r), r) /\ SameData(Uncounted(r), r)
         /\ SameLocks(Uncounted(r), r) /\ SameWaiters(Uncounted(r), r)
         /\ Uncounted(r).mirrors_completed = 0 /\ Uncounted(r).aio_ccode = FALSE
         /\ \A e \in BOOLEAN :
              /\ SameFlags(Counted(r, e), r) /\ SameData(Counted(r, e), r)
              /\ SameLocks(Counted(r, e), r) /\ SameWaiters(Counted(r, e), r)
              /\ Counted(r, e).mirrors_completed = r.mirrors_completed + 1
              /\ Counted(r, e).aio_ccode = e
<1> USE DEF SameFlags, SameData, SameLocks, SameWaiters, SameMirrors
<1>1. /\ BeginFlush(r).state = (r.state \cup {"FLUSHING"}) \ {"MODIFIED"}
      /\ BeginFlush(r).owner = r.owner
      /\ SameData(BeginFlush(r), r) /\ SameLocks(BeginFlush(r), r)
      /\ SameWaiters(BeginFlush(r), r) /\ SameMirrors(BeginFlush(r), r)
  BY DEF LRU, BeginFlush
<1>2. /\ EndFlush(r).state = r.state \ {"FLUSHING"} /\ EndFlush(r).owner = r.owner
      /\ SameData(EndFlush(r), r) /\ SameLocks(EndFlush(r), r)
      /\ SameWaiters(EndFlush(r), r) /\ SameMirrors(EndFlush(r), r)
  BY DEF LRU, EndFlush
<1>3. /\ RemoveDirty(r).state = r.state \ {"DIRTY"}
      /\ RemoveDirty(r).owner = r.owner \ {"DIRTY"}
      /\ SameData(RemoveDirty(r), r) /\ SameLocks(RemoveDirty(r), r)
      /\ SameWaiters(RemoveDirty(r), r) /\ SameMirrors(RemoveDirty(r), r)
  BY DEF LRU, RemoveDirty
<1>4. /\ SameFlags(Uncounted(r), r) /\ SameData(Uncounted(r), r)
      /\ SameLocks(Uncounted(r), r) /\ SameWaiters(Uncounted(r), r)
      /\ Uncounted(r).mirrors_completed = 0 /\ Uncounted(r).aio_ccode = FALSE
  BY DEF LRU, Uncounted
<1>5. \A e \in BOOLEAN :
              /\ SameFlags(Counted(r, e), r) /\ SameData(Counted(r, e), r)
              /\ SameLocks(Counted(r, e), r) /\ SameWaiters(Counted(r, e), r)
              /\ Counted(r, e).mirrors_completed = r.mirrors_completed + 1
              /\ Counted(r, e).aio_ccode = e
  BY DEF LRU, Counted
<1>6. QED
  BY <1>1, <1>2, <1>3, <1>4, <1>5

\* A step that changes at most the buffer b, the request c of b, the caller u
OnlyBuffer(b) == \A a \in Buffers \ {b} : lru'[a] = lru[a]
OnlyRequest(b, c) ==
  \A a \in Buffers, d \in Members : a # b \/ d # c => io'[a][d] = io[a][d]
SameUser(u) == pc'[u] = pc[u] /\ held'[u] = held[u] /\ want'[u] = want[u] /\ op'[u] = op[u]
OnlyUser(u) == \A v \in Users \ {u} : SameUser(v)
SameUsers   == pc' = pc /\ held' = held /\ want' = want /\ op' = op

\* The buffer b is taken for block k, which is in no buffer.
Took(b, k, flags, n) ==
  /\ b \in GetAvailableLRU /\ b \in Buffers /\ k \in Blocks /\ SearchHash(k) = {}
  /\ OnlyBuffer(b)
  /\ lru'[b].state = flags /\ lru'[b].owner = (lru[b].owner \ {"FREE"}) \cup {"LRU", "HASH"}
  /\ lru'[b].block = k /\ lru'[b].buffer = lru[b].buffer
  /\ lru'[b].lock_count = lru[b].lock_count + n /\ SameWaiters(lru'[b], lru[b])
  /\ lru'[b].mirrors_completed = lru[b].mirrors_completed /\ lru'[b].aio_ccode = FALSE
\* A request is queued, or goes to stage s.
Queued(b, c, command) ==
  /\ io[b][c].stage = "idle" /\ ~InCallback(b)
  /\ io'[b][c].command = command /\ io'[b][c].stage = "queued"
  /\ io'[b][c].sector = lru'[b].block
  /\ OnlyRequest(b, c)
Staged(b, c, s) ==
  /\ io'[b][c].command = io[b][c].command /\ io'[b][c].sector = io[b][c].sector
  /\ io'[b][c].stage = s
  /\ OnlyRequest(b, c)

LEMMA TookFields ==
  ASSUME TypeInv, NEW b \in GetAvailableLRU, NEW k \in Blocks, NEW flags \in SUBSET Flags,
         NEW n \in Int, Assign(b, k, flags, n), SearchHash(k) = {}
  PROVE  Took(b, k, flags, n)
<1>1. b \in Buffers /\ lru \in [Buffers -> LRU]
  BY DEF GetAvailableLRU, OnFreeList, Unused, Idle, TypeInv, CacheInv
<1> DEFINE r == lru[b]
           q == Assigned(r, k, flags, n)
<1>2. lru' = [lru EXCEPT ![b] = q]
  BY DEF Assign
<1>3. r \in LRU
  BY <1>1
<1> HIDE DEF r
<1>4. /\ q.state = flags /\ q.owner = (r.owner \ {"FREE"}) \cup {"LRU", "HASH"}
      /\ q.block = k /\ q.buffer = r.buffer
      /\ q.lock_count = r.lock_count + n /\ SameWaiters(q, r)
      /\ q.mirrors_completed = r.mirrors_completed /\ q.aio_ccode = FALSE
  BY <1>3 DEF LRU, Assigned, SameWaiters
<1> HIDE DEF q
<1>5. lru'[b] = q /\ OnlyBuffer(b)
  BY <1>1, <1>2 DEF OnlyBuffer
<1>6. QED
  BY <1>1, <1>4, <1>5 DEF Took, r

LEMMA RequestFields ==
  ASSUME TypeInv, NEW b \in Buffers, NEW c \in Members
  PROVE  /\ \A command : Submit(b, c, command) => Queued(b, c, command)
         /\ \A s : SetStage(b, c, s) => Staged(b, c, s)
<1>1. io \in [Buffers -> [Members -> ASYNCH_IO]]
  BY DEF TypeInv, IoInv
<1>2. ASSUME NEW command, Submit(b, c, command)
      PROVE  Queued(b, c, command)
  <2> DEFINE q == [command |-> command, sector |-> lru'[b].block, stage |-> "queued"]
  <2>1. q.command = command /\ q.sector = lru'[b].block /\ q.stage = "queued"
    OBVIOUS
  <2>2. io' = [io EXCEPT ![b] = [io[b] EXCEPT ![c] = q]]
    BY <1>2 DEF Submit
  <2> HIDE DEF q
  <2>3. io'[b][c] = q /\ OnlyRequest(b, c)
    BY <1>1, <2>2 DEF OnlyRequest
  <2>4. QED
    BY <1>2, <2>1, <2>3 DEF Submit, Queued
<1>3. ASSUME NEW s, SetStage(b, c, s)
      PROVE  Staged(b, c, s)
  <2> DEFINE q == [io[b][c] EXCEPT !.stage = s]
  <2>1. io[b][c] \in ASYNCH_IO
    BY <1>1
  <2>2. q.command = io[b][c].command /\ q.sector = io[b][c].sector /\ q.stage = s
    BY <2>1 DEF ASYNCH_IO
  <2>3. io' = [io EXCEPT ![b] = [io[b] EXCEPT ![c] = q]]
    BY <1>3 DEF SetStage
  <2> HIDE DEF q
  <2>4. io'[b][c] = q /\ OnlyRequest(b, c)
    BY <1>1, <2>3 DEF OnlyRequest
  <2>5. QED
    BY <2>2, <2>4 DEF Staged
<1>4. QED
  BY <1>2, <1>3

\* The steps of the callers
LEMMA CallEffect ==
  ASSUME TypeInv, NEW u \in Users, Call(u)
  PROVE  /\ pc[u] = "idle" /\ pc'[u] \in {"ahead", "search"} /\ held' = held
         /\ OnlyUser(u)
         /\ UNCHANGED <<cacheVars, ioVars, flush, cb, historyVars>>
BY DEF TypeInv, UsersInv, Call, Goto, OnlyUser, SameUser, flushVars

LEMMA ReadAheadEffect ==
  ASSUME TypeInv, NEW u \in Users, PerformBlockReadAhead(u)
  PROVE  /\ pc[u] = "ahead" /\ pc'[u] = "search" /\ held' = held
         /\ OnlyUser(u)
         /\ \/ UNCHANGED <<lru, io>>
            \/ \E b \in Buffers, k \in Blocks :
                 Took(b, k, {"LOADING"}, 0) /\ Queued(b, 1, "ahead")
         /\ UNCHANGED <<LRUDirtyBuffers, io_callback, disk, flush, cb, historyVars>>
<1>1. /\ pc[u] = "ahead" /\ pc'[u] = "search" /\ held' = held /\ OnlyUser(u)
      /\ UNCHANGED <<LRUDirtyBuffers, io_callback, disk, flush, cb, historyVars>>
  BY DEF TypeInv, UsersInv, PerformBlockReadAhead, Goto, OnlyUser, SameUser, flushVars
<1>2. CASE UNCHANGED <<lru, io>>
  BY <1>1, <1>2
<1>3. CASE ~UNCHANGED <<lru, io>>
  <2> DEFINE k == Following[want[u]]
  <2>1. k \in Blocks
    BY <1>1 DEF TypeInv, UsersInv
  <2>2. PICK b \in GetAvailableLRU :
          Assign(b, k, {"LOADING"}, 0) /\ Submit(b, 1, "ahead") /\ SearchHash(k) = {}
    BY <1>3 DEF PerformBlockReadAhead
  <2> HIDE DEF k
  <2>3. Took(b, k, {"LOADING"}, 0)
    <3>1. {"LOADING"} \in SUBSET Flags /\ 0 \in Int
      BY DEF Flags
    <3>2. QED
      BY <2>1, <2>2, <3>1, TookFields
  <2>4. b \in Buffers /\ 1 \in Members
    BY <2>3, NumberAssumption DEF Took, Members
  <2>5. Queued(b, 1, "ahead")
    BY <2>2, <2>4, RequestFields
  <2>6. QED
    BY <1>1, <2>1, <2>3, <2>4, <2>5
<1>4. QED
  BY <1>2, <1>3

LEMMA HitEffect ==
  ASSUME TypeInv, NEW u \in Users, ReadLRUHit(u)
  PROVE  /\ pc[u] = "search" /\ pc'[u] = "hold" /\ want' = want /\ op' = op
         /\ OnlyUser(u)
         /\ \E b \in SearchHash(want[u]) :
              /\ b \in Buffers /\ ~Has(b, "LOADING") /\ held'[u] = b
              /\ OnlyBuffer(b) /\ SameFlags(lru'[b], lru[b]) /\ SameData(lru'[b], lru[b])
              /\ lru'[b].lock_count = lru[b].lock_count + 1 /\ SameWaiters(lru'[b], lru[b])
              /\ SameMirrors(lru'[b], lru[b])
         /\ UNCHANGED <<LRUDirtyBuffers, ioVars, flush, cb, historyVars>>
<1>1. /\ pc[u] = "search" /\ pc'[u] = "hold" /\ want' = want /\ op' = op /\ OnlyUser(u)
      /\ UNCHANGED <<LRUDirtyBuffers, ioVars, flush, cb, historyVars>>
  BY DEF TypeInv, UsersInv, ReadLRUHit, Goto, OnlyUser, SameUser, flushVars
<1>2. PICK b \in SearchHash(want[u]) :
        ~Has(b, "LOADING") /\ lru' = [lru EXCEPT ![b] = Taken(lru[b])]
        /\ held' = [held EXCEPT ![u] = b]
  BY DEF ReadLRUHit
<1>3. b \in Buffers /\ lru \in [Buffers -> LRU] /\ lru[b] \in LRU /\ held'[u] = b
  BY <1>2 DEF SearchHash, TypeInv, CacheInv, UsersInv
<1>4. lru'[b] = Taken(lru[b]) /\ OnlyBuffer(b)
  BY <1>2, <1>3 DEF OnlyBuffer
<1>5. QED
  BY <1>1, <1>2, <1>3, <1>4, HoldFields

LEMMA WaitEffect ==
  ASSUME TypeInv, NEW u \in Users, ReadLRUWait(u)
  PROVE  /\ pc[u] = "search" /\ pc'[u] = "wait" /\ want' = want /\ op' = op
         /\ OnlyUser(u)
         /\ \E b \in Buffers :
              /\ held'[u] = b
              /\ OnlyBuffer(b) /\ SameFlags(lru'[b], lru[b]) /\ SameData(lru'[b], lru[b])
              /\ SameLocks(lru'[b], lru[b]) /\ SameMirrors(lru'[b], lru[b])
              /\ lru'[b].Waiters = lru[b].Waiters + 1 /\ lru'[b].Semaphore = lru[b].Semaphore
         /\ UNCHANGED <<LRUDirtyBuffers, ioVars, flush, cb, historyVars>>
<1>1. /\ pc[u] = "search" /\ pc'[u] = "wait" /\ want' = want /\ op' = op /\ OnlyUser(u)
      /\ UNCHANGED <<LRUDirtyBuffers, ioVars, flush, cb, historyVars>>
  BY DEF TypeInv, UsersInv, ReadLRUWait, Goto, OnlyUser, SameUser, flushVars
<1>2. PICK b \in SearchHash(want[u]) :
        lru' = [lru EXCEPT ![b] = [lru[b] EXCEPT !.Waiters = @ + 1]]
        /\ held' = [held EXCEPT ![u] = b]
  BY DEF ReadLRUWait
<1>3. b \in Buffers /\ lru \in [Buffers -> LRU] /\ lru[b] \in LRU /\ held'[u] = b
  BY <1>2 DEF SearchHash, TypeInv, CacheInv, UsersInv
<1>4. lru'[b] = [lru[b] EXCEPT !.Waiters = @ + 1] /\ OnlyBuffer(b)
  BY <1>2, <1>3 DEF OnlyBuffer
<1>5. QED
  BY <1>1, <1>3, <1>4 DEF LRU, SameFlags, SameData, SameLocks, SameMirrors

LEMMA WaitOnBufferEffect ==
  ASSUME TypeInv, NEW u \in Users, WaitOnBuffer(u)
  PROVE  LET b == held[u] IN
         /\ pc[u] = "wait" /\ pc'[u] \in {"search", "idle"} /\ want' = want /\ op' = op
         /\ OnlyUser(u)
         /\ b \in Buffers
         /\ OnlyBuffer(b) /\ SameFlags(lru'[b], lru[b]) /\ SameData(lru'[b], lru[b])
         /\ SameLocks(lru'[b], lru[b]) /\ SameMirrors(lru'[b], lru[b])
         /\ lru'[b].Waiters = lru[b].Waiters /\ lru'[b].Semaphore = lru[b].Semaphore - 1
         /\ UNCHANGED <<LRUDirtyBuffers, ioVars, flush, cb, historyVars>>
<1> DEFINE b == held[u]
<1>1. /\ pc[u] = "wait" /\ pc'[u] \in {"search", "idle"} /\ want' = want /\ op' = op
      /\ OnlyUser(u)
      /\ UNCHANGED <<LRUDirtyBuffers, ioVars, flush, cb, historyVars>>
  BY DEF TypeInv, UsersInv, WaitOnBuffer, Goto, OnlyUser, SameUser, flushVars
<1>2. lru' = [lru EXCEPT ![b] = [lru[b] EXCEPT !.Semaphore = @ - 1]]
  BY DEF WaitOnBuffer
<1>3. b \in Buffers /\ lru \in [Buffers -> LRU] /\ lru[b] \in LRU
  BY <1>1 DEF TypeInv, CacheInv, UsersInv, Known
<1>4. lru'[b] = [lru[b] EXCEPT !.Semaphore = @ - 1] /\ OnlyBuffer(b)
  BY <1>2, <1>3 DEF OnlyBuffer
<1>5. QED
  BY <1>1, <1>3, <1>4 DEF LRU, SameFlags, SameData, SameLocks, SameMirrors

LEMMA MissEffect ==
  ASSUME TypeInv, NEW u \in Users, ReadLRUFill(u) \/ ReadLRUNoFill(u)
  PROVE  /\ pc[u] = "search" /\ want' = want /\ op' = op
         /\ OnlyUser(u)
         /\ \E b \in Buffers :
              /\ held'[u] = b
              /\ \/ /\ pc'[u] = "fill" /\ Took(b, want[u], {"LOADING"}, 0)
                    /\ Queued(b, 1, "read") /\ UNCHANGED unfilled
                 \/ /\ pc'[u] = "hold" /\ op[u] = "overwrite"
                    /\ Took(b, want[u], {"DATAVALID"}, 1)
                    /\ UNCHANGED io /\ unfilled' = unfilled \cup {b}
         /\ UNCHANGED <<LRUDirtyBuffers, io_callback, disk, flush, cb, latest>>
<1>1. /\ pc[u] = "search" /\ want' = want /\ op' = op /\ OnlyUser(u)
      /\ UNCHANGED <<LRUDirtyBuffers, io_callback, disk, flush, cb, latest>>
  BY DEF TypeInv, UsersInv, ReadLRUFill, ReadLRUNoFill, Goto, OnlyUser, SameUser, historyVars,
         ioVars
<1>2. /\ want[u] \in Blocks /\ {"LOADING"} \in SUBSET Flags /\ {"DATAVALID"} \in SUBSET Flags
      /\ 0 \in Int /\ 1 \in Int /\ 1 \in Members /\ SearchHash(want[u]) = {}
  BY <1>1, NumberAssumption DEF TypeInv, UsersInv, Flags, Members, ReadLRUFill, ReadLRUNoFill
<1>3. CASE ReadLRUFill(u)
  <2>1. PICK b \in GetAvailableLRU :
          /\ Assign(b, want[u], {"LOADING"}, 0) /\ Submit(b, 1, "read")
          /\ held' = [held EXCEPT ![u] = b]
    BY <1>3 DEF ReadLRUFill
  <2>2. Took(b, want[u], {"LOADING"}, 0)
    BY <1>2, <2>1, TookFields
  <2>3. b \in Buffers
    BY <2>2 DEF Took
  <2>4. Queued(b, 1, "read")
    BY <1>2, <2>1, <2>3, RequestFields
  <2>5. pc'[u] = "fill" /\ held'[u] = b /\ UNCHANGED unfilled
    BY <1>3, <2>1 DEF ReadLRUFill, Goto, TypeInv, UsersInv, historyVars
  <2>6. QED
    BY <1>1, <2>2, <2>3, <2>4, <2>5
<1>4. CASE ReadLRUNoFill(u)
  <2>1. PICK b \in GetAvailableLRU :
          /\ Assign(b, want[u], {"DATAVALID"}, 1) /\ unfilled' = unfilled \cup {b}
          /\ held' = [held EXCEPT ![u] = b]
    BY <1>4 DEF ReadLRUNoFill
  <2>2. Took(b, want[u], {"DATAVALID"}, 1)
    BY <1>2, <2>1, TookFields
  <2>3. b \in Buffers
    BY <2>2 DEF Took
  <2>4. pc'[u] = "hold" /\ held'[u] = b /\ UNCHANGED io /\ op[u] = "overwrite"
    BY <1>4, <2>1 DEF ReadLRUNoFill, Goto, TypeInv, UsersInv, ioVars
  <2>5. QED
    BY <1>1, <2>1, <2>2, <2>3, <2>4
<1>5. QED
  BY <1>3, <1>4

LEMMA FillEffect ==
  ASSUME TypeInv, NEW u \in Users, FillBlock(u)
  PROVE  LET b == held[u] IN
         /\ pc[u] = "fill" /\ pc'[u] = "hold" /\ held' = held /\ want' = want /\ op' = op
         /\ OnlyUser(u) /\ b \in Buffers
         /\ io[b][1].stage = "moved" /\ Staged(b, 1, "idle")
         /\ OnlyBuffer(b) /\ lru'[b].state = (lru[b].state \ {"LOADING"}) \cup {"DATAVALID"}
         /\ lru'[b].owner = lru[b].owner /\ SameData(lru'[b], lru[b])
         /\ lru'[b].lock_count = lru[b].lock_count + 1 /\ Woken(lru'[b], lru[b])
         /\ SameMirrors(lru'[b], lru[b])
         /\ UNCHANGED <<LRUDirtyBuffers, io_callback, disk, flush, cb, historyVars>>
<1> DEFINE b == held[u]
           q == Loaded(lru[b])
<1>1. /\ pc[u] = "fill" /\ pc'[u] = "hold" /\ held' = held /\ want' = want /\ op' = op
      /\ OnlyUser(u) /\ io[b][1].stage = "moved" /\ SetStage(b, 1, "idle")
      /\ UNCHANGED <<LRUDirtyBuffers, io_callback, disk, flush, cb, historyVars>>
  BY DEF TypeInv, UsersInv, FillBlock, Goto, OnlyUser, SameUser, flushVars, SetStage
<1>2. b \in Buffers /\ lru \in [Buffers -> LRU] /\ lru[b] \in LRU /\ 1 \in Members
  BY <1>1, NumberAssumption DEF TypeInv, CacheInv, UsersInv, Known, Members
<1>3. lru' = [lru EXCEPT ![b] = Taken(q)]
  BY DEF FillBlock
<1>4. lru'[b] = Taken(q) /\ OnlyBuffer(b)
  BY <1>2, <1>3 DEF OnlyBuffer
<1>5. Staged(b, 1, "idle")
  BY <1>1, <1>2, RequestFields
<1>6. /\ q \in LRU /\ q.state = (lru[b].state \ {"LOADING"}) \cup {"DATAVALID"}
      /\ q.owner = lru[b].owner /\ SameData(q, lru[b])
      /\ SameLocks(q, lru[b]) /\ Woken(q, lru[b]) /\ SameMirrors(q, lru[b])
  BY <1>2, LoadFields, OperationTypes
<1> HIDE DEF q
<1>7. /\ SameFlags(Taken(q), q) /\ SameData(Taken(q), q) /\ SameWaiters(Taken(q), q)
      /\ Taken(q).lock_count = q.lock_count + 1 /\ SameMirrors(Taken(q), q)
  BY <1>6, HoldFields
<1>8. /\ lru'[b].state = (lru[b].state \ {"LOADING"}) \cup {"DATAVALID"}
      /\ lru'[b].owner = lru[b].owner /\ SameData(lru'[b], lru[b])
      /\ lru'[b].lock_count = lru[b].lock_count + 1 /\ Woken(lru'[b], lru[b])
      /\ SameMirrors(lru'[b], lru[b])
  BY <1>4, <1>6, <1>7 DEF SameFlags, SameData, SameLocks, SameWaiters, Woken, SameMirrors
<1>9. QED
  BY <1>1, <1>2, <1>4, <1>5, <1>8

LEMMA FillErrorEffect ==
  ASSUME TypeInv, NEW u \in Users, FillBlockError(u)
  PROVE  LET b == held[u] IN
         /\ pc[u] = "fill" /\ pc'[u] = "refill" /\ held' = held /\ want' = want /\ op' = op
         /\ OnlyUser(u) /\ b \in Buffers
         /\ io[b][1].stage = "failed" /\ Staged(b, 1, "idle")
         /\ UNCHANGED <<cacheVars, io_callback, disk, flush, cb, historyVars>>
<1> DEFINE b == held[u]
<1>1. /\ pc[u] = "fill" /\ pc'[u] = "refill" /\ held' = held /\ want' = want /\ op' = op
      /\ OnlyUser(u) /\ io[b][1].stage = "failed" /\ SetStage(b, 1, "idle")
      /\ UNCHANGED <<cacheVars, io_callback, disk, flush, cb, historyVars>>
  BY DEF TypeInv, UsersInv, FillBlockError, Goto, OnlyUser, SameUser, flushVars, SetStage
<1>2. b \in Buffers /\ 1 \in Members
  BY <1>1, NumberAssumption DEF TypeInv, UsersInv, Known, Members
<1>3. Staged(b, 1, "idle")
  BY <1>1, <1>2, RequestFields
<1>4. QED
  BY <1>1, <1>2, <1>3

LEMMA RefillEffect ==
  ASSUME TypeInv, NEW u \in Users, Refill(u)
  PROVE  LET b == held[u] IN
         /\ pc[u] = "refill" /\ pc'[u] = "hold" /\ held' = held /\ want' = want /\ op' = op
         /\ OnlyUser(u) /\ b \in Buffers
         /\ OnlyBuffer(b) /\ lru'[b].state = (lru[b].state \ {"LOADING"}) \cup {"DATAVALID"}
         /\ lru'[b].owner = lru[b].owner /\ lru'[b].block = lru[b].block
         /\ \E m \in Members : lru'[b].buffer = disk[m][lru[b].block]
         /\ lru'[b].lock_count = lru[b].lock_count + 1 /\ Woken(lru'[b], lru[b])
         /\ SameMirrors(lru'[b], lru[b])
         /\ UNCHANGED <<LRUDirtyBuffers, ioVars, flush, cb, historyVars>>
<1> DEFINE b == held[u]
<1>1. /\ pc[u] = "refill" /\ pc'[u] = "hold" /\ held' = held /\ want' = want /\ op' = op
      /\ OnlyUser(u) /\ UNCHANGED <<LRUDirtyBuffers, ioVars, flush, cb, historyVars>>
  BY DEF TypeInv, UsersInv, Refill, Goto, OnlyUser, SameUser, flushVars
<1>2. b \in Buffers /\ lru \in [Buffers -> LRU] /\ lru[b] \in LRU /\ lru[b].block \in Blocks
  BY <1>1 DEF TypeInv, CacheInv, UsersInv, Known
<1>3. PICK m \in Members : lru' = [lru EXCEPT ![b] = Taken(Filled(lru[b], disk[m][lru[b].block]))]
  BY DEF Refill
<1> DEFINE d == disk[m][lru[b].block]
           q == Filled(lru[b], d)
<1>4. lru'[b] = Taken(q) /\ OnlyBuffer(b)
  BY <1>2, <1>3 DEF OnlyBuffer
<1>5. d \in Data
  BY <1>2 DEF TypeInv, DiskInv
<1> HIDE DEF d
<1>6. q \in LRU
  BY <1>2, <1>5, ArgumentTypes
<1>7. /\ SameFlags(q, Loaded(lru[b])) /\ q.block = lru[b].block /\ q.buffer = d
      /\ SameLocks(q, lru[b]) /\ Woken(q, lru[b]) /\ SameMirrors(q, lru[b])
      /\ Loaded(lru[b]).state = (lru[b].state \ {"LOADING"}) \cup {"DATAVALID"}
      /\ Loaded(lru[b]).owner = lru[b].owner
  BY <1>2, <1>5, LoadFields
<1> HIDE DEF q
<1>8. /\ SameFlags(Taken(q), q) /\ SameData(Taken(q), q) /\ SameWaiters(Taken(q), q)
      /\ Taken(q).lock_count = q.lock_count + 1 /\ SameMirrors(Taken(q), q)
  BY <1>6, HoldFields
<1>9. /\ lru'[b].state = (lru[b].state \ {"LOADING"}) \cup {"DATAVALID"}
      /\ lru'[b].owner = lru[b].owner /\ lru'[b].block = lru[b].block /\ lru'[b].buffer = d
      /\ lru'[b].lock_count = lru[b].lock_count + 1 /\ Woken(lru'[b], lru[b])
      /\ SameMirrors(lru'[b], lru[b])
  BY <1>4, <1>7, <1>8 DEF SameFlags, SameData, SameLocks, SameWaiters, Woken, SameMirrors
<1>10. QED
  BY <1>1, <1>2, <1>4, <1>9 DEF d

\* A buffer whose load failed leaves the lists.
FreedTo(q, r) ==
  /\ q.state = {"FREE"} /\ q.owner = (r.owner \ {"LRU", "HASH"}) \cup {"FREE"}
  /\ SameData(q, r) /\ SameLocks(q, r) /\ Woken(q, r) /\ SameMirrors(q, r)

LEMMA RefillErrorEffect ==
  ASSUME TypeInv, NEW u \in Users, RefillError(u)
  PROVE  LET b == held[u] IN
         /\ pc[u] = "refill" /\ pc'[u] = "search" /\ want' = want /\ op' = op
         /\ OnlyUser(u) /\ b \in Buffers
         /\ OnlyBuffer(b) /\ FreedTo(lru'[b], lru[b])
         /\ UNCHANGED <<LRUDirtyBuffers, ioVars, flush, cb, historyVars>>
<1> DEFINE b == held[u]
<1>1. /\ pc[u] = "refill" /\ pc'[u] = "search" /\ want' = want /\ op' = op
      /\ OnlyUser(u) /\ UNCHANGED <<LRUDirtyBuffers, ioVars, flush, cb, historyVars>>
  BY DEF TypeInv, UsersInv, RefillError, Goto, OnlyUser, SameUser, flushVars
<1>2. b \in Buffers /\ lru \in [Buffers -> LRU] /\ lru[b] \in LRU
  BY <1>1 DEF TypeInv, CacheInv, UsersInv, Known
<1>3. lru' = [lru EXCEPT ![b] = Freed(lru[b])]
  BY DEF RefillError
<1>4. lru'[b] = Freed(lru[b]) /\ OnlyBuffer(b)
  BY <1>2, <1>3 DEF OnlyBuffer
<1>5. QED
  BY <1>1, <1>2, <1>4, LoadFields DEF FreedTo

LEMMA CopyInEffect ==
  ASSUME TypeInv, NEW u \in Users, CopyIn(u)
  PROVE  LET b == held[u] IN
         /\ pc[u] = "hold" /\ pc'[u] = "changed" /\ held' = held /\ want' = want /\ op' = op
         /\ OnlyUser(u) /\ b \in Buffers /\ want[u] \in Blocks /\ op[u] # "read"
         /\ OnlyBuffer(b) /\ SameFlags(lru'[b], lru[b]) /\ lru'[b].block = lru[b].block
         /\ lru'[b].buffer = [block |-> want[u], version |-> latest'[want[u]]]
         /\ SameLocks(lru'[b], lru[b]) /\ SameWaiters(lru'[b], lru[b])
         /\ SameMirrors(lru'[b], lru[b])
         /\ latest'[want[u]] = latest[want[u]] + 1
         /\ \A k \in Blocks \ {want[u]} : latest'[k] = latest[k]
         /\ unfilled' = IF op[u] = "overwrite" THEN unfilled \ {b} ELSE unfilled
         /\ UNCHANGED <<LRUDirtyBuffers, ioVars, flush, cb>>
<1> DEFINE b == held[u]
           d == [block |-> want[u], version |-> latest'[want[u]]]
<1>1. /\ pc[u] = "hold" /\ pc'[u] = "changed" /\ held' = held /\ want' = want /\ op' = op
      /\ OnlyUser(u) /\ op[u] # "read"
      /\ unfilled' = IF op[u] = "overwrite" THEN unfilled \ {b} ELSE unfilled
      /\ UNCHANGED <<LRUDirtyBuffers, ioVars, flush, cb>>
  BY DEF TypeInv, UsersInv, CopyIn, Goto, OnlyUser, SameUser, flushVars
<1>2. /\ b \in Buffers /\ lru \in [Buffers -> LRU] /\ lru[b] \in LRU /\ want[u] \in Blocks
      /\ latest \in [Blocks -> Nat]
  BY <1>1 DEF TypeInv, CacheInv, UsersInv, HistoryInv, Known
<1>3. /\ latest'[want[u]] = latest[want[u]] + 1
      /\ \A k \in Blocks \ {want[u]} : latest'[k] = latest[k]
  BY <1>2 DEF CopyIn
<1>4. lru' = [lru EXCEPT ![b] = [lru[b] EXCEPT !.buffer = d]]
  BY DEF CopyIn
<1> HIDE DEF d
<1>5. lru'[b] = [lru[b] EXCEPT !.buffer = d] /\ OnlyBuffer(b)
  BY <1>2, <1>4 DEF OnlyBuffer
<1>6. /\ SameFlags(lru'[b], lru[b]) /\ lru'[b].block = lru[b].block /\ lru'[b].buffer = d
      /\ SameLocks(lru'[b], lru[b]) /\ SameWaiters(lru'[b], lru[b])
      /\ SameMirrors(lru'[b], lru[b])
  BY <1>2, <1>5 DEF LRU, SameFlags, SameLocks, SameWaiters, SameMirrors
<1>7. QED
  BY <1>1, <1>2, <1>3, <1>5, <1>6 DEF d

LEMMA ReleaseEffect ==
  ASSUME TypeInv, NEW u \in Users, ReleaseLRU(u)
  PROVE  LET b == held[u] IN
         /\ pc[u] = "hold" /\ pc'[u] = "idle" /\ want' = want /\ op' = op /\ op[u] = "read"
         /\ OnlyUser(u) /\ b \in Buffers
         /\ OnlyBuffer(b) /\ SameFlags(lru'[b], lru[b]) /\ SameData(lru'[b], lru[b])
         /\ lru'[b].lock_count = lru[b].lock_count - 1 /\ SameWaiters(lru'[b], lru[b])
         /\ SameMirrors(lru'[b], lru[b])
         /\ UNCHANGED <<LRUDirtyBuffers, ioVars, flush, cb, historyVars>>
<1> DEFINE b == held[u]
<1>1. /\ pc[u] = "hold" /\ pc'[u] = "idle" /\ want' = want /\ op' = op /\ op[u] = "read"
      /\ OnlyUser(u) /\ UNCHANGED <<LRUDirtyBuffers, ioVars, flush, cb, historyVars>>
  BY DEF TypeInv, UsersInv, ReleaseLRU, Goto, OnlyUser, SameUser, flushVars
<1>2. b \in Buffers /\ lru \in [Buffers -> LRU] /\ lru[b] \in LRU
  BY <1>1 DEF TypeInv, CacheInv, UsersInv, Known
<1>3. lru' = [lru EXCEPT ![b] = [lru[b] EXCEPT !.lock_count = @ - 1]]
  BY DEF ReleaseLRU
<1>4. lru'[b] = [lru[b] EXCEPT !.lock_count = @ - 1] /\ OnlyBuffer(b)
  BY <1>2, <1>3 DEF OnlyBuffer
<1>5. QED
  BY <1>1, <1>2, <1>4 DEF LRU, SameFlags, SameData, SameWaiters, SameMirrors

\* The dirty buffers: a buffer that is released as changed, and one that is clean again.
Dirtied(b) ==
  /\ lru'[b].owner = lru[b].owner \cup (IF Has(b, "DIRTY") THEN {} ELSE {"DIRTY"})
  /\ lru'[b].state = lru[b].state \cup {"MODIFIED"}
                       \cup (IF Has(b, "DIRTY") \/ "DIRTY" \in lru[b].owner THEN {} ELSE {"DIRTY"})
  /\ LRUDirtyBuffers' = IF Has(b, "DIRTY") \/ "DIRTY" \in lru[b].owner
                        THEN LRUDirtyBuffers ELSE LRUDirtyBuffers + 1

LEMMA ReleaseDirtyEffect ==
  ASSUME TypeInv, NEW u \in Users, ReleaseDirtyLRU(u)
  PROVE  LET b == held[u] IN
         /\ pc[u] = "changed" /\ pc'[u] = "idle" /\ want' = want /\ op' = op
         /\ OnlyUser(u) /\ b \in Buffers
         /\ OnlyBuffer(b) /\ Dirtied(b) /\ SameData(lru'[b], lru[b])
         /\ lru'[b].lock_count = lru[b].lock_count - 1 /\ SameWaiters(lru'[b], lru[b])
         /\ SameMirrors(lru'[b], lru[b])
         /\ UNCHANGED <<ioVars, flush, cb, historyVars>>
<1> DEFINE b == held[u]
           q == Modified(lru[b])
<1>1. /\ pc[u] = "changed" /\ pc'[u] = "idle" /\ want' = want /\ op' = op
      /\ OnlyUser(u) /\ UNCHANGED <<ioVars, flush, cb, historyVars>>
      /\ LRUDirtyBuffers' = IF Has(b, "DIRTY") \/ "DIRTY" \in lru[b].owner
                            THEN LRUDirtyBuffers ELSE LRUDirtyBuffers + 1
  BY DEF TypeInv, UsersInv, ReleaseDirtyLRU, Goto, OnlyUser, SameUser, flushVars
<1>2. b \in Buffers /\ lru \in [Buffers -> LRU] /\ lru[b] \in LRU
  BY <1>1 DEF TypeInv, CacheInv, UsersInv, Known
<1>3. lru' = [lru EXCEPT ![b] = IF Has(b, "DIRTY") THEN q ELSE InsertDirty(q)]
  BY DEF ReleaseDirtyLRU
<1>4. lru'[b] = (IF Has(b, "DIRTY") THEN q ELSE InsertDirty(q)) /\ OnlyBuffer(b)
  BY <1>2, <1>3 DEF OnlyBuffer
<1>5. /\ q \in LRU /\ q.state = lru[b].state \cup {"MODIFIED"} /\ q.owner = lru[b].owner
      /\ SameData(q, lru[b]) /\ SameWaiters(q, lru[b])
      /\ q.lock_count = lru[b].lock_count - 1 /\ SameMirrors(q, lru[b])
  BY <1>2, HoldFields, ArgumentTypes
<1> HIDE DEF q
<1>6. /\ "DIRTY" \in q.owner => InsertDirty(q) = q
      /\ "DIRTY" \notin q.owner =>
              /\ InsertDirty(q).state = q.state \cup {"DIRTY"}
              /\ InsertDirty(q).owner = q.owner \cup {"DIRTY"}
              /\ SameData(InsertDirty(q), q) /\ SameLocks(InsertDirty(q), q)
              /\ SameWaiters(InsertDirty(q), q) /\ SameMirrors(InsertDirty(q), q)
  BY <1>5, HoldFields
<1>7. /\ SameData(lru'[b], lru[b]) /\ SameMirrors(lru'[b], lru[b])
      /\ lru'[b].lock_count = lru[b].lock_count - 1 /\ SameWaiters(lru'[b], lru[b])
  BY <1>4, <1>5, <1>6 DEF SameData, SameLocks, SameWaiters, SameMirrors
<1>8. /\ lru'[b].owner = lru[b].owner \cup (IF Has(b, "DIRTY") THEN {} ELSE {"DIRTY"})
      /\ lru'[b].state = lru[b].state \cup {"MODIFIED"}
                       \cup (IF Has(b, "DIRTY") \/ "DIRTY" \in lru[b].owner THEN {} ELSE {"DIRTY"})
  BY <1>4, <1>5, <1>6 DEF Has
<1>9. QED
  BY <1>1, <1>2, <1>4, <1>7, <1>8 DEF Dirtied

\* The steps of the disks, the interrupts and the callback thread
LEMMA TransferEffect ==
  ASSUME TypeInv, NEW b \in Buffers, NEW c \in Members, Transfer(b, c)
  PROVE  LET r == io[b][c] IN
         /\ r.stage = "queued" /\ r.sector \in Blocks /\ Staged(b, c, "moved")
         /\ \/ /\ r.command = "write" /\ UNCHANGED lru
               /\ \A e \in Members, k \in Blocks :
                    disk'[e][k] = IF e = c /\ k = r.sector THEN lru[b].buffer ELSE disk[e][k]
            \/ /\ r.command # "write" /\ UNCHANGED disk
               /\ OnlyBuffer(b) /\ SameFlags(lru'[b], lru[b]) /\ lru'[b].block = lru[b].block
               /\ \E m \in Members : lru'[b].buffer = disk[m][r.sector]
               /\ SameLocks(lru'[b], lru[b]) /\ SameWaiters(lru'[b], lru[b])
               /\ SameMirrors(lru'[b], lru[b])
         /\ SameUsers /\ UNCHANGED <<LRUDirtyBuffers, io_callback, flush, cb, historyVars>>
<1> DEFINE r == io[b][c]
<1>1. /\ r.stage = "queued" /\ SetStage(b, c, "moved")
      /\ SameUsers /\ UNCHANGED <<LRUDirtyBuffers, io_callback, flush, cb, historyVars>>
  BY DEF Transfer, SameUsers, userVars, flushVars
<1>2. /\ lru \in [Buffers -> LRU] /\ lru[b] \in LRU /\ r.sector \in Blocks
      /\ disk \in [Members -> [Blocks -> Data]]
  BY <1>1 DEF TypeInv, CacheInv, IoInv, DiskInv
<1>3. Staged(b, c, "moved")
  BY <1>1, RequestFields
<1>4. CASE r.command = "write"
  <2>1. UNCHANGED lru /\ disk' = [disk EXCEPT ![c] = [disk[c] EXCEPT ![r.sector] = lru[b].buffer]]
    BY <1>4 DEF Transfer
  <2>2. \A e \in Members, k \in Blocks :
          disk'[e][k] = IF e = c /\ k = r.sector THEN lru[b].buffer ELSE disk[e][k]
    BY <1>2, <2>1
  <2>3. QED
    BY <1>1, <1>2, <1>3, <1>4, <2>1, <2>2
<1>5. CASE r.command # "write"
  <2>1. PICK m \in Members :
          UNCHANGED disk /\ lru' = [lru EXCEPT ![b] = [lru[b] EXCEPT !.buffer = disk[m][r.sector]]]
    BY <1>5 DEF Transfer
  <2>2. lru'[b] = [lru[b] EXCEPT !.buffer = disk[m][r.sector]] /\ OnlyBuffer(b)
    BY <1>2, <2>1 DEF OnlyBuffer
  <2>3. /\ SameFlags(lru'[b], lru[b]) /\ lru'[b].block = lru[b].block
        /\ lru'[b].buffer = disk[m][r.sector]
        /\ SameLocks(lru'[b], lru[b]) /\ SameWaiters(lru'[b], lru[b])
        /\ SameMirrors(lru'[b], lru[b])
    BY <1>2, <2>2 DEF LRU, SameFlags, SameLocks, SameWaiters, SameMirrors
  <2>4. QED
    BY <1>1, <1>2, <1>3, <1>5, <2>1, <2>2, <2>3
<1>6. QED
  BY <1>4, <1>5

LEMMA TransferErrorEffect ==
  ASSUME TypeInv, NEW b \in Buffers, NEW c \in Members, TransferError(b, c)
  PROVE  /\ io[b][c].stage = "queued" /\ Staged(b, c, "failed")
         /\ io[b][c].command = "write" => WriteErrors
         /\ SameUsers
         /\ UNCHANGED <<cacheVars, io_callback, disk, flush, cb, historyVars>>
BY RequestFields DEF TransferError, SameUsers, userVars, flushVars

\* The callback list gets shorter by n entries at its head, and an entry e at its end.
Shifted(n) == \A i \in DOMAIN io_callback' :
                i + n \in DOMAIN io_callback /\ io_callback'[i] = io_callback[i + n]
Appended(b, command) == \A i \in DOMAIN io_callback' :
  \/ i \in DOMAIN io_callback /\ io_callback'[i] = io_callback[i]
  \/ i \notin DOMAIN io_callback /\ i = Len(io_callback) + 1
     /\ io_callback'[i] = [lru |-> b, command |-> command]

LEMMA CallbackFields ==
  ASSUME CallbackInv
  PROVE  /\ \A b \in Buffers, command \in {"ahead", "write"} :
              io_callback' = Append(io_callback, [lru |-> b, command |-> command])
                => Appended(b, command)
         /\ io_callback # <<>> /\ io_callback' = Tail(io_callback) =>
              /\ 1 \in DOMAIN io_callback /\ Head(io_callback) = io_callback[1]
              /\ Head(io_callback).lru \in Buffers
              /\ Shifted(1)
         /\ UNCHANGED io_callback => Shifted(0)
<1> DEFINE R == [lru : Buffers, command : {"ahead", "write"}]
<1>1. io_callback \in Seq(R)
  BY DEF CallbackInv
<1>2. ASSUME NEW b \in Buffers, NEW command \in {"ahead", "write"},
             io_callback' = Append(io_callback, [lru |-> b, command |-> command])
      PROVE  Appended(b, command)
  <2> DEFINE e == [lru |-> b, command |-> command]
  <2>1. e \in R
    OBVIOUS
  <2> HIDE DEF e, R
  <2>2. Appended(b, command)
    <3>1. \A i \in DOMAIN io_callback' :
            \/ i \in DOMAIN io_callback /\ io_callback'[i] = io_callback[i]
            \/ i \notin DOMAIN io_callback /\ i = Len(io_callback) + 1 /\ io_callback'[i] = e
      BY <1>1, <1>2, <2>1, AppendProperties DEF e
    <3>2. QED
      BY <3>1 DEF Appended, e
  <2>3. QED
    BY <2>2
<1>3. ASSUME io_callback # <<>>, io_callback' = Tail(io_callback)
      PROVE  /\ 1 \in DOMAIN io_callback /\ Head(io_callback) = io_callback[1]
             /\ Head(io_callback).lru \in Buffers
             /\ Shifted(1)
  <2> HIDE DEF R
  <2>1. /\ 1 \in DOMAIN io_callback /\ Head(io_callback) = io_callback[1]
        /\ io_callback[1] \in R
    <3>1. io_callback \in Seq(R) /\ Len(io_callback) # 0
      BY <1>1, <1>3, EmptySeq
    <3>2. QED
      BY <3>1
  <2>2. Head(io_callback).lru \in Buffers
    BY <2>1 DEF R
  <2>3. Shifted(1)
    <3>1. /\ DOMAIN io_callback = 1..Len(io_callback) /\ Len(io_callback) \in Nat
          /\ DOMAIN Tail(io_callback) = 1..Len(Tail(io_callback))
      BY <1>1, <1>3, HeadTailProperties
    <3>2. /\ Len(Tail(io_callback)) = Len(io_callback) - 1
          /\ \A i \in 1..Len(Tail(io_callback)) : Tail(io_callback)[i] = io_callback[i + 1]
      BY <1>1, <1>3, HeadTailProperties
    <3>3. QED
      BY <1>3, <3>1, <3>2 DEF Shifted
  <2>4. QED
    BY <2>1, <2>2, <2>3
<1>4. UNCHANGED io_callback => Shifted(0)
  BY <1>1 DEF Shifted
<1>5. QED
  BY <1>2, <1>3, <1>4

LEMMA AheadEffect ==
  ASSUME TypeInv, NEW b \in Buffers, ReleaseAsynchReadAhead(b)
  PROVE  /\ io[b][1].command = "ahead" /\ Staged(b, 1, "idle")
         /\ \/ /\ io[b][1].stage = "moved" /\ UNCHANGED io_callback
               /\ OnlyBuffer(b) /\ lru'[b].state = (lru[b].state \ {"LOADING"}) \cup {"DATAVALID"}
               /\ lru'[b].owner = lru[b].owner /\ SameData(lru'[b], lru[b])
               /\ SameLocks(lru'[b], lru[b]) /\ Woken(lru'[b], lru[b])
               /\ SameMirrors(lru'[b], lru[b])
            \/ io[b][1].stage = "failed" /\ Appended(b, "ahead") /\ UNCHANGED lru
         /\ SameUsers /\ UNCHANGED <<LRUDirtyBuffers, disk, flush, cb, historyVars>>
<1>1. /\ io[b][1].command = "ahead" /\ SetStage(b, 1, "idle")
      /\ SameUsers /\ UNCHANGED <<LRUDirtyBuffers, disk, flush, cb, historyVars>>
  BY DEF ReleaseAsynchReadAhead, SameUsers, userVars, flushVars
<1>2. Staged(b, 1, "idle")
  BY <1>1, RequestFields, NumberAssumption DEF Members
<1>3. CASE io[b][1].stage = "moved"
  <2>1. lru \in [Buffers -> LRU] /\ lru[b] \in LRU
    BY DEF TypeInv, CacheInv
  <2>2. UNCHANGED io_callback /\ lru' = [lru EXCEPT ![b] = Loaded(lru[b])]
    BY <1>3 DEF ReleaseAsynchReadAhead
  <2>3. lru'[b] = Loaded(lru[b]) /\ OnlyBuffer(b)
    BY <2>1, <2>2 DEF OnlyBuffer
  <2>4. QED
    BY <1>1, <1>2, <1>3, <2>1, <2>2, <2>3, LoadFields
<1>4. CASE io[b][1].stage # "moved"
  <2>1. /\ io[b][1].stage = "failed" /\ UNCHANGED lru
        /\ io_callback' = Append(io_callback, [lru |-> b, command |-> "ahead"])
    BY <1>4 DEF ReleaseAsynchReadAhead
  <2>2. Appended(b, "ahead")
    BY <2>1, CallbackFields DEF TypeInv
  <2>3. QED
    BY <1>1, <1>2, <1>4, <2>1, <2>2
<1>5. QED
  BY <1>3, <1>4

\* A write of buffer b makes progress: it is over (done), and the buffer is clean.
Cleaned(b, done, clean) ==
  /\ lru'[b].state = (lru[b].state \ (IF done THEN {"FLUSHING"} ELSE {}))
                       \ (IF clean THEN {"DIRTY"} ELSE {})
  /\ lru'[b].owner = lru[b].owner \ (IF clean THEN {"DIRTY"} ELSE {})
  /\ LRUDirtyBuffers' = IF clean THEN LessDirty(LRUDirtyBuffers) ELSE LRUDirtyBuffers

LEMMA WriteAioEffect ==
  ASSUME TypeInv, NEW b \in Buffers, NEW c \in Members, ReleaseWriteAio(b, c)
  PROVE  LET err == lru[b].aio_ccode \/ io[b][c].stage = "failed"
             last == lru[b].mirrors_completed + 1 = Mirrors
         IN
         /\ io[b][c].command = "write" /\ io[b][c].stage \in {"moved", "failed"}
         /\ Staged(b, c, "idle")
         /\ OnlyBuffer(b) /\ Cleaned(b, last, last /\ ~err /\ ~Has(b, "MODIFIED"))
         /\ SameData(lru'[b], lru[b]) /\ SameLocks(lru'[b], lru[b])
         /\ SameWaiters(lru'[b], lru[b])
         /\ lru'[b].mirrors_completed = lru[b].mirrors_completed + 1
         /\ lru'[b].aio_ccode = err
         /\ IF last /\ err THEN Appended(b, "write") ELSE UNCHANGED io_callback
         /\ SameUsers /\ UNCHANGED <<disk, flush, cb, historyVars>>
<1> DEFINE err == lru[b].aio_ccode \/ io[b][c].stage = "failed"
           last == lru[b].mirrors_completed + 1 = Mirrors
           clean == last /\ ~err /\ ~Has(b, "MODIFIED")
           p == Counted(lru[b], err)
           r == IF last THEN EndFlush(p) ELSE p
           q == IF clean THEN RemoveDirty(r) ELSE r
<1>1. /\ io[b][c].command = "write" /\ io[b][c].stage \in {"moved", "failed"}
      /\ SetStage(b, c, "idle") /\ lru' = [lru EXCEPT ![b] = q]
      /\ LRUDirtyBuffers' = IF clean THEN LessDirty(LRUDirtyBuffers) ELSE LRUDirtyBuffers
      /\ SameUsers /\ UNCHANGED <<disk, flush, cb, historyVars>>
      /\ io_callback' = IF last /\ err
                       THEN Append(io_callback, [lru |-> b, command |-> "write"])
                       ELSE io_callback
  BY DEF ReleaseWriteAio, SameUsers, userVars, flushVars, Clean, Has
<1>2. lru \in [Buffers -> LRU] /\ lru[b] \in LRU
  BY DEF TypeInv, CacheInv
<1>3. Staged(b, c, "idle")
  BY <1>1, RequestFields
<1>4. IF last /\ err THEN Appended(b, "write") ELSE UNCHANGED io_callback
  BY <1>1, CallbackFields DEF TypeInv
<1>5. err \in BOOLEAN
  BY <1>2 DEF LRU
<1>6. /\ SameFlags(p, lru[b]) /\ SameData(p, lru[b])
      /\ SameLocks(p, lru[b]) /\ SameWaiters(p, lru[b])
      /\ p.mirrors_completed = lru[b].mirrors_completed + 1 /\ p.aio_ccode = err
      /\ p \in LRU
  <2> HIDE DEF err
  <2>1. QED
    BY <1>2, <1>5, FlushFields, ArgumentTypes
<1> HIDE DEF err, last, p
<1>7. /\ SameData(r, p) /\ SameLocks(r, p) /\ SameWaiters(r, p) /\ SameMirrors(r, p)
      /\ r.state = (p.state \ (IF last THEN {"FLUSHING"} ELSE {})) /\ r.owner = p.owner
      /\ r \in LRU
  <2>1. /\ EndFlush(p) \in LRU /\ EndFlush(p).owner = p.owner
        /\ EndFlush(p).state = p.state \ {"FLUSHING"}
        /\ SameData(EndFlush(p), p) /\ SameLocks(EndFlush(p), p)
        /\ SameWaiters(EndFlush(p), p) /\ SameMirrors(EndFlush(p), p)
    BY <1>6, FlushFields, OperationTypes
  <2>2. CASE last
    BY <1>6, <2>1, <2>2
  <2>3. CASE ~last
    BY <1>6, <2>3 DEF SameData, SameLocks, SameWaiters, SameMirrors
  <2>4. QED
    BY <2>2, <2>3
<1> HIDE DEF r, clean
<1>8. /\ SameData(q, r) /\ SameLocks(q, r) /\ SameWaiters(q, r) /\ SameMirrors(q, r)
      /\ q.state = r.state \ (IF clean THEN {"DIRTY"} ELSE {})
      /\ q.owner = r.owner \ (IF clean THEN {"DIRTY"} ELSE {})
  <2>1. /\ RemoveDirty(r).owner = r.owner \ {"DIRTY"}
        /\ RemoveDirty(r).state = r.state \ {"DIRTY"}
        /\ SameData(RemoveDirty(r), r) /\ SameLocks(RemoveDirty(r), r)
        /\ SameWaiters(RemoveDirty(r), r) /\ SameMirrors(RemoveDirty(r), r)
    BY <1>7, FlushFields
  <2>2. CASE clean
    BY <2>1, <2>2
  <2>3. CASE ~clean
    BY <2>3 DEF SameData, SameLocks, SameWaiters, SameMirrors
  <2>4. QED
    BY <2>2, <2>3
<1> HIDE DEF q
<1>9. lru'[b] = q /\ OnlyBuffer(b)
  BY <1>1, <1>2 DEF OnlyBuffer
<1>10. /\ SameData(q, lru[b]) /\ SameLocks(q, lru[b]) /\ SameWaiters(q, lru[b])
       /\ q.mirrors_completed = lru[b].mirrors_completed + 1 /\ q.aio_ccode = err
       /\ q.state = (lru[b].state \ (IF last THEN {"FLUSHING"} ELSE {}))
                      \ (IF clean THEN {"DIRTY"} ELSE {})
       /\ q.owner = lru[b].owner \ (IF clean THEN {"DIRTY"} ELSE {})
  BY <1>6, <1>7, <1>8 DEF SameFlags, SameData, SameLocks, SameWaiters, SameMirrors
<1>11. Cleaned(b, last, clean)
  BY <1>1, <1>9, <1>10 DEF Cleaned
<1>12. QED
  BY <1>1, <1>3, <1>4, <1>9, <1>10, <1>11 DEF err, last, clean

LEMMA RetryAheadEffect ==
  ASSUME TypeInv, RetryAsynchReadAhead
  PROVE  LET b == io_callback[1].lru IN
         /\ 1 \in DOMAIN io_callback /\ io_callback[1].command = "ahead" /\ b \in Buffers
         /\ Shifted(1) /\ OnlyBuffer(b)
         /\ \/ /\ lru'[b].state = (lru[b].state \ {"LOADING"}) \cup {"DATAVALID"}
               /\ lru'[b].owner = lru[b].owner /\ lru'[b].block = lru[b].block
               /\ \E m \in Members : lru'[b].buffer = disk[m][lru[b].block]
               /\ SameLocks(lru'[b], lru[b]) /\ Woken(lru'[b], lru[b])
               /\ SameMirrors(lru'[b], lru[b])
            \/ FreedTo(lru'[b], lru[b])
         /\ SameUsers /\ UNCHANGED <<LRUDirtyBuffers, io, disk, flush, cb, historyVars>>
<1> DEFINE b == io_callback[1].lru
<1>1. /\ io_callback # <<>> /\ io_callback' = Tail(io_callback)
      /\ Head(io_callback).command = "ahead"
      /\ SameUsers /\ UNCHANGED <<LRUDirtyBuffers, io, disk, flush, cb, historyVars>>
  BY DEF RetryAsynchReadAhead, SameUsers, userVars, flushVars
<1>2. /\ 1 \in DOMAIN io_callback /\ Head(io_callback) = io_callback[1]
      /\ b \in Buffers /\ Shifted(1)
  BY <1>1, CallbackFields DEF TypeInv
<1>3. lru \in [Buffers -> LRU] /\ lru[b] \in LRU /\ lru[b].block \in Blocks
  BY <1>2 DEF TypeInv, CacheInv, CallbackInv, Known
<1>4. \/ \E m \in Members : lru' = [lru EXCEPT ![b] = Filled(lru[b], disk[m][lru[b].block])]
      \/ lru' = [lru EXCEPT ![b] = Freed(lru[b])]
  BY <1>2 DEF RetryAsynchReadAhead
<1>5. CASE \E m \in Members : lru' = [lru EXCEPT ![b] = Filled(lru[b], disk[m][lru[b].block])]
  <2>1. PICK m \in Members : lru' = [lru EXCEPT ![b] = Filled(lru[b], disk[m][lru[b].block])]
    BY <1>5
  <2> DEFINE d == disk[m][lru[b].block]
             q == Filled(lru[b], d)
  <2>2. d \in Data
    BY <1>3 DEF TypeInv, DiskInv
  <2> HIDE DEF d
  <2>3. /\ SameFlags(q, Loaded(lru[b])) /\ q.block = lru[b].block /\ q.buffer = d
        /\ SameLocks(q, lru[b]) /\ Woken(q, lru[b]) /\ SameMirrors(q, lru[b])
        /\ Loaded(lru[b]).state = (lru[b].state \ {"LOADING"}) \cup {"DATAVALID"}
        /\ Loaded(lru[b]).owner = lru[b].owner
    BY <1>3, <2>2, LoadFields
  <2>4. lru' = [lru EXCEPT ![b] = q]
    BY <2>1 DEF d
  <2> HIDE DEF q
  <2>5. lru'[b] = q /\ OnlyBuffer(b)
    BY <1>2, <1>3, <2>4 DEF OnlyBuffer
  <2>6. /\ lru'[b].state = (lru[b].state \ {"LOADING"}) \cup {"DATAVALID"}
        /\ lru'[b].owner = lru[b].owner /\ lru'[b].block = lru[b].block /\ lru'[b].buffer = d
        /\ SameLocks(lru'[b], lru[b]) /\ Woken(lru'[b], lru[b]) /\ SameMirrors(lru'[b], lru[b])
    BY <2>3, <2>5 DEF SameFlags
  <2>7. \E n \in Members : lru'[b].buffer = disk[n][lru[b].block]
    BY <2>6 DEF d
  <2>8. QED
    BY <1>1, <1>2, <2>5, <2>6, <2>7
<1>6. CASE lru' = [lru EXCEPT ![b] = Freed(lru[b])]
  <2>1. lru'[b] = Freed(lru[b]) /\ OnlyBuffer(b)
    BY <1>2, <1>3, <1>6 DEF OnlyBuffer
  <2>2. FreedTo(lru'[b], lru[b])
    BY <1>3, <2>1, LoadFields DEF FreedTo
  <2>3. QED
    BY <1>1, <1>2, <2>1, <2>2
<1>7. QED
  BY <1>4, <1>5, <1>6

LEMMA RetryWriteEffect ==
  ASSUME TypeInv, RetryWriteAio
  PROVE  LET b == io_callback[1].lru IN
         /\ cb.stage = "down"
         /\ 1 \in DOMAIN io_callback /\ io_callback[1].command = "write" /\ b \in Buffers
         /\ Shifted(1) /\ cb'.stage # "down" /\ cb'.lru = b
         /\ SameUsers /\ UNCHANGED <<cacheVars, io, flush, historyVars>>
<1> DEFINE b == io_callback[1].lru
<1>1. /\ cb.stage = "down" /\ io_callback # <<>> /\ io_callback' = Tail(io_callback)
      /\ Head(io_callback).command = "write"
      /\ cb'.stage # "down" /\ cb'.lru = Head(io_callback).lru
      /\ SameUsers /\ UNCHANGED <<cacheVars, io, flush, historyVars>>
  BY DEF RetryWriteAio, SameUsers, userVars, flushVars
<1>2. /\ 1 \in DOMAIN io_callback /\ Head(io_callback) = io_callback[1]
      /\ b \in Buffers /\ Shifted(1)
  BY <1>1, CallbackFields DEF TypeInv
<1>3. QED
  BY <1>1, <1>2

LEMMA RetryDoneEffect ==
  ASSUME TypeInv, RetryWriteAioDone
  PROVE  LET b == cb.lru IN
         /\ cb.stage # "down" /\ cb'.stage = "down" /\ b \in Buffers /\ OnlyBuffer(b)
         /\ Cleaned(b, TRUE, cb.stage # "error" /\ ~Has(b, "MODIFIED"))
         /\ SameData(lru'[b], lru[b]) /\ SameLocks(lru'[b], lru[b])
         /\ SameWaiters(lru'[b], lru[b]) /\ SameMirrors(lru'[b], lru[b])
         /\ SameUsers /\ UNCHANGED <<ioVars, flush, historyVars>>
<1> DEFINE b == cb.lru
           r == EndFlush(lru[b])
           clean == cb.stage # "error" /\ ~Has(b, "MODIFIED")
           q == IF clean THEN RemoveDirty(r) ELSE r
<1>1. /\ cb.stage # "down" /\ cb'.stage = "down"
      /\ SameUsers /\ UNCHANGED <<ioVars, flush, historyVars>>
  BY DEF RetryWriteAioDone, SameUsers, userVars, flushVars
<1>2. b \in Buffers /\ lru \in [Buffers -> LRU] /\ lru[b] \in LRU
  BY <1>1 DEF TypeInv, CacheInv, CallbackInv, Known
<1>3. /\ SameData(r, lru[b]) /\ SameLocks(r, lru[b]) /\ SameWaiters(r, lru[b])
      /\ SameMirrors(r, lru[b])
      /\ r.state = lru[b].state \ {"FLUSHING"} /\ r.owner = lru[b].owner /\ r \in LRU
  BY <1>2, FlushFields, OperationTypes
<1>4. /\ lru' = [lru EXCEPT ![b] = q]
      /\ LRUDirtyBuffers' = IF clean THEN LessDirty(LRUDirtyBuffers) ELSE LRUDirtyBuffers
  BY <1>3 DEF RetryWriteAioDone, Clean, Has
<1> HIDE DEF r, clean
<1>5. /\ SameData(q, r) /\ SameLocks(q, r) /\ SameWaiters(q, r) /\ SameMirrors(q, r)
      /\ q.state = r.state \ (IF clean THEN {"DIRTY"} ELSE {})
      /\ q.owner = r.owner \ (IF clean THEN {"DIRTY"} ELSE {})
  <2>1. /\ RemoveDirty(r).owner = r.owner \ {"DIRTY"}
        /\ RemoveDirty(r).state = r.state \ {"DIRTY"}
        /\ SameData(RemoveDirty(r), r) /\ SameLocks(RemoveDirty(r), r)
        /\ SameWaiters(RemoveDirty(r), r) /\ SameMirrors(RemoveDirty(r), r)
    BY <1>3, FlushFields
  <2>2. CASE clean
    BY <2>1, <2>2
  <2>3. CASE ~clean
    BY <2>3 DEF SameData, SameLocks, SameWaiters, SameMirrors
  <2>4. QED
    BY <2>2, <2>3
<1> HIDE DEF q
<1>6. lru'[b] = q /\ OnlyBuffer(b)
  BY <1>2, <1>4 DEF OnlyBuffer
<1>7. /\ SameData(q, lru[b]) /\ SameLocks(q, lru[b]) /\ SameWaiters(q, lru[b])
      /\ SameMirrors(q, lru[b]) /\ Cleaned(b, TRUE, clean)
  BY <1>3, <1>4, <1>5, <1>6 DEF Cleaned, SameData, SameLocks, SameWaiters, SameMirrors
<1>8. QED
  BY <1>1, <1>2, <1>6, <1>7 DEF clean

\* The steps of nwfs-flush and of the clock
FlushBegins(b) ==
  /\ Eligible(b) /\ OnlyBuffer(b)
  /\ lru'[b].state = (lru[b].state \cup {"FLUSHING"}) \ {"MODIFIED"}
  /\ lru'[b].owner = lru[b].owner /\ SameData(lru'[b], lru[b]) /\ SameLocks(lru'[b], lru[b])
  /\ SameWaiters(lru'[b], lru[b]) /\ SameMirrors(lru'[b], lru[b])
  /\ flush'.pc = "insert" /\ flush'.lru = b /\ flush'.i = 1
WalkEnds == UNCHANGED lru /\ flush'.pc = "reset" /\ flush'.lru = NoBuffer

LEMMA WalkEffect ==
  ASSUME TypeInv, NEW a, NEW active, WalkFrom(a, active)
  PROVE  WalkEnds \/ \E b \in Buffers : FlushBegins(b)
<1> DEFINE rest == {i \in DOMAIN ListHead :
                      \E j \in 1..i : ListHead[j] = a /\ Eligible(ListHead[i])}
<1>1. CASE rest = {}
  BY <1>1 DEF WalkFrom, WalkEnds
<1>2. CASE rest # {}
  <2> HIDE DEF rest
  <2>1. PICK i \in rest :
          /\ lru' = [lru EXCEPT ![ListHead[i]] = BeginFlush(lru[ListHead[i]])]
          /\ flush' = [pc |-> "insert", lru |-> ListHead[i], i |-> 1,
                       list |-> IF i = Len(ListHead) THEN NoBuffer ELSE ListHead[i + 1]]
    BY <1>2 DEF WalkFrom, rest
  <2> DEFINE b == ListHead[i]
  <2>2. /\ b \in Buffers /\ Eligible(b) /\ lru \in [Buffers -> LRU] /\ lru[b] \in LRU
    BY <2>1 DEF TypeInv, CacheInv, Known, rest
  <2>3. lru'[b] = BeginFlush(lru[b]) /\ OnlyBuffer(b)
    BY <2>1, <2>2 DEF OnlyBuffer
  <2>4. flush'.pc = "insert" /\ flush'.lru = b /\ flush'.i = 1
    BY <2>1
  <2> HIDE DEF b
  <2>5. /\ BeginFlush(lru[b]).state = (lru[b].state \cup {"FLUSHING"}) \ {"MODIFIED"}
        /\ BeginFlush(lru[b]).owner = lru[b].owner
        /\ SameData(BeginFlush(lru[b]), lru[b]) /\ SameLocks(BeginFlush(lru[b]), lru[b])
        /\ SameWaiters(BeginFlush(lru[b]), lru[b]) /\ SameMirrors(BeginFlush(lru[b]), lru[b])
    BY <2>2, FlushFields
  <2>6. FlushBegins(b)
    BY <2>2, <2>3, <2>4, <2>5 DEF FlushBegins
  <2>7. QED
    BY <2>2, <2>6
<1>3. QED
  BY <1>1, <1>2

LEMMA InsertEffect ==
  ASSUME TypeInv, FlushInsert
  PROVE  LET b == flush.lru IN
         /\ flush.pc = "insert" /\ b \in Buffers /\ flush.i \in Members
         /\ Queued(b, flush.i, "write")
         /\ OnlyBuffer(b) /\ SameFlags(lru'[b], lru[b]) /\ SameData(lru'[b], lru[b])
         /\ SameLocks(lru'[b], lru[b]) /\ SameWaiters(lru'[b], lru[b])
         /\ flush.i = 1 => lru'[b].mirrors_completed = 0 /\ lru'[b].aio_ccode = FALSE
         /\ flush.i # 1 => SameMirrors(lru'[b], lru[b])
         /\ flush'.pc = "relock" /\ flush'.lru = b /\ flush'.i = flush.i
         /\ SameUsers /\ UNCHANGED <<LRUDirtyBuffers, io_callback, disk, cb, historyVars>>
<1> DEFINE b == flush.lru
<1>1. /\ flush.pc = "insert" /\ Submit(b, flush.i, "write")
      /\ SameUsers /\ UNCHANGED <<LRUDirtyBuffers, io_callback, disk, cb, historyVars>>
      /\ lru' = IF flush.i = 1 THEN [lru EXCEPT ![b] = Uncounted(lru[b])] ELSE lru
      /\ flush' = [flush EXCEPT !.pc = "relock"]
  BY DEF FlushInsert, SameUsers, userVars
<1>2. /\ b \in Buffers /\ flush.i \in Members /\ lru \in [Buffers -> LRU] /\ lru[b] \in LRU
      /\ flush'.pc = "relock" /\ flush'.lru = b /\ flush'.i = flush.i
  BY <1>1 DEF TypeInv, CacheInv, FlushInv, Known
<1>3. Queued(b, flush.i, "write")
  BY <1>1, <1>2, RequestFields
<1>4. lru'[b] = (IF flush.i = 1 THEN Uncounted(lru[b]) ELSE lru[b]) /\ OnlyBuffer(b)
  BY <1>1, <1>2 DEF OnlyBuffer
<1>5. /\ SameFlags(Uncounted(lru[b]), lru[b]) /\ SameData(Uncounted(lru[b]), lru[b])
      /\ SameLocks(Uncounted(lru[b]), lru[b]) /\ SameWaiters(Uncounted(lru[b]), lru[b])
      /\ Uncounted(lru[b]).mirrors_completed = 0 /\ Uncounted(lru[b]).aio_ccode = FALSE
  BY <1>2, FlushFields
<1>6. CASE flush.i = 1
  BY <1>1, <1>2, <1>3, <1>4, <1>5, <1>6
<1>7. CASE flush.i # 1
  BY <1>1, <1>2, <1>3, <1>4, <1>7 DEF SameFlags, SameData, SameLocks, SameWaiters, SameMirrors
<1>8. QED
  BY <1>6, <1>7

LEMMA RelockEffect ==
  ASSUME TypeInv, FlushRelock
  PROVE  /\ flush.pc = "relock" /\ flush.lru \in Buffers /\ flush.i \in Members
         /\ \/ /\ flush.i < Mirrors /\ UNCHANGED lru
               /\ flush'.pc = "insert" /\ flush'.lru = flush.lru /\ flush'.i = flush.i + 1
            \/ flush.i = Mirrors /\ (WalkEnds \/ \E b \in Buffers : FlushBegins(b))
         /\ SameUsers
         /\ UNCHANGED <<LRUDirtyBuffers, ioVars, cb, historyVars>>
<1>1. /\ flush.pc = "relock" /\ SameUsers
      /\ UNCHANGED <<LRUDirtyBuffers, ioVars, cb, historyVars>>
  BY DEF FlushRelock, SameUsers, userVars
<1>2. flush.lru \in Buffers /\ flush.i \in Members /\ Mirrors \in Nat
  BY <1>1, NumberAssumption DEF TypeInv, FlushInv, Known
<1>3. CASE flush.i < Mirrors
  <2>1. UNCHANGED lru /\ flush' = [flush EXCEPT !.pc = "insert", !.i = @ + 1]
    BY <1>3 DEF FlushRelock
  <2>2. flush'.pc = "insert" /\ flush'.lru = flush.lru /\ flush'.i = flush.i + 1
    BY <2>1 DEF TypeInv, FlushInv
  <2>3. QED
    BY <1>1, <1>2, <1>3, <2>1, <2>2
<1>4. CASE ~(flush.i < Mirrors)
  <2>1. flush.i = Mirrors
    BY <1>2, <1>4 DEF Members
  <2>2. WalkFrom(flush.list, lru_active)
    BY <1>4 DEF FlushRelock
  <2>3. QED
    BY <1>1, <1>2, <2>1, <2>2, WalkEffect
<1>5. QED
  BY <1>3, <1>4

LEMMA StartEffect ==
  ASSUME TypeInv, FlushStart
  PROVE  /\ flush.pc = "start" /\ (WalkEnds \/ \E b \in Buffers : FlushBegins(b))
         /\ SameUsers /\ UNCHANGED <<LRUDirtyBuffers, ioVars, cb, historyVars>>
<1>1. /\ flush.pc = "start" /\ SameUsers
      /\ UNCHANGED <<LRUDirtyBuffers, ioVars, cb, historyVars>>
  BY DEF FlushStart, SameUsers, userVars
<1>2. WalkFrom(IF ListHead = <<>> THEN NoBuffer ELSE Head(ListHead), TRUE)
  BY DEF FlushStart
<1>3. QED
  BY <1>1, <1>2, WalkEffect

\* The steps that only concern the signals of nwfs-flush and the age of buffers
Writes == flush.pc \in {"insert", "relock"}
Untouched ==
  \A b \in Buffers :
    /\ SameFlags(lru'[b], lru[b]) /\ SameData(lru'[b], lru[b]) /\ SameLocks(lru'[b], lru[b])
    /\ SameWaiters(lru'[b], lru[b]) /\ SameMirrors(lru'[b], lru[b])
Signals == LRUTimer \/ Age \/ FlushWake \/ FlushReset \/ UNCHANGED vars
             \/ \E u \in Users : ReadLRUNone(u)

LEMMA SignalEffect ==
  ASSUME TypeInv, Signals
  PROVE  /\ Untouched /\ SameUsers /\ UNCHANGED <<LRUDirtyBuffers, ioVars, cb, historyVars>>
         /\ UNCHANGED flush \/ (~Writes /\ ~Writes')
<1>1. /\ SameUsers /\ UNCHANGED <<LRUDirtyBuffers, ioVars, cb, historyVars>>
  BY DEF Signals, LRUTimer, Age, FlushWake, FlushReset, ReadLRUNone, SameUsers, userVars, vars,
         cacheVars
<1>2. UNCHANGED flush \/ (~Writes /\ ~Writes')
  BY DEF Signals, LRUTimer, Age, FlushWake, FlushReset, ReadLRUNone, flushVars, vars, Writes,
         TypeInv, FlushInv
<1>3. CASE UNCHANGED lru
  BY <1>1, <1>2, <1>3 DEF Untouched, SameFlags, SameData, SameLocks, SameWaiters, SameMirrors
<1>4. CASE Age
  <2>1. \A b \in Buffers : lru[b] \in LRU /\ lru'[b] = [lru[b] EXCEPT !.aged = TRUE]
    BY <1>4 DEF Age, TypeInv, CacheInv
  <2>2. Untouched
    BY <2>1 DEF LRU, Untouched, SameFlags, SameData, SameLocks, SameWaiters, SameMirrors
  <2>3. QED
    BY <1>1, <1>2, <2>2
<1>5. QED
  BY <1>3, <1>4 DEF Signals, LRUTimer, FlushWake, FlushReset, ReadLRUNone, vars, cacheVars

-----------------------------------------------------------------------------
(* The counts of one buffer: the callers that hold it and those that wait  *)

Holders(b)  == {u \in Users : Holding(u) /\ held[u] = b}
Sleepers(b) == {u \in Users : pc[u] = "wait" /\ held[u] = b}
CountsInv ==
  \A b \in Buffers :
    /\ lru[b].lock_count = Cardinality(Holders(b))
    /\ lru[b].Waiters + lru[b].Semaphore = Cardinality(Sleepers(b))

LEMMA OneElement ==
  ASSUME NEW S, NEW T, NEW x, IsFiniteSet(S), S \ {x} = T \ {x}
  PROVE  /\ IsFiniteSet(T) /\ Cardinality(S) \in Nat /\ Cardinality(T) \in Nat
         /\ x \in T => Cardinality(T) = Cardinality(S) + (IF x \in S THEN 0 ELSE 1)
         /\ x \notin T => Cardinality(T) = Cardinality(S) - (IF x \in S THEN 1 ELSE 0)
<1>1. Cardinality(S) \in Nat
  BY FS_CardinalityType
<1>2. CASE x \in T
  <2>1. T = S \cup {x}
    BY <1>2
  <2>2. IsFiniteSet(T) /\ Cardinality(T) = IF x \in S THEN Cardinality(S) ELSE Cardinality(S) + 1
    BY <2>1, FS_AddElement
  <2>3. Cardinality(T) \in Nat
    BY <2>2, FS_CardinalityType
  <2>4. QED
    BY <1>1, <1>2, <2>2, <2>3
<1>3. CASE x \notin T
  <2>1. T = S \ {x}
    BY <1>3
  <2>2. IsFiniteSet(T) /\ Cardinality(T) = IF x \in S THEN Cardinality(S) - 1 ELSE Cardinality(S)
    BY <2>1, FS_RemoveElement
  <2>3. Cardinality(T) \in Nat
    BY <2>2, FS_CardinalityType
  <2>4. QED
    BY <1>1, <1>3, <2>2, <2>3
<1>4. QED
  BY <1>2, <1>3

\* A set counted before and after a step that only moves u
CountedAs(n, s, m, t, u) ==
  /\ u \in t => n = m + (IF u \in s THEN 0 ELSE 1)
  /\ u \notin t => n = m - (IF u \in s THEN 1 ELSE 0)

\* When only user u moves, the counts of a buffer may change by one, by u.
LEMMA UserCounts ==
  ASSUME CountsInv, NEW u \in Users, OnlyUser(u), NEW b \in Buffers,
         CountedAs(lru'[b].lock_count, Holders(b), lru[b].lock_count, Holders(b)', u),
         CountedAs(lru'[b].Waiters + lru'[b].Semaphore, Sleepers(b),
                   lru[b].Waiters + lru[b].Semaphore, Sleepers(b)', u)
  PROVE  /\ lru'[b].lock_count = Cardinality(Holders(b)')
         /\ lru'[b].Waiters + lru'[b].Semaphore = Cardinality(Sleepers(b)')
<1>1. \A S \in SUBSET Users : IsFiniteSet(S)
  BY FiniteAssumption, FS_Subset
<1>2. IsFiniteSet(Holders(b)) /\ IsFiniteSet(Sleepers(b))
  BY <1>1 DEF Holders, Sleepers
<1>3. /\ Holders(b) \ {u} = Holders(b)' \ {u}
      /\ Sleepers(b) \ {u} = Sleepers(b)' \ {u}
  BY DEF Holders, Sleepers, Holding, OnlyUser, SameUser
<1>4. CountedAs(Cardinality(Holders(b)'), Holders(b), Cardinality(Holders(b)), Holders(b)', u)
  <2> DEFINE S == Holders(b)
             T == Holders(b)'
  <2> HIDE DEF S, T
  <2>1. IsFiniteSet(S) /\ S \ {u} = T \ {u}
    BY <1>2, <1>3 DEF S, T
  <2>2. /\ u \in T => Cardinality(T) = Cardinality(S) + (IF u \in S THEN 0 ELSE 1)
        /\ u \notin T => Cardinality(T) = Cardinality(S) - (IF u \in S THEN 1 ELSE 0)
    BY <2>1, OneElement
  <2>3. QED
    BY <2>2 DEF CountedAs, S, T
<1>5. CountedAs(Cardinality(Sleepers(b)'), Sleepers(b), Cardinality(Sleepers(b)), Sleepers(b)', u)
  <2> DEFINE S == Sleepers(b)
             T == Sleepers(b)'
  <2> HIDE DEF S, T
  <2>1. IsFiniteSet(S) /\ S \ {u} = T \ {u}
    BY <1>2, <1>3 DEF S, T
  <2>2. /\ u \in T => Cardinality(T) = Cardinality(S) + (IF u \in S THEN 0 ELSE 1)
        /\ u \notin T => Cardinality(T) = Cardinality(S) - (IF u \in S THEN 1 ELSE 0)
    BY <2>1, OneElement
  <2>3. QED
    BY <2>2 DEF CountedAs, S, T
<1>6. QED
  BY <1>4, <1>5 DEF CountsInv, CountedAs

LEMMA UserStepCounts ==
  ASSUME TypeInv, CountsInv, NEW u \in Users, Call(u) \/ ReadLRU(u) \/ Release(u)
  PROVE  CountsInv'
<1> SUFFICES ASSUME NEW b \in Buffers
             PROVE  /\ lru'[b].lock_count = Cardinality(Holders(b)')
                    /\ lru'[b].Waiters + lru'[b].Semaphore = Cardinality(Sleepers(b)')
  BY DEF CountsInv
<1> SUFFICES /\ OnlyUser(u)
             /\ CountedAs(lru'[b].lock_count, Holders(b), lru[b].lock_count, Holders(b)', u)
             /\ CountedAs(lru'[b].Waiters + lru'[b].Semaphore, Sleepers(b),
                          lru[b].Waiters + lru[b].Semaphore, Sleepers(b)', u)
  BY UserCounts
<1>0. /\ lru[b].lock_count \in Int /\ lru[b].Waiters \in Nat /\ lru[b].Semaphore \in Nat
      /\ b # NoBuffer
  BY NullAssumption DEF TypeInv, CacheInv, LRU
<1>1. CASE Call(u)
  BY <1>0, <1>1, CallEffect DEF CountedAs, Holders, Sleepers, Holding, cacheVars
<1>2. CASE PerformBlockReadAhead(u)
  <2>1. /\ pc[u] = "ahead" /\ pc'[u] = "search" /\ OnlyUser(u)
        /\ UNCHANGED lru \/ \E a \in Buffers, k \in Blocks : Took(a, k, {"LOADING"}, 0)
    BY <1>2, ReadAheadEffect
  <2>2. lru'[b].lock_count = lru[b].lock_count /\ SameWaiters(lru'[b], lru[b])
    BY <1>0, <2>1 DEF Took, OnlyBuffer, SameWaiters
  <2>3. QED
    BY <1>0, <2>1, <2>2 DEF CountedAs, Holders, Sleepers, Holding, SameWaiters
<1>3. CASE ReadLRUHit(u)
  BY <1>0, <1>3, HitEffect DEF CountedAs, Holders, Sleepers, Holding, OnlyBuffer, SameWaiters
<1>4. CASE ReadLRUWait(u)
  BY <1>0, <1>4, WaitEffect DEF CountedAs, Holders, Sleepers, Holding, OnlyBuffer, SameLocks
<1>5. CASE WaitOnBuffer(u)
  BY <1>0, <1>5, WaitOnBufferEffect
     DEF CountedAs, Holders, Sleepers, Holding, OnlyBuffer, SameLocks
<1>6. CASE ReadLRUFill(u) \/ ReadLRUNoFill(u)
  <2>1. PICK a \in Buffers :
          /\ pc[u] = "search" /\ OnlyUser(u) /\ held'[u] = a
          /\ \/ pc'[u] = "fill" /\ Took(a, want[u], {"LOADING"}, 0)
             \/ pc'[u] = "hold" /\ Took(a, want[u], {"DATAVALID"}, 1)
    BY <1>6, MissEffect
  <2>2. SameWaiters(lru'[b], lru[b])
    BY <1>0, <2>1 DEF Took, OnlyBuffer, SameWaiters
  <2>3. CASE pc'[u] = "fill" /\ Took(a, want[u], {"LOADING"}, 0)
    BY <1>0, <2>1, <2>2, <2>3
       DEF CountedAs, Holders, Sleepers, Holding, Took, OnlyBuffer, SameWaiters
  <2>4. CASE pc'[u] = "hold" /\ Took(a, want[u], {"DATAVALID"}, 1)
    BY <1>0, <2>1, <2>2, <2>4
       DEF CountedAs, Holders, Sleepers, Holding, Took, OnlyBuffer, SameWaiters
  <2>5. QED
    BY <2>1, <2>3, <2>4
<1>7. CASE ReadLRUNone(u)
  BY <1>0, <1>7, SignalEffect
     DEF CountedAs, Holders, Sleepers, Holding, Signals, Untouched, SameUsers, SameLocks,
         SameWaiters, OnlyUser, SameUser
<1>8. CASE FillBlock(u)
  BY <1>0, <1>8, FillEffect
     DEF CountedAs, Holders, Sleepers, Holding, OnlyBuffer, Woken
<1>9. CASE FillBlockError(u)
  BY <1>0, <1>9, FillErrorEffect DEF CountedAs, Holders, Sleepers, Holding, cacheVars
<1>10. CASE Refill(u)
  BY <1>0, <1>10, RefillEffect
     DEF CountedAs, Holders, Sleepers, Holding, OnlyBuffer, Woken
<1>11. CASE RefillError(u)
  BY <1>0, <1>11, RefillErrorEffect
     DEF CountedAs, Holders, Sleepers, Holding, OnlyBuffer, FreedTo, SameLocks, Woken
<1>12. CASE CopyIn(u)
  <2>1. /\ pc[u] = "hold" /\ pc'[u] = "changed" /\ held' = held /\ OnlyUser(u)
        /\ OnlyBuffer(held[u]) /\ SameLocks(lru'[held[u]], lru[held[u]])
        /\ SameWaiters(lru'[held[u]], lru[held[u]])
    BY <1>12, CopyInEffect
  <2>2. QED
    BY <1>0, <2>1
       DEF CountedAs, Holders, Sleepers, Holding, OnlyBuffer, SameLocks, SameWaiters
<1>13. CASE ReleaseLRU(u)
  BY <1>0, <1>13, ReleaseEffect
     DEF CountedAs, Holders, Sleepers, Holding, OnlyBuffer, SameWaiters
<1>14. CASE ReleaseDirtyLRU(u)
  BY <1>0, <1>14, ReleaseDirtyEffect
     DEF CountedAs, Holders, Sleepers, Holding, OnlyBuffer, SameWaiters
<1>15. QED
  BY <1>1, <1>2, <1>3, <1>4, <1>5, <1>6, <1>7, <1>8, <1>9, <1>10, <1>11, <1>12, <1>13, <1>14
     DEF ReadLRU, Release

\* The steps of the disks and daemons
System ==
  \/ \E b \in Buffers, c \in Members : Disk(b, c) \/ Interrupt(b, c)
  \/ Callback \/ FlushDaemon \/ LRUTimer \/ Age \/ UNCHANGED vars

\* They leave the callers and the counts of the buffers alone.
LEMMA SystemCounts ==
  ASSUME TypeInv, CountsInv, System
  PROVE  SameUsers /\ CountsInv'
<1> DEFINE Goal == SameUsers /\ \A b \in Buffers :
                     /\ lru'[b].lock_count = lru[b].lock_count
                     /\ lru'[b].Waiters + lru'[b].Semaphore = lru[b].Waiters + lru[b].Semaphore
<1> SUFFICES Goal
  BY DEF CountsInv, SameUsers, Holders, Sleepers, Holding
<1>0. \A b \in Buffers : lru[b].Waiters \in Nat /\ lru[b].Semaphore \in Nat
  BY DEF TypeInv, CacheInv, LRU
<1>1. ASSUME NEW b \in Buffers, NEW c \in Members, Disk(b, c) \/ ReleaseWriteAio(b, c)
      PROVE  Goal
  <2>1. CASE Transfer(b, c)
    BY <2>1, TransferEffect DEF OnlyBuffer, SameLocks, SameWaiters
  <2>2. CASE TransferError(b, c)
    BY <2>2, TransferErrorEffect DEF cacheVars
  <2>3. CASE ReleaseWriteAio(b, c)
    BY <2>3, WriteAioEffect DEF OnlyBuffer, SameLocks, SameWaiters
  <2>4. QED
    BY <1>1, <2>1, <2>2, <2>3 DEF Disk
<1>2. ASSUME NEW b \in Buffers, ReleaseAsynchReadAhead(b)
      PROVE  Goal
  BY <1>0, <1>2, AheadEffect DEF OnlyBuffer, SameLocks, Woken
<1>3. CASE RetryAsynchReadAhead
  BY <1>0, <1>3, RetryAheadEffect DEF OnlyBuffer, SameLocks, Woken, FreedTo
<1>4. CASE RetryWriteAio
  BY <1>4, RetryWriteEffect DEF cacheVars
<1>5. CASE RetryWriteAioDone
  BY <1>5, RetryDoneEffect DEF OnlyBuffer, SameLocks, SameWaiters
<1>6. CASE FlushStart \/ FlushRelock
  BY <1>6, StartEffect, RelockEffect DEF WalkEnds, FlushBegins, OnlyBuffer, SameLocks, SameWaiters
<1>7. CASE FlushInsert
  BY <1>7, InsertEffect DEF OnlyBuffer, SameLocks, SameWaiters
<1>8. CASE Signals
  BY <1>8, SignalEffect DEF Untouched, SameLocks, SameWaiters
<1>9. QED
  BY <1>1, <1>2, <1>3, <1>4, <1>5, <1>6, <1>7, <1>8
     DEF System, Interrupt, Callback, FlushDaemon, Signals

LEMMA CountsStep == TypeInv /\ CountsInv /\ [Next]_vars => CountsInv'
<1> SUFFICES ASSUME TypeInv, CountsInv, [Next]_vars
             PROVE  CountsInv'
  OBVIOUS
<1>1. CASE \E u \in Users : Call(u) \/ ReadLRU(u) \/ Release(u)
  BY <1>1, UserStepCounts
<1>2. CASE ~\E u \in Users : Call(u) \/ ReadLRU(u) \/ Release(u)
  <2>1. System
    BY <1>2 DEF Next, System
  <2>2. QED
    BY <2>1, SystemCounts
<1>3. QED
  BY <1>1, <1>2

LEMMA InitCounts == Init => CountsInv
<1>1. Cardinality({}) = 0
  BY FS_EmptySet
<1>2. Init => \A b \in Buffers : Holders(b) = {} /\ Sleepers(b) = {}
  BY DEF Init, Holders, Sleepers, Holding
<1>3. Init => \A b \in Buffers : /\ lru[b].lock_count = 0
                                 /\ lru[b].Waiters = 0 /\ lru[b].Semaphore = 0
  BY DEF Init
<1>4. QED
  BY <1>1, <1>2, <1>3 DEF CountsInv

LEMMA CountsInvariant == Spec => []CountsInv
<1>1. Init => TypeInv /\ CountsInv
  BY InitTypes, InitCounts
<1>2. (TypeInv /\ CountsInv) /\ [Next]_vars => (TypeInv /\ CountsInv)'
  BY TypeStep, CountsStep
<1>3. QED
  BY <1>1, <1>2, PTL DEF Spec

-----------------------------------------------------------------------------
(* Loads, and the callers that hold a buffer.  A buffer that is LOADING has *)
(* one party that ends the load: a caller, with a read that is under way or *)
(* to be repeated, a read ahead, or a failed one on the callback list.      *)

Loading(u)    == pc[u] \in {"fill", "refill"}
LoadReq(b, c) == io[b][c].stage # "idle" /\ io[b][c].command # "write"
AheadAt(n, b) == io_callback[n].lru = b /\ io_callback[n].command = "ahead"

LoadUsers(b) ==
  \A u \in Users : Loading(u) /\ held[u] = b =>
    /\ Has(b, "LOADING") /\ Hashed(b) /\ lru[b].block = want[u]
    /\ pc[u] = "fill" => LoadReq(b, 1) /\ io[b][1].command = "read"
    /\ pc[u] = "refill" => ~LoadReq(b, 1)
    /\ \A n \in DOMAIN io_callback : ~AheadAt(n, b)
    /\ \A v \in Users : Loading(v) /\ held[v] = b => u = v
LoadRequests(b) ==
  \A c \in Members : LoadReq(b, c) =>
    /\ c = 1 /\ Has(b, "LOADING") /\ Hashed(b) /\ io[b][c].sector = lru[b].block
    /\ io[b][c].command = "read" => \E u \in Users : pc[u] = "fill" /\ held[u] = b
LoadEntries(b) ==
  \A n \in DOMAIN io_callback : AheadAt(n, b) =>
    /\ Has(b, "LOADING") /\ Hashed(b) /\ ~LoadReq(b, 1)
    /\ \A m \in DOMAIN io_callback : AheadAt(m, b) => m = n
BufferFlags(b) ==
  /\ "FREE" \in lru[b].owner \/ lru[b].block = NoBlock => ~Hashed(b)
  /\ Has(b, "LOADING") => ~Has(b, "DATAVALID")
  /\ Has(b, "DATAVALID") => Hashed(b)
  /\ Has(b, "DIRTY") \/ Has(b, "FLUSHING") => Has(b, "DATAVALID")
  /\ Hashed(b) => Has(b, "LOADING") \/ Has(b, "DATAVALID")
HeldOf(b) ==
  \A u \in Users : Holding(u) /\ held[u] = b =>
    Hashed(b) /\ lru[b].block = want[u] /\ Has(b, "DATAVALID")
BufferLoads(b) ==
  LoadUsers(b) /\ LoadRequests(b) /\ LoadEntries(b) /\ BufferFlags(b) /\ HeldOf(b)
LoadInv == \A b \in Buffers : BufferLoads(b)

\* A step that neither begins, moves nor ends a load of buffer b
CalmBuffer(b) ==
  /\ lru'[b].block = lru[b].block
  /\ \A l \in {"HASH", "FREE"} : l \in lru'[b].owner <=> l \in lru[b].owner
  /\ \A f \in {"LOADING", "DATAVALID"} : f \in lru'[b].state <=> f \in lru[b].state
  /\ "DIRTY" \in lru'[b].state \/ "FLUSHING" \in lru'[b].state => Has(b, "DATAVALID")
CalmRequests(b) ==
  \A c \in Members :
    /\ LoadReq(b, c)' <=> LoadReq(b, c)
    /\ LoadReq(b, c) => /\ io'[b][c].command = io[b][c].command
                        /\ io'[b][c].sector = io[b][c].sector
CalmEntries(b) ==
  \E s \in {0, 1} : \A n \in DOMAIN io_callback' :
    AheadAt(n, b)' => n + s \in DOMAIN io_callback /\ AheadAt(n + s, b)
CalmUsers(b) ==
  \A u \in Users :
    /\ Loading(u)' /\ held'[u] = b =>
         Loading(u) /\ held[u] = b /\ pc'[u] = pc[u] /\ want'[u] = want[u]
    /\ pc[u] = "fill" /\ held[u] = b => pc'[u] = "fill" /\ held'[u] = b
    /\ Holding(u)' /\ held'[u] = b =>
         \/ Holding(u) /\ held[u] = b /\ want'[u] = want[u]
         \/ Hashed(b) /\ lru[b].block = want'[u] /\ Has(b, "DATAVALID")
CalmAt(b) == CalmBuffer(b) /\ CalmRequests(b) /\ CalmEntries(b) /\ CalmUsers(b)

LEMMA CalmKeeps ==
  ASSUME TypeInv, TypeInv', NEW b \in Buffers, BufferLoads(b), CalmAt(b)
  PROVE  BufferLoads(b)'
<1>1. PICK s \in {0, 1} : \A n \in DOMAIN io_callback' :
        AheadAt(n, b)' => n + s \in DOMAIN io_callback /\ AheadAt(n + s, b)
  BY DEF CalmAt, CalmEntries
<1>2. 1 \in Members /\ \A n \in DOMAIN io_callback' : n \in Nat
  BY NumberAssumption DEF TypeInv, CallbackInv, Members
<1>3. LoadUsers(b)'
  BY <1>1, <1>2 DEF CalmAt, CalmBuffer, CalmRequests, CalmUsers, BufferLoads, LoadUsers,
     Has, Hashed
<1>4. LoadRequests(b)'
  BY DEF CalmAt, CalmBuffer, CalmRequests, CalmUsers, BufferLoads, LoadRequests, Has, Hashed
<1>5. LoadEntries(b)'
  BY <1>1, <1>2 DEF CalmAt, CalmBuffer, CalmRequests, BufferLoads, LoadEntries, Has, Hashed
<1>6. BufferFlags(b)'
  BY DEF CalmAt, CalmBuffer, BufferLoads, BufferFlags, Has, Hashed
<1>7. HeldOf(b)'
  BY DEF CalmAt, CalmBuffer, CalmUsers, BufferLoads, HeldOf, Has, Hashed
<1>8. QED
  BY <1>3, <1>4, <1>5, <1>6, <1>7 DEF BufferLoads

\* A buffer that GetAvailableLRU may return is in nobody's hands.
LEMMA AvailableIsIdle ==
  ASSUME TypeInv, ReadInv, CountsInv, LoadInv, NEW b \in GetAvailableLRU
  PROVE  /\ b \in Buffers /\ lru[b].state \cap {"LOADING", "DIRTY", "FLUSHING"} = {}
         /\ \A u \in Users : held[u] = b => ~Loading(u) /\ ~Holding(u)
         /\ \A c \in Members : ~LoadReq(b, c)
         /\ \A n \in DOMAIN io_callback : ~AheadAt(n, b)
<1>1. /\ b \in Buffers
      /\ \/ "FREE" \in lru[b].owner \/ lru[b].block = NoBlock
         \/ lru[b].state \cap {"DIRTY", "LOADING", "FLUSHING"} = {} /\ lru[b].lock_count = 0
  BY DEF GetAvailableLRU, OnFreeList, Unused, Idle
<1>2. BufferLoads(b) /\ Awaited(lru[b])
  BY <1>1 DEF LoadInv, ReadInv, AllAwaited
<1>3. lru[b].state \cap {"LOADING", "DIRTY", "FLUSHING"} = {}
  BY <1>1, <1>2 DEF Awaited, BufferLoads, BufferFlags, Has
<1>4. \A u \in Users : held[u] = b => ~Holding(u)
  <2>1. CASE lru[b].lock_count = 0
    <3>1. Cardinality(Holders(b)) = 0
      BY <1>1, <2>1 DEF CountsInv
    <3>2. IsFiniteSet(Holders(b))
      BY FiniteAssumption, FS_Subset DEF Holders
    <3>3. Holders(b) = {}
      BY <3>1, <3>2, FS_EmptySet
    <3>4. QED
      BY <3>3 DEF Holders
  <2>2. CASE ~Hashed(b)
    BY <1>2, <2>2 DEF BufferLoads, HeldOf
  <2>3. QED
    BY <1>1, <1>2, <2>1, <2>2 DEF BufferLoads, BufferFlags
<1>5. QED
  BY <1>1, <1>2, <1>3, <1>4
     DEF BufferLoads, LoadUsers, LoadRequests, LoadEntries, Has

\* What of a step is calm for a buffer b because it is about another buffer, is
\* about a write, or does not happen
LEMMA CalmFrame ==
  ASSUME TypeInv, NEW b \in Buffers, BufferLoads(b)
  PROVE  /\ Shifted(0) \/ Shifted(1) \/ UNCHANGED io_callback => CalmEntries(b)
         /\ \A a, command : Appended(a, command) /\ (a # b \/ command # "ahead") => CalmEntries(b)
         /\ UNCHANGED io => CalmRequests(b)
         /\ \A a, c, command :
              Queued(a, c, command) /\ (a # b \/ command = "write") => CalmRequests(b)
         /\ \A a \in Buffers : \A c, s :
              Staged(a, c, s) /\ \/ a # b \/ io[a][c].command = "write"
                                 \/ io[a][c].stage # "idle" /\ s # "idle"
                => CalmRequests(b)
         /\ UNCHANGED lru => CalmBuffer(b)
         /\ \A a : OnlyBuffer(a) /\ a # b => CalmBuffer(b)
         /\ \A a : OnlyBuffer(a) /\ SameFlags(lru'[a], lru[a]) /\ lru'[a].block = lru[a].block
              => CalmBuffer(b)
         /\ SameUsers => CalmUsers(b)
<1>0. DOMAIN io_callback \subseteq Nat
  BY DEF TypeInv, CallbackInv
<1>1. Shifted(0) \/ Shifted(1) \/ UNCHANGED io_callback => CalmEntries(b)
  <2>1. ASSUME Shifted(0)
        PROVE  CalmEntries(b)
    BY <2>1 DEF Shifted, CalmEntries, AheadAt
  <2>2. ASSUME Shifted(1)
        PROVE  CalmEntries(b)
    BY <2>2 DEF Shifted, CalmEntries, AheadAt
  <2>3. ASSUME UNCHANGED io_callback
        PROVE  Shifted(0)
    BY <1>0, <2>3 DEF Shifted
  <2>4. QED
    BY <2>1, <2>2, <2>3
<1>2. \A a, command : Appended(a, command) /\ (a # b \/ command # "ahead") => CalmEntries(b)
  BY <1>0 DEF Appended, CalmEntries, AheadAt
<1>3. UNCHANGED io => CalmRequests(b)
  BY DEF CalmRequests, LoadReq
<1>4. \A a, c, command :
        Queued(a, c, command) /\ (a # b \/ command = "write") => CalmRequests(b)
  BY DEF Queued, OnlyRequest, CalmRequests, LoadReq
<1>5. \A a \in Buffers : \A c, s :
        Staged(a, c, s) /\ \/ a # b \/ io[a][c].command = "write"
                           \/ io[a][c].stage # "idle" /\ s # "idle"
          => CalmRequests(b)
  BY DEF Staged, OnlyRequest, CalmRequests, LoadReq
<1>6. UNCHANGED lru => CalmBuffer(b)
  BY DEF CalmBuffer, BufferLoads, BufferFlags, Has
<1>7. \A a : OnlyBuffer(a) /\ a # b => CalmBuffer(b)
  BY DEF OnlyBuffer, CalmBuffer, BufferLoads, BufferFlags, Has
<1>8. \A a : OnlyBuffer(a) /\ SameFlags(lru'[a], lru[a]) /\ lru'[a].block = lru[a].block
        => CalmBuffer(b)
  BY DEF OnlyBuffer, SameFlags, CalmBuffer, BufferLoads, BufferFlags, Has
<1>9. SameUsers => CalmUsers(b)
  BY DEF SameUsers, CalmUsers, Loading, Holding
<1>10. QED
  BY <1>1, <1>2, <1>3, <1>4, <1>5, <1>6, <1>7, <1>8, <1>9

\* The steps of the callers that do not begin or end a load
CalmCalls(u) == Call(u) \/ ReadLRUHit(u) \/ ReadLRUWait(u) \/ WaitOnBuffer(u)
                  \/ CopyIn(u) \/ ReleaseLRU(u) \/ ReleaseDirtyLRU(u)
LEMMA CallsCalm ==
  ASSUME TypeInv, NEW u \in Users, CalmCalls(u), NEW b \in Buffers, LoadInv
  PROVE  CalmAt(b)
<1> USE DEF CalmUsers, Loading, Holding, OnlyUser, SameUser
<1>0. BufferLoads(b)
  BY DEF LoadInv
<1>1. CASE Call(u)
  <2>1. CalmUsers(b)
    BY <1>1, CallEffect
  <2>2. UNCHANGED <<lru, io, io_callback>>
    BY <1>1, CallEffect DEF cacheVars, ioVars
  <2>3. QED
    BY <1>0, <2>1, <2>2, CalmFrame DEF CalmAt
<1>2. CASE ReadLRUHit(u)
  <2>1. UNCHANGED <<io, io_callback>> /\ CalmBuffer(b)
    BY <1>0, <1>2, HitEffect, CalmFrame DEF ioVars, SameData
  <2>2. CalmUsers(b)
    <3>1. PICK a \in SearchHash(want[u]) : a \in Buffers /\ ~Has(a, "LOADING") /\ held'[u] = a
      BY <1>2, HitEffect
    <3>2. Hashed(a) /\ lru[a].block = want[u] /\ Has(a, "DATAVALID")
      BY <3>1 DEF SearchHash, LoadInv, BufferLoads, BufferFlags
    <3>3. QED
      BY <1>2, <3>1, <3>2, HitEffect
  <2>3. QED
    BY <1>0, <2>1, <2>2, CalmFrame DEF CalmAt
<1>3. CASE ReadLRUWait(u) \/ WaitOnBuffer(u)
  <2>1. UNCHANGED <<io, io_callback>> /\ CalmBuffer(b)
    BY <1>0, <1>3, WaitEffect, WaitOnBufferEffect, CalmFrame DEF ioVars, SameData
  <2>2. CalmUsers(b)
    BY <1>3, WaitEffect, WaitOnBufferEffect
  <2>3. QED
    BY <1>0, <2>1, <2>2, CalmFrame DEF CalmAt
<1>4. CASE CopyIn(u)
  <2>1. UNCHANGED <<io, io_callback>> /\ CalmBuffer(b)
    BY <1>0, <1>4, CopyInEffect, CalmFrame DEF ioVars
  <2>2. CalmUsers(b)
    BY <1>4, CopyInEffect
  <2>3. QED
    BY <1>0, <2>1, <2>2, CalmFrame DEF CalmAt
<1>5. CASE ReleaseLRU(u)
  <2>1. UNCHANGED <<io, io_callback>> /\ CalmBuffer(b)
    BY <1>0, <1>5, ReleaseEffect, CalmFrame DEF ioVars, SameData
  <2>2. CalmUsers(b)
    BY <1>5, ReleaseEffect
  <2>3. QED
    BY <1>0, <2>1, <2>2, CalmFrame DEF CalmAt
<1>6. CASE ReleaseDirtyLRU(u)
  <2>1. UNCHANGED <<io, io_callback>>
    BY <1>6, ReleaseDirtyEffect DEF ioVars
  <2>2. CalmBuffer(b)
    <3>1. /\ pc[u] = "changed" /\ OnlyBuffer(held[u]) /\ Dirtied(held[u])
          /\ SameData(lru'[held[u]], lru[held[u]])
      BY <1>6, ReleaseDirtyEffect
    <3>2. CASE held[u] = b
      <4>1. Has(b, "DATAVALID")
        BY <1>0, <3>1, <3>2 DEF BufferLoads, HeldOf
      <4>2. QED
        BY <3>1, <3>2, <4>1 DEF CalmBuffer, Dirtied, SameData
    <3>3. CASE held[u] # b
      BY <1>0, <3>1, <3>3, CalmFrame
    <3>4. QED
      BY <3>2, <3>3
  <2>3. CalmUsers(b)
    BY <1>6, ReleaseDirtyEffect
  <2>4. QED
    BY <1>0, <2>1, <2>2, <2>3, CalmFrame DEF CalmAt
<1>7. QED
  BY <1>1, <1>2, <1>3, <1>4, <1>5, <1>6 DEF CalmCalls

\* The steps of the callers that begin or end a load: for the buffer they are
\* about by what they do, for the others because they are calm.
LEMMA ReadAheadLoads ==
  ASSUME TypeInv, TypeInv', ReadInv, CountsInv, LoadInv,
         NEW u \in Users, PerformBlockReadAhead(u)
  PROVE  LoadInv'
<1> SUFFICES ASSUME NEW b \in Buffers
             PROVE  BufferLoads(b)'
  BY DEF LoadInv
<1>0. BufferLoads(b)
  BY DEF LoadInv
<1>1. /\ pc'[u] = "search" /\ held' = held /\ OnlyUser(u) /\ UNCHANGED io_callback
      /\ \/ UNCHANGED <<lru, io>>
         \/ \E a \in Buffers, k \in Blocks :
              Took(a, k, {"LOADING"}, 0) /\ Queued(a, 1, "ahead")
      /\ pc[u] = "ahead"
  BY ReadAheadEffect
<1>2. CalmUsers(b) /\ CalmEntries(b)
  BY <1>0, <1>1, CalmFrame DEF CalmUsers, OnlyUser, SameUser, Loading, Holding
<1>3. CASE UNCHANGED <<lru, io>>
  BY <1>0, <1>2, <1>3, CalmFrame, CalmKeeps DEF CalmAt
<1>4. ASSUME NEW a \in Buffers, NEW k \in Blocks,
             Took(a, k, {"LOADING"}, 0), Queued(a, 1, "ahead")
      PROVE  BufferLoads(b)'
  <2>1. CASE a # b
    <3>1. CalmBuffer(b) /\ CalmRequests(b)
      BY <1>0, <1>4, <2>1, CalmFrame DEF Took
    <3>2. QED
      BY <1>0, <1>2, <3>1, CalmKeeps DEF CalmAt
  <2>2. CASE a = b
    <3>1. /\ \A v \in Users : held[v] = b => ~Loading(v) /\ ~Holding(v)
          /\ \A c \in Members : ~LoadReq(b, c)
          /\ \A n \in DOMAIN io_callback : ~AheadAt(n, b)
      BY <1>4, <2>2, AvailableIsIdle DEF Took
    <3>2. LoadUsers(b)' /\ HeldOf(b)'
      BY <1>1, <3>1 DEF LoadUsers, HeldOf, Loading, Holding, OnlyUser, SameUser
    <3>3. /\ Has(b, "LOADING")' /\ ~Has(b, "DATAVALID")' /\ Hashed(b)'
          /\ ~Has(b, "DIRTY")' /\ ~Has(b, "FLUSHING")'
          /\ "FREE" \notin lru'[b].owner /\ lru'[b].block # NoBlock
      BY <1>4, <2>2, NullAssumption DEF Took, Has, Hashed
    <3>4. LoadRequests(b)'
      BY <1>4, <2>2, <3>1, <3>3 DEF LoadRequests, LoadReq, Queued, OnlyRequest
    <3>5. LoadEntries(b)'
      BY <1>1, <3>1 DEF LoadEntries, AheadAt
    <3>6. BufferFlags(b)'
      BY <3>3 DEF BufferFlags
    <3>7. QED
      BY <3>2, <3>4, <3>5, <3>6 DEF BufferLoads
  <2>3. QED
    BY <2>1, <2>2
<1>5. QED
  BY <1>1, <1>3, <1>4

LEMMA MissLoads ==
  ASSUME TypeInv, TypeInv', ReadInv, CountsInv, LoadInv,
         NEW u \in Users, ReadLRUFill(u) \/ ReadLRUNoFill(u)
  PROVE  LoadInv'
<1> SUFFICES ASSUME NEW b \in Buffers
             PROVE  BufferLoads(b)'
  BY DEF LoadInv
<1>0. BufferLoads(b)
  BY DEF LoadInv
<1>1. PICK a \in Buffers :
        /\ pc[u] = "search" /\ want' = want /\ OnlyUser(u) /\ UNCHANGED io_callback
        /\ held'[u] = a
        /\ \/ /\ pc'[u] = "fill" /\ Took(a, want[u], {"LOADING"}, 0)
              /\ Queued(a, 1, "read")
           \/ /\ pc'[u] = "hold" /\ Took(a, want[u], {"DATAVALID"}, 1)
              /\ UNCHANGED io
  BY MissEffect
<1>2. CalmEntries(b)
  BY <1>0, <1>1, CalmFrame
<1>3. CASE a # b
  <2>1. CalmBuffer(b) /\ CalmRequests(b)
    BY <1>0, <1>1, <1>3, CalmFrame DEF Took
  <2>2. CalmUsers(b)
    BY <1>1, <1>3 DEF CalmUsers, OnlyUser, SameUser, Loading, Holding
  <2>3. QED
    BY <1>0, <1>2, <2>1, <2>2, CalmKeeps DEF CalmAt
<1>4. CASE a = b
  <2>1. /\ \A v \in Users : held[v] = b => ~Loading(v) /\ ~Holding(v)
        /\ \A c \in Members : ~LoadReq(b, c)
        /\ \A n \in DOMAIN io_callback : ~AheadAt(n, b)
    BY <1>1, <1>4, AvailableIsIdle DEF Took
  <2>2. /\ Hashed(b)' /\ "FREE" \notin lru'[b].owner /\ lru'[b].block # NoBlock
        /\ lru'[b].block = want'[u]
    BY <1>1, <1>4, NullAssumption DEF Took, Hashed
  <2>3. \A n \in DOMAIN io_callback' : ~AheadAt(n, b)'
    BY <1>1, <2>1 DEF AheadAt
  <2>4. \A v \in Users : (Loading(v) \/ Holding(v))' /\ held'[v] = b => u = v
    BY <1>1, <2>1 DEF Loading, Holding, OnlyUser, SameUser
  <2>5. LoadEntries(b)'
    BY <2>3 DEF LoadEntries
  <2>6. CASE pc'[u] = "fill" /\ Took(a, want[u], {"LOADING"}, 0) /\ Queued(a, 1, "read")
    <3>1. lru'[b].state = {"LOADING"}
      BY <1>4, <2>6 DEF Took
    <3>2. /\ LoadReq(b, 1)' /\ io'[b][1].command = "read"
          /\ \A c \in Members \ {1} : ~LoadReq(b, c)'
          /\ io'[b][1].sector = lru'[b].block
      BY <1>4, <2>1, <2>6 DEF Queued, OnlyRequest, LoadReq
    <3>3. LoadUsers(b)'
      BY <2>2, <2>3, <2>4, <2>6, <3>1, <3>2 DEF LoadUsers, Has, Loading, Holding
    <3>4. LoadRequests(b)'
      BY <1>1, <1>4, <2>2, <2>6, <3>1, <3>2 DEF LoadRequests, Has
    <3>5. BufferFlags(b)' /\ HeldOf(b)'
      BY <2>2, <2>4, <2>6, <3>1 DEF BufferFlags, HeldOf, Holding, Has
    <3>6. QED
      BY <2>5, <3>3, <3>4, <3>5 DEF BufferLoads
  <2>7. CASE pc'[u] = "hold" /\ Took(a, want[u], {"DATAVALID"}, 1) /\ UNCHANGED io
    <3>1. lru'[b].state = {"DATAVALID"}
      BY <1>4, <2>7 DEF Took
    <3>2. \A c \in Members : ~LoadReq(b, c)'
      BY <2>1, <2>7 DEF LoadReq
    <3>3. LoadUsers(b)' /\ LoadRequests(b)'
      BY <2>4, <2>7, <3>2 DEF LoadUsers, LoadRequests, Loading
    <3>4. BufferFlags(b)' /\ HeldOf(b)'
      BY <2>2, <2>4, <2>7, <3>1 DEF BufferFlags, HeldOf, Has
    <3>5. QED
      BY <2>5, <3>3, <3>4 DEF BufferLoads
  <2>8. QED
    BY <1>1, <2>6, <2>7
<1>5. QED
  BY <1>3, <1>4

\* The caller u is the only one to load buffer b: it ends its load, or goes from
\* one kind of read to the other.
LEMMA FillLoads ==
  ASSUME TypeInv, TypeInv', LoadInv, NEW u \in Users,
         FillBlock(u) \/ FillBlockError(u) \/ Refill(u) \/ RefillError(u)
  PROVE  LoadInv'
<1> SUFFICES ASSUME NEW b \in Buffers
             PROVE  BufferLoads(b)'
  BY DEF LoadInv
<1> DEFINE a == held[u]
<1>1. /\ a \in Buffers /\ want' = want /\ OnlyUser(u) /\ UNCHANGED io_callback /\ Loading(u)
      /\ OnlyBuffer(a) /\ lru'[a].block = lru[a].block
      /\ \/ /\ pc[u] = "fill" /\ Staged(a, 1, "idle")
            /\ pc'[u] \in {"hold", "refill"} /\ held' = held
         \/ /\ pc[u] = "refill" /\ UNCHANGED io
            /\ pc'[u] \in {"hold", "search"}
      /\ pc'[u] = "hold" =>
           /\ lru'[a].state = (lru[a].state \ {"LOADING"}) \cup {"DATAVALID"}
           /\ lru'[a].owner = lru[a].owner /\ held' = held
      /\ pc'[u] = "refill" => SameFlags(lru'[a], lru[a])
      /\ pc'[u] = "search" => FreedTo(lru'[a], lru[a])
  <2>1. CASE FillBlock(u)
    BY <2>1, FillEffect DEF Loading, SameData
  <2>2. CASE FillBlockError(u)
    BY <2>2, FillErrorEffect DEF Loading, cacheVars, OnlyBuffer, SameFlags
  <2>3. CASE Refill(u)
    BY <2>3, RefillEffect DEF Loading, ioVars
  <2>4. CASE RefillError(u)
    BY <2>4, RefillErrorEffect DEF Loading, ioVars, FreedTo, SameData
  <2>5. QED
    BY <2>1, <2>2, <2>3, <2>4
<1>2. BufferLoads(b) /\ BufferLoads(a) /\ CalmEntries(b)
  BY <1>1, CalmFrame DEF LoadInv
<1> HIDE DEF a
<1>3. CASE a # b
  <2>1. CalmBuffer(b) /\ CalmRequests(b)
    BY <1>1, <1>2, <1>3, CalmFrame
  <2>2. CalmUsers(b)
    BY <1>1, <1>3 DEF a, CalmUsers, OnlyUser, SameUser, Loading, Holding
  <2>3. QED
    BY <1>2, <2>1, <2>2, CalmKeeps DEF CalmAt
<1>4. CASE a = b
  <2>1. /\ Has(b, "LOADING") /\ Hashed(b) /\ lru[b].block = want[u] /\ ~Has(b, "DATAVALID")
        /\ ~Has(b, "DIRTY") /\ ~Has(b, "FLUSHING")
        /\ pc[u] = "refill" => ~LoadReq(b, 1)
        /\ \A n \in DOMAIN io_callback : ~AheadAt(n, b)
        /\ \A v \in Users : Loading(v) /\ held[v] = b => u = v
        /\ \A v \in Users : held[v] = b => ~Holding(v)
        /\ \A c \in Members \ {1} : ~LoadReq(b, c)
        /\ "FREE" \notin lru[b].owner /\ lru[b].block # NoBlock
    BY <1>1, <1>2, <1>4 DEF a, BufferLoads, LoadUsers, LoadRequests, HeldOf, BufferFlags
  <2>2. \A v \in Users : (Loading(v) \/ Holding(v))' /\ held'[v] = b => u = v
    BY <1>1, <2>1 DEF Loading, Holding, OnlyUser, SameUser
  <2>3. \A c \in Members : ~LoadReq(b, c)'
    BY <1>1, <1>4, <2>1 DEF LoadReq, Staged, OnlyRequest
  <2>4. \A n \in DOMAIN io_callback' : ~AheadAt(n, b)'
    BY <1>1, <2>1 DEF AheadAt
  <2>5. LoadRequests(b)' /\ LoadEntries(b)'
    BY <2>3, <2>4 DEF LoadRequests, LoadEntries
  <2>6. 1 \in Members
    BY NumberAssumption DEF Members
  <2>7. CASE pc'[u] = "hold"
    <3>1. /\ ~Has(b, "LOADING")' /\ Has(b, "DATAVALID")' /\ Hashed(b)'
          /\ "FREE" \notin lru'[b].owner /\ lru'[b].block = want'[u]
          /\ lru'[b].block # NoBlock
      BY <1>1, <1>4, <2>1, <2>7 DEF Has, Hashed
    <3>2. LoadUsers(b)' /\ HeldOf(b)' /\ BufferFlags(b)'
      BY <2>2, <2>7, <3>1 DEF LoadUsers, HeldOf, BufferFlags, Loading
    <3>3. QED
      BY <2>5, <3>2 DEF BufferLoads
  <2>8. CASE pc'[u] = "refill"
    <3>1. /\ Has(b, "LOADING")' /\ ~Has(b, "DATAVALID")' /\ Hashed(b)'
          /\ ~Has(b, "DIRTY")' /\ ~Has(b, "FLUSHING")'
          /\ "FREE" \notin lru'[b].owner /\ lru'[b].block = want'[u]
          /\ lru'[b].block # NoBlock
      BY <1>1, <1>4, <2>1, <2>8 DEF Has, Hashed, SameFlags
    <3>2. LoadUsers(b)' /\ HeldOf(b)' /\ BufferFlags(b)'
      BY <2>2, <2>3, <2>4, <2>6, <2>8, <3>1 DEF LoadUsers, HeldOf, BufferFlags, Holding
    <3>3. QED
      BY <2>5, <3>2 DEF BufferLoads
  <2>9. CASE pc'[u] = "search"
    <3>1. ~Hashed(b)' /\ lru'[b].state = {"FREE"}
      BY <1>1, <1>4, <2>9 DEF FreedTo, Hashed
    <3>2. LoadUsers(b)' /\ HeldOf(b)' /\ BufferFlags(b)'
      BY <2>2, <2>9, <3>1 DEF LoadUsers, HeldOf, BufferFlags, Holding, Loading, Has
    <3>3. QED
      BY <2>5, <3>2 DEF BufferLoads
  <2>10. QED
    BY <1>1, <2>7, <2>8, <2>9
<1>5. QED
  BY <1>3, <1>4

\* The steps of the disks and daemons that do not end a load
LEMMA SystemCalm ==
  ASSUME TypeInv, System, ~RetryAsynchReadAhead,
         \A a \in Buffers : ~ReleaseAsynchReadAhead(a),
         NEW b \in Buffers, LoadInv
  PROVE  CalmAt(b)
<1>0. BufferLoads(b)
  BY DEF LoadInv
<1>1. ASSUME NEW a \in Buffers, NEW c \in Members, Transfer(a, c)
      PROVE  CalmAt(b)
  <2>1. /\ CalmBuffer(b) /\ io[a][c].stage = "queued" /\ Staged(a, c, "moved")
        /\ SameUsers /\ UNCHANGED io_callback
    BY <1>0, <1>1, TransferEffect, CalmFrame
  <2>2. CalmRequests(b)
    BY <1>0, <2>1, CalmFrame
  <2>3. QED
    BY <1>0, <2>1, <2>2, CalmFrame DEF CalmAt
<1>2. ASSUME NEW a \in Buffers, NEW c \in Members, TransferError(a, c)
      PROVE  CalmAt(b)
  <2>1. /\ io[a][c].stage = "queued" /\ Staged(a, c, "failed")
        /\ SameUsers /\ UNCHANGED <<lru, io_callback>>
    BY <1>2, TransferErrorEffect DEF cacheVars
  <2>2. CalmRequests(b)
    BY <1>0, <2>1, CalmFrame
  <2>3. QED
    BY <1>0, <2>1, <2>2, CalmFrame DEF CalmAt
<1>3. ASSUME NEW a \in Buffers, NEW done \in BOOLEAN, NEW clean \in BOOLEAN,
             OnlyBuffer(a), Cleaned(a, done, clean), SameData(lru'[a], lru[a])
      PROVE  CalmBuffer(b)
  <2>1. CASE a # b
    BY <1>0, <1>3, <2>1, CalmFrame
  <2>2. CASE a = b
    BY <1>0, <1>3, <2>2 DEF Cleaned, SameData, CalmBuffer, BufferLoads, BufferFlags, Has
  <2>3. QED
    BY <2>1, <2>2
<1>4. ASSUME NEW a \in Buffers, NEW c \in Members, ReleaseWriteAio(a, c)
      PROVE  CalmAt(b)
  <2>1. PICK done \in BOOLEAN, clean \in BOOLEAN :
          /\ OnlyBuffer(a) /\ Cleaned(a, done, clean) /\ SameData(lru'[a], lru[a])
          /\ io[a][c].command = "write" /\ Staged(a, c, "idle") /\ SameUsers
          /\ Appended(a, "write") \/ UNCHANGED io_callback
    <3>1. (lru[a].aio_ccode \/ io[a][c].stage = "failed") \in BOOLEAN
      BY DEF TypeInv, CacheInv, LRU
    <3>2. QED
      BY <1>4, <3>1, WriteAioEffect
  <2>2. CalmBuffer(b)
    BY <1>3, <2>1
  <2>3. CalmRequests(b) /\ CalmEntries(b) /\ CalmUsers(b)
    BY <1>0, <2>1, CalmFrame
  <2>4. QED
    BY <2>2, <2>3 DEF CalmAt
<1>5. CASE RetryWriteAio
  <2>1. Shifted(1) /\ SameUsers /\ UNCHANGED <<lru, io>>
    BY <1>5, RetryWriteEffect DEF cacheVars
  <2>2. QED
    BY <1>0, <2>1, CalmFrame DEF CalmAt
<1>6. CASE RetryWriteAioDone
  <2>1. CalmBuffer(b)
    BY <1>3, <1>6, RetryDoneEffect
  <2>2. SameUsers /\ UNCHANGED <<io, io_callback>>
    BY <1>6, RetryDoneEffect DEF ioVars
  <2>3. QED
    BY <1>0, <2>1, <2>2, CalmFrame DEF CalmAt
<1>7. CASE FlushStart \/ FlushRelock
  <2>1. /\ UNCHANGED lru \/ \E a \in Buffers : FlushBegins(a)
        /\ SameUsers /\ UNCHANGED <<io, io_callback>>
    BY <1>7, StartEffect, RelockEffect DEF WalkEnds, ioVars
  <2>2. ASSUME NEW a \in Buffers, FlushBegins(a)
        PROVE  CalmBuffer(b)
    BY <1>0, <2>2, CalmFrame DEF FlushBegins, Eligible, SameData, CalmBuffer, Has
  <2>3. QED
    BY <1>0, <2>1, <2>2, CalmFrame DEF CalmAt
<1>8. CASE FlushInsert
  <2>1. /\ Queued(flush.lru, flush.i, "write") /\ CalmBuffer(b)
        /\ SameUsers /\ UNCHANGED io_callback
    BY <1>0, <1>8, InsertEffect, CalmFrame DEF SameData
  <2>2. QED
    BY <1>0, <2>1, CalmFrame DEF CalmAt
<1>9. CASE Signals
  <2>1. CalmBuffer(b) /\ SameUsers /\ UNCHANGED <<io, io_callback>>
    BY <1>0, <1>9, SignalEffect
       DEF Untouched, SameFlags, SameData, CalmBuffer, BufferLoads, BufferFlags, Has, ioVars
  <2>2. QED
    BY <1>0, <2>1, CalmFrame DEF CalmAt
<1>10. QED
  BY <1>1, <1>2, <1>4, <1>5, <1>6, <1>7, <1>8, <1>9
     DEF System, Disk, Interrupt, Callback, FlushDaemon, Signals

\* The end of a read ahead, and of its retry
LEMMA AheadLoads ==
  ASSUME TypeInv, TypeInv', LoadInv, NEW a \in Buffers, ReleaseAsynchReadAhead(a)
  PROVE  LoadInv'
<1> SUFFICES ASSUME NEW b \in Buffers
             PROVE  BufferLoads(b)'
  BY DEF LoadInv
<1>1. /\ io[a][1].command = "ahead" /\ Staged(a, 1, "idle") /\ io[a][1].stage # "idle"
      /\ \/ /\ UNCHANGED io_callback
            /\ OnlyBuffer(a) /\ lru'[a].state = (lru[a].state \ {"LOADING"}) \cup {"DATAVALID"}
            /\ lru'[a].owner = lru[a].owner /\ lru'[a].block = lru[a].block
         \/ Appended(a, "ahead") /\ UNCHANGED lru
      /\ SameUsers
  BY AheadEffect DEF SameData
<1>2. BufferLoads(b) /\ CalmUsers(b) /\ 1 \in Members
  BY <1>1, CalmFrame, NumberAssumption DEF LoadInv, Members
<1>3. CASE a # b
  BY <1>1, <1>2, <1>3, CalmFrame, CalmKeeps DEF CalmAt
<1>4. CASE a = b
  <2>1. LoadReq(b, 1)
    BY <1>1, <1>4 DEF LoadReq
  <2>2. /\ Has(b, "LOADING") /\ ~Has(b, "DATAVALID") /\ Hashed(b)
        /\ ~Has(b, "DIRTY") /\ ~Has(b, "FLUSHING")
        /\ \A n \in DOMAIN io_callback : ~AheadAt(n, b)
        /\ \A v \in Users : held[v] = b => ~Loading(v) /\ ~Holding(v)
        /\ \A c \in Members \ {1} : ~LoadReq(b, c)
        /\ "FREE" \notin lru[b].owner /\ lru[b].block # NoBlock
    BY <1>1, <1>2, <1>4, <2>1
       DEF BufferLoads, LoadUsers, LoadRequests, LoadEntries, HeldOf, BufferFlags, Loading
  <2>3. /\ \A v \in Users : held'[v] = b => ~Loading(v)' /\ ~Holding(v)'
        /\ \A c \in Members : ~LoadReq(b, c)'
    BY <1>1, <1>4, <2>2 DEF SameUsers, Loading, Holding, LoadReq, Staged, OnlyRequest
  <2>4. LoadUsers(b)' /\ LoadRequests(b)' /\ HeldOf(b)'
    BY <2>3 DEF LoadUsers, LoadRequests, HeldOf
  <2>5. BufferFlags(b)'
    BY <1>1, <1>4, <2>2 DEF BufferFlags, Has, Hashed
  <2>6. LoadEntries(b)'
    <3>1. CASE UNCHANGED io_callback
      BY <2>2, <3>1 DEF LoadEntries, AheadAt
    <3>2. CASE Appended(a, "ahead") /\ UNCHANGED lru
      <4>1. \A n \in DOMAIN io_callback' : AheadAt(n, b)' => n = Len(io_callback) + 1
        BY <2>2, <3>2 DEF Appended, AheadAt
      <4>2. QED
        BY <1>2, <2>2, <2>3, <3>2, <4>1 DEF LoadEntries, Has, Hashed
    <3>3. QED
      BY <1>1, <3>1, <3>2
  <2>7. QED
    BY <2>4, <2>5, <2>6 DEF BufferLoads
<1>5. QED
  BY <1>3, <1>4

LEMMA RetryAheadLoads ==
  ASSUME TypeInv, TypeInv', LoadInv, RetryAsynchReadAhead
  PROVE  LoadInv'
<1> SUFFICES ASSUME NEW b \in Buffers
             PROVE  BufferLoads(b)'
  BY DEF LoadInv
<1> DEFINE a == io_callback[1].lru
<1>1. /\ a \in Buffers /\ 1 \in DOMAIN io_callback /\ AheadAt(1, a) /\ Shifted(1)
      /\ OnlyBuffer(a) /\ lru'[a].block = lru[a].block
      /\ \/ /\ lru'[a].state = (lru[a].state \ {"LOADING"}) \cup {"DATAVALID"}
            /\ lru'[a].owner = lru[a].owner
         \/ FreedTo(lru'[a], lru[a])
      /\ SameUsers /\ UNCHANGED io
  BY RetryAheadEffect DEF AheadAt, FreedTo, SameData
<1> HIDE DEF a
<1>2. BufferLoads(b) /\ CalmUsers(b)
  BY <1>1, CalmFrame DEF LoadInv
<1>3. CASE a # b
  BY <1>1, <1>2, <1>3, CalmFrame, CalmKeeps DEF CalmAt
<1>4. CASE a = b
  <2>1. /\ Has(b, "LOADING") /\ ~Has(b, "DATAVALID") /\ Hashed(b)
        /\ ~Has(b, "DIRTY") /\ ~Has(b, "FLUSHING")
        /\ \A n \in DOMAIN io_callback : AheadAt(n, b) => n = 1
        /\ \A v \in Users : held[v] = b => ~Loading(v) /\ ~Holding(v)
        /\ \A c \in Members : ~LoadReq(b, c)
        /\ "FREE" \notin lru[b].owner /\ lru[b].block # NoBlock
    BY <1>1, <1>2, <1>4
       DEF BufferLoads, LoadUsers, LoadRequests, LoadEntries, HeldOf, BufferFlags
  <2>2. /\ \A v \in Users : held'[v] = b => ~Loading(v)' /\ ~Holding(v)'
        /\ \A c \in Members : ~LoadReq(b, c)'
    BY <1>1, <2>1 DEF SameUsers, Loading, Holding, LoadReq
  <2>3. \A n \in DOMAIN io_callback' : ~AheadAt(n, b)'
    <3>1. \A n \in DOMAIN io_callback' : n \in Nat /\ n # 0
      BY DEF TypeInv, CallbackInv
    <3>2. QED
      BY <1>1, <2>1, <3>1 DEF Shifted, AheadAt
  <2>4. LoadUsers(b)' /\ LoadRequests(b)' /\ HeldOf(b)' /\ LoadEntries(b)'
    BY <2>2, <2>3 DEF LoadUsers, LoadRequests, HeldOf, LoadEntries
  <2>5. BufferFlags(b)'
    BY <1>1, <1>4, <2>1 DEF BufferFlags, Has, Hashed, FreedTo
  <2>6. QED
    BY <2>4, <2>5 DEF BufferLoads
<1>5. QED
  BY <1>3, <1>4

LEMMA LoadStep == TypeInv /\ ReadInv /\ CountsInv /\ LoadInv /\ [Next]_vars => LoadInv'
<1> SUFFICES ASSUME TypeInv, ReadInv, CountsInv, LoadInv, [Next]_vars
             PROVE  LoadInv'
  OBVIOUS
<1>1. TypeInv'
  BY TypeStep
<1>2. ASSUME NEW u \in Users, Call(u) \/ ReadLRU(u) \/ Release(u)
      PROVE  LoadInv'
  <2>1. CASE CalmCalls(u)
    BY <1>1, <2>1, CallsCalm, CalmKeeps DEF LoadInv
  <2>2. CASE ReadLRUNone(u)
    <3>1. Signals /\ UNCHANGED <<lru, io, io_callback>>
      BY <2>2 DEF Signals, ReadLRUNone, cacheVars, ioVars
    <3>2. SameUsers
      BY <3>1, SignalEffect
    <3>3. \A b \in Buffers : CalmAt(b)
      BY <3>1, <3>2, CalmFrame DEF CalmAt, LoadInv
    <3>4. QED
      BY <1>1, <3>3, CalmKeeps DEF LoadInv
  <2>3. QED
    BY <1>1, <1>2, <2>1, <2>2, ReadAheadLoads, MissLoads, FillLoads
       DEF CalmCalls, ReadLRU, Release
<1>3. CASE System
  <2>1. CASE RetryAsynchReadAhead \/ \E a \in Buffers : ReleaseAsynchReadAhead(a)
    BY <1>1, <2>1, AheadLoads, RetryAheadLoads
  <2>2. CASE ~(RetryAsynchReadAhead \/ \E a \in Buffers : ReleaseAsynchReadAhead(a))
    BY <1>1, <1>3, <2>2, SystemCalm, CalmKeeps DEF LoadInv
  <2>3. QED
    BY <2>1, <2>2
<1>4. QED
  BY <1>2, <1>3 DEF Next, System

LEMMA InitLoads == Init => LoadInv
<1> SUFFICES ASSUME Init, NEW b \in Buffers
             PROVE  BufferLoads(b)
  BY DEF LoadInv
<1>1. \A u \in Users : ~Loading(u) /\ ~Holding(u)
  BY DEF Init, Loading, Holding
<1>2. \A c \in Members : ~LoadReq(b, c)
  BY DEF Init, LoadReq
<1>3. io_callback = <<>> /\ lru[b].state = {"FREE"} /\ lru[b].owner = {}
  BY DEF Init
<1>4. QED
  BY <1>1, <1>2, <1>3
     DEF BufferLoads, LoadUsers, LoadRequests, LoadEntries, BufferFlags, HeldOf, Has, Hashed

LEMMA LoadInvariant == Spec => []LoadInv
<1> DEFINE Inv == TypeInv /\ ReadInv /\ CountsInv /\ LoadInv
<1>1. Init => Inv
  <2>1. Init => ReadInv
    BY DEF Init, ReadInv, OneBufferPerBlock, Hashed, AllAwaited, Awaited
  <2>2. QED
    BY <2>1, InitTypes, InitCounts, InitLoads
<1>2. Inv /\ [Next]_vars => Inv'
  BY TypeStep, ReadStep, CountsStep, LoadStep
<1>3. QED
  BY <1>1, <1>2, PTL DEF Spec

\* A caller that holds a buffer has the block it asked for in it until it releases
\* it, for any number of callers, buffers and mirror members, also when disks fail.
THEOREM BufferStaysWithCaller == Spec => []HeldBufferStays
<1>1. TypeInv /\ LoadInv => HeldBufferStays
  <2>1. TypeInv => \A u \in Users : Holding(u) => held[u] \in Buffers
    BY DEF TypeInv, UsersInv, Holding, Known
  <2>2. QED
    BY <2>1 DEF LoadInv, BufferLoads, HeldOf, HeldBufferStays
<1>2. Init => TypeInv
  BY InitTypes
<1>3. TypeInv /\ [Next]_vars => TypeInv'
  BY TypeStep
<1>4. QED
  BY <1>1, <1>2, <1>3, LoadInvariant, PTL DEF Spec

-----------------------------------------------------------------------------
(* From here on, the cache when no write to a disk fails: a buffer is       *)
(* written once at a time, the count of dirty buffers is exact, no update   *)
(* is lost, and the cache implements the write-back store.                  *)

-----------------------------------------------------------------------------
(* The writes of a buffer.  A buffer that is FLUSHING has as many requests  *)
(* under way or complete as FlushEligibleLRU has queued for its members.    *)

PendingAt(b, c) == io[b][c].command = "write" /\ io[b][c].stage # "idle"
Pending(b)  == {c \in Members : PendingAt(b, c)}
\* The members for which the write of b has been queued
Inserted(b) == IF flush.lru = b /\ flush.pc = "insert" THEN flush.i - 1
               ELSE IF flush.lru = b /\ flush.pc = "relock" THEN flush.i ELSE Mirrors
\* The first request of the write is about to be queued.
Begins(b)   == flush.pc = "insert" /\ flush.lru = b /\ flush.i = 1
Overwriter(u, b) == pc[u] = "hold" /\ op[u] = "overwrite" /\ held[u] = b

BufferWrites(b) ==
  /\ ~lru[b].aio_ccode
  /\ "DIRTY" \in lru[b].owner <=> Has(b, "DIRTY")
  /\ Has(b, "FLUSHING") => Has(b, "DIRTY") /\ b \notin unfilled
  /\ Has(b, "FLUSHING") /\ ~Begins(b) =>
       /\ lru[b].mirrors_completed + Cardinality(Pending(b)) = Inserted(b)
       /\ lru[b].mirrors_completed < Mirrors
  /\ ~Has(b, "FLUSHING") => Inserted(b) = Mirrors /\ ~Begins(b)
  /\ \A c \in Members : PendingAt(b, c) =>
       /\ Has(b, "FLUSHING") /\ ~Begins(b) /\ c <= Inserted(b)
       /\ io[b][c].stage # "failed" /\ io[b][c].sector = lru[b].block
  /\ b \in unfilled => \E u \in Users : Overwriter(u, b)
\* No write is ever retried.
NoRetry ==
  /\ \A n \in DOMAIN io_callback : io_callback[n].command = "ahead"
  /\ cb.stage = "down"
WriteInv == NoRetry /\ \A b \in Buffers : BufferWrites(b)

\* A step that neither begins, moves nor ends a write of buffer b
CalmFlags(b) ==
  /\ ~lru'[b].aio_ccode /\ lru'[b].mirrors_completed = lru[b].mirrors_completed
  /\ Has(b, "FLUSHING")' <=> Has(b, "FLUSHING")
  /\ "DIRTY" \in lru'[b].owner <=> Has(b, "DIRTY")'
  /\ Has(b, "FLUSHING") => Has(b, "DIRTY")' /\ lru'[b].block = lru[b].block
CalmPending(b) ==
  \A c \in Members :
    /\ PendingAt(b, c)' <=> PendingAt(b, c)
    /\ PendingAt(b, c) => /\ io'[b][c].stage = "failed" => io[b][c].stage = "failed"
                          /\ io'[b][c].sector = io[b][c].sector
CalmFlush(b) == Inserted(b)' = Inserted(b) /\ (Begins(b)' <=> Begins(b))
CalmUnfilled(b) ==
  b \in unfilled' => ~Has(b, "FLUSHING") /\ \E u \in Users : Overwriter(u, b)'
CalmWrites(b) == CalmFlags(b) /\ CalmPending(b) /\ CalmFlush(b) /\ CalmUnfilled(b)

LEMMA CalmWritesKeeps ==
  ASSUME NEW b \in Buffers, BufferWrites(b), CalmWrites(b)
  PROVE  BufferWrites(b)'
<1>1. Pending(b)' = Pending(b)
  BY DEF CalmWrites, CalmPending, Pending
<1> DEFINE n == Cardinality(Pending(b))
<1>2. n' = n
  BY <1>1
<1> HIDE DEF n
<1>3. /\ Has(b, "FLUSHING") /\ ~Begins(b) => lru[b].mirrors_completed + n = Inserted(b)
  BY DEF BufferWrites, n
<1>4. /\ (Has(b, "FLUSHING") /\ ~Begins(b))' =>
           /\ lru'[b].mirrors_completed + n' = Inserted(b)'
           /\ lru'[b].mirrors_completed < Mirrors
  BY <1>2, <1>3 DEF BufferWrites, CalmWrites, CalmFlags, CalmFlush
<1>5. /\ (Has(b, "FLUSHING") => Has(b, "DIRTY") /\ b \notin unfilled)'
      /\ (~Has(b, "FLUSHING") => Inserted(b) = Mirrors /\ ~Begins(b))'
      /\ (b \in unfilled => \E u \in Users : Overwriter(u, b))'
      /\ (~lru[b].aio_ccode /\ ("DIRTY" \in lru[b].owner <=> Has(b, "DIRTY")))'
  BY DEF BufferWrites, CalmWrites, CalmFlags, CalmFlush, CalmUnfilled
<1>6. (\A c \in Members : PendingAt(b, c) =>
       /\ Has(b, "FLUSHING") /\ ~Begins(b) /\ c <= Inserted(b)
       /\ io[b][c].stage # "failed" /\ io[b][c].sector = lru[b].block)'
  BY DEF BufferWrites, CalmWrites, CalmFlags, CalmPending, CalmFlush
<1>7. QED
  BY <1>4, <1>5, <1>6 DEF n, BufferWrites

\* What of a step is calm for the writes of a buffer b
LEMMA WriteFrame ==
  ASSUME TypeInv, NEW b \in Buffers, BufferWrites(b)
  PROVE  /\ UNCHANGED lru => CalmFlags(b)
         /\ \A a : OnlyBuffer(a) /\ a # b => CalmFlags(b)
         /\ \A a : OnlyBuffer(a) /\ SameFlags(lru'[a], lru[a]) /\ lru'[a].block = lru[a].block
                     /\ SameMirrors(lru'[a], lru[a]) => CalmFlags(b)
         /\ UNCHANGED io => CalmPending(b)
         /\ \A a, c, command : Queued(a, c, command) /\ (a # b \/ command # "write")
              => CalmPending(b)
         /\ \A a \in Buffers : \A c, s :
              Staged(a, c, s) /\ \/ a # b \/ io[a][c].command # "write"
                                 \/ io[a][c].stage # "idle" /\ s = "moved"
                => CalmPending(b)
         /\ UNCHANGED flush => CalmFlush(b)
         /\ ~Writes /\ ~Writes' => CalmFlush(b)
         /\ SameUsers /\ UNCHANGED unfilled => CalmUnfilled(b)
<1>1. /\ UNCHANGED lru => CalmFlags(b)
      /\ \A a : OnlyBuffer(a) /\ a # b => CalmFlags(b)
      /\ \A a : OnlyBuffer(a) /\ SameFlags(lru'[a], lru[a]) /\ lru'[a].block = lru[a].block
                     /\ SameMirrors(lru'[a], lru[a]) => CalmFlags(b)
  BY DEF OnlyBuffer, SameFlags, SameMirrors, CalmFlags, BufferWrites, Has
<1>2. UNCHANGED io => CalmPending(b)
  BY DEF CalmPending, PendingAt
<1>3. \A a, c, command : Queued(a, c, command) /\ (a # b \/ command # "write")
        => CalmPending(b)
  BY DEF Queued, OnlyRequest, CalmPending, PendingAt
<1>4. \A a \in Buffers : \A c, s :
        Staged(a, c, s) /\ \/ a # b \/ io[a][c].command # "write"
                           \/ io[a][c].stage # "idle" /\ s = "moved"
          => CalmPending(b)
  BY DEF Staged, OnlyRequest, CalmPending, PendingAt
<1>5. UNCHANGED flush => CalmFlush(b)
  BY DEF CalmFlush, Inserted, Begins
<1>6. ~Writes /\ ~Writes' => CalmFlush(b)
  BY DEF CalmFlush, Inserted, Begins, Writes
<1>7. SameUsers /\ UNCHANGED unfilled => CalmUnfilled(b)
  BY DEF SameUsers, CalmUnfilled, BufferWrites, Overwriter
<1>8. QED
  BY <1>1, <1>2, <1>3, <1>4, <1>5, <1>6, <1>7

LEMMA UnfilledFrame ==
  ASSUME NEW b \in Buffers, BufferWrites(b), NEW u \in Users, OnlyUser(u),
         pc[u] # "hold" \/ op[u] # "overwrite" \/ held[u] # b,
         b \in unfilled' => b \in unfilled
  PROVE  CalmUnfilled(b)
BY DEF CalmUnfilled, BufferWrites, Overwriter, OnlyUser, SameUser

\* The callers leave the writes alone.
LEMMA UserWrites ==
  ASSUME TypeInv, ReadInv, CountsInv, LoadInv, WriteInv,
         NEW u \in Users, Call(u) \/ ReadLRU(u) \/ Release(u), NEW b \in Buffers
  PROVE  CalmWrites(b)
<1>0. BufferWrites(b) /\ BufferLoads(b)
  BY DEF WriteInv, LoadInv
<1>a. ASSUME NEW a \in Buffers, NEW k, NEW flags, NEW n, Took(a, k, flags, n),
             flags = {"LOADING"} \/ flags = {"DATAVALID"}
      PROVE  CalmFlags(b) /\ (a = b => ~Has(b, "FLUSHING"))
  <2>1. CASE a # b
    BY <1>0, <1>a, <2>1, WriteFrame DEF Took
  <2>2. CASE a = b
    <3>1. ~Has(b, "FLUSHING") /\ ~Has(b, "DIRTY")
      BY <1>a, <2>2, AvailableIsIdle DEF Took, Has
    <3>2. QED
      BY <1>0, <1>a, <2>2, <3>1 DEF Took, CalmFlags, BufferWrites, Has
  <2>3. QED
    BY <2>1, <2>2
<1>1. CASE Call(u)
  <2>1. UNCHANGED <<lru, io, flush, unfilled>> /\ pc[u] = "idle" /\ OnlyUser(u)
    BY <1>1, CallEffect DEF cacheVars, ioVars, historyVars
  <2>2. QED
    BY <1>0, <2>1, WriteFrame, UnfilledFrame DEF CalmWrites
<1>2. CASE PerformBlockReadAhead(u)
  <2>1. /\ UNCHANGED <<flush, unfilled>> /\ pc[u] = "ahead" /\ OnlyUser(u)
        /\ \/ UNCHANGED <<lru, io>>
           \/ \E a \in Buffers, k \in Blocks :
                Took(a, k, {"LOADING"}, 0) /\ Queued(a, 1, "ahead")
    BY <1>2, ReadAheadEffect DEF historyVars
  <2>2. CalmFlags(b) /\ CalmPending(b)
    BY <1>0, <1>a, <2>1, WriteFrame
  <2>3. QED
    BY <1>0, <2>1, <2>2, WriteFrame, UnfilledFrame DEF CalmWrites
<1>3. CASE ReadLRUHit(u)
  <2>1. /\ UNCHANGED <<io, flush, unfilled>> /\ pc[u] = "search" /\ OnlyUser(u)
        /\ CalmFlags(b)
    BY <1>0, <1>3, HitEffect, WriteFrame DEF ioVars, historyVars, SameData
  <2>2. QED
    BY <1>0, <2>1, WriteFrame, UnfilledFrame DEF CalmWrites
<1>4. CASE ReadLRUWait(u) \/ WaitOnBuffer(u)
  <2>1. /\ UNCHANGED <<io, flush, unfilled>> /\ pc[u] \in {"search", "wait"} /\ OnlyUser(u)
        /\ CalmFlags(b)
    BY <1>0, <1>4, WaitEffect, WaitOnBufferEffect, WriteFrame DEF ioVars, historyVars, SameData
  <2>2. QED
    BY <1>0, <2>1, WriteFrame, UnfilledFrame DEF CalmWrites
<1>5. CASE ReadLRUFill(u) \/ ReadLRUNoFill(u)
  <2>1. PICK a \in Buffers :
          /\ UNCHANGED flush /\ pc[u] = "search" /\ OnlyUser(u) /\ op' = op /\ held'[u] = a
          /\ \/ /\ Took(a, want[u], {"LOADING"}, 0) /\ Queued(a, 1, "read")
                /\ UNCHANGED unfilled
             \/ /\ pc'[u] = "hold" /\ op[u] = "overwrite" /\ Took(a, want[u], {"DATAVALID"}, 1)
                /\ UNCHANGED io /\ unfilled' = unfilled \cup {a}
    BY <1>5, MissEffect
  <2>2. CalmFlags(b) /\ CalmPending(b) /\ (a = b => ~Has(b, "FLUSHING"))
    BY <1>0, <1>a, <2>1, WriteFrame
  <2>3. CalmUnfilled(b)
    <3>1. CASE b \in unfilled' => b \in unfilled
      BY <1>0, <2>1, <3>1, UnfilledFrame
    <3>2. CASE ~(b \in unfilled' => b \in unfilled)
      BY <2>1, <2>2, <3>2 DEF CalmUnfilled, Overwriter
    <3>3. QED
      BY <3>1, <3>2
  <2>4. QED
    BY <1>0, <2>1, <2>2, <2>3, WriteFrame DEF CalmWrites
<1>6. CASE ReadLRUNone(u)
  <2>1. Signals /\ UNCHANGED <<lru, io, flush, unfilled>>
    BY <1>6 DEF Signals, ReadLRUNone, cacheVars, ioVars, historyVars
  <2>2. QED
    BY <1>0, <2>1, SignalEffect, WriteFrame DEF CalmWrites
<1>7. CASE FillBlock(u) \/ FillBlockError(u) \/ Refill(u) \/ RefillError(u)
  <2> DEFINE a == held[u]
  <2>1. /\ a \in Buffers /\ OnlyUser(u) /\ UNCHANGED <<flush, unfilled>> /\ Loading(u)
        /\ OnlyBuffer(a) /\ SameMirrors(lru'[a], lru[a])
        /\ \/ pc[u] = "fill" /\ Staged(a, 1, "idle")
           \/ UNCHANGED io
        /\ \/ /\ lru'[a].state = (lru[a].state \ {"LOADING"}) \cup {"DATAVALID"}
              /\ lru'[a].owner = lru[a].owner
           \/ SameFlags(lru'[a], lru[a])
           \/ FreedTo(lru'[a], lru[a])
    <3>1. CASE FillBlock(u)
      BY <3>1, FillEffect DEF Loading, historyVars
    <3>2. CASE FillBlockError(u)
      BY <3>2, FillErrorEffect
         DEF Loading, cacheVars, OnlyBuffer, SameFlags, SameMirrors, historyVars
    <3>3. CASE Refill(u)
      BY <3>3, RefillEffect DEF Loading, ioVars, historyVars
    <3>4. CASE RefillError(u)
      BY <3>4, RefillErrorEffect DEF Loading, ioVars, FreedTo, historyVars
    <3>5. QED
      BY <1>7, <3>1, <3>2, <3>3, <3>4
  <2>2. BufferLoads(a) /\ BufferWrites(a)
    BY <2>1 DEF LoadInv, WriteInv
  <2>3. CalmPending(b)
    <3>1. pc[u] = "fill" => io[a][1].command # "write"
      BY <2>1, <2>2 DEF BufferLoads, LoadUsers, Loading
    <3>2. QED
      BY <1>0, <2>1, <3>1, WriteFrame
  <2>4. CalmFlags(b)
    <3>1. Has(a, "LOADING") /\ ~Has(a, "DIRTY") /\ ~Has(a, "FLUSHING")
      BY <2>1, <2>2 DEF BufferLoads, LoadUsers, BufferFlags
    <3>2. CASE a = b
      BY <2>1, <2>2, <3>1, <3>2
         DEF CalmFlags, BufferWrites, SameFlags, SameMirrors, FreedTo, Has
    <3>3. QED
      BY <1>0, <2>1, <3>2, WriteFrame
  <2>5. CalmUnfilled(b)
    BY <1>0, <2>1, UnfilledFrame DEF Loading
  <2>6. QED
    BY <1>0, <2>1, <2>3, <2>4, <2>5, WriteFrame DEF CalmWrites
<1>8. CASE CopyIn(u)
  <2>1. /\ UNCHANGED <<io, flush>> /\ pc[u] = "hold" /\ OnlyUser(u) /\ CalmFlags(b)
        /\ unfilled' = IF op[u] = "overwrite" THEN unfilled \ {held[u]} ELSE unfilled
    BY <1>0, <1>8, CopyInEffect, WriteFrame DEF ioVars
  <2>2. CalmUnfilled(b)
    <3>1. CASE op[u] = "overwrite" /\ held[u] = b
      BY <2>1, <3>1 DEF CalmUnfilled
    <3>2. CASE ~(op[u] = "overwrite" /\ held[u] = b)
      BY <1>0, <2>1, <3>2, UnfilledFrame
    <3>3. QED
      BY <3>1, <3>2
  <2>3. QED
    BY <1>0, <2>1, <2>2, WriteFrame DEF CalmWrites
<1>9. CASE ReleaseLRU(u)
  <2>1. /\ UNCHANGED <<io, flush, unfilled>> /\ op[u] = "read" /\ OnlyUser(u) /\ CalmFlags(b)
    BY <1>0, <1>9, ReleaseEffect, WriteFrame DEF ioVars, historyVars, SameData
  <2>2. QED
    BY <1>0, <2>1, WriteFrame, UnfilledFrame DEF CalmWrites
<1>10. CASE ReleaseDirtyLRU(u)
  <2>1. /\ UNCHANGED <<io, flush, unfilled>> /\ pc[u] = "changed" /\ OnlyUser(u)
        /\ OnlyBuffer(held[u]) /\ Dirtied(held[u]) /\ SameData(lru'[held[u]], lru[held[u]])
        /\ SameMirrors(lru'[held[u]], lru[held[u]])
    BY <1>10, ReleaseDirtyEffect DEF ioVars, historyVars
  <2>2. CalmFlags(b)
    <3>1. CASE held[u] = b
      BY <1>0, <2>1, <3>1 DEF Dirtied, SameData, SameMirrors, CalmFlags, BufferWrites, Has
    <3>2. CASE held[u] # b
      BY <1>0, <2>1, <3>2, WriteFrame
    <3>3. QED
      BY <3>1, <3>2
  <2>3. QED
    BY <1>0, <2>1, <2>2, WriteFrame, UnfilledFrame DEF CalmWrites
<1>11. QED
  BY <1>1, <1>2, <1>3, <1>4, <1>5, <1>6, <1>7, <1>8, <1>9, <1>10 DEF ReadLRU, Release

\* The disks, the callback thread and the signals: no write fails, so that the only
\* step that ends a write is the interrupt.
LEMMA QuietWrites ==
  ASSUME ~WriteErrors, TypeInv, LoadInv, WriteInv,
         (\E a \in Buffers, c \in Members : Disk(a, c))
           \/ (\E a \in Buffers : ReleaseAsynchReadAhead(a)) \/ Callback \/ Signals,
         NEW b \in Buffers
  PROVE  CalmWrites(b) /\ NoRetry'
<1>0. BufferWrites(b) /\ BufferLoads(b) /\ NoRetry
  BY DEF WriteInv, LoadInv
<1>1. ASSUME NEW a \in Buffers, NEW c \in Members, Transfer(a, c)
      PROVE  CalmWrites(b) /\ NoRetry'
  <2>1. /\ io[a][c].stage = "queued" /\ Staged(a, c, "moved") /\ CalmFlags(b)
        /\ SameUsers /\ UNCHANGED <<io_callback, flush, cb, unfilled>>
    BY <1>0, <1>1, TransferEffect, WriteFrame DEF historyVars
  <2>2. CalmPending(b)
    BY <1>0, <2>1, WriteFrame
  <2>3. QED
    BY <1>0, <2>1, <2>2, WriteFrame DEF CalmWrites, NoRetry
<1>2. ASSUME NEW a \in Buffers, NEW c \in Members, TransferError(a, c)
      PROVE  CalmWrites(b) /\ NoRetry'
  <2>1. /\ io[a][c].command # "write" /\ Staged(a, c, "failed")
        /\ SameUsers /\ UNCHANGED <<lru, io_callback, flush, cb, unfilled>>
    BY <1>2, TransferErrorEffect DEF historyVars, cacheVars
  <2>2. CalmPending(b)
    BY <1>0, <2>1, WriteFrame
  <2>3. QED
    BY <1>0, <2>1, <2>2, WriteFrame DEF CalmWrites, NoRetry
<1>3. ASSUME NEW a \in Buffers, ReleaseAsynchReadAhead(a)
      PROVE  CalmWrites(b) /\ NoRetry'
  <2>1. /\ io[a][1].command = "ahead" /\ Staged(a, 1, "idle")
        /\ \/ /\ UNCHANGED io_callback
              /\ OnlyBuffer(a)
              /\ lru'[a].state = (lru[a].state \ {"LOADING"}) \cup {"DATAVALID"}
              /\ lru'[a].owner = lru[a].owner /\ lru'[a].block = lru[a].block
              /\ SameMirrors(lru'[a], lru[a])
           \/ Appended(a, "ahead") /\ UNCHANGED lru
        /\ SameUsers /\ UNCHANGED <<flush, cb, unfilled>>
    BY <1>3, AheadEffect DEF SameData, historyVars
  <2>2. CalmPending(b)
    BY <1>0, <2>1, WriteFrame
  <2>3. CalmFlags(b)
    <3>1. CASE a = b /\ ~UNCHANGED lru
      BY <1>0, <2>1, <3>1 DEF CalmFlags, BufferWrites, SameMirrors, Has
    <3>2. CASE ~(a = b /\ ~UNCHANGED lru)
      BY <1>0, <2>1, <3>2, WriteFrame
    <3>3. QED
      BY <3>1, <3>2
  <2>4. NoRetry'
    BY <1>0, <2>1 DEF NoRetry, Appended
  <2>5. QED
    BY <1>0, <2>1, <2>2, <2>3, <2>4, WriteFrame DEF CalmWrites
<1>4. CASE Callback
  <2>1. /\ RetryAsynchReadAhead
    BY <1>0, <1>4, RetryWriteEffect, RetryDoneEffect DEF Callback, NoRetry
  <2> DEFINE a == io_callback[1].lru
  <2>2. /\ a \in Buffers /\ 1 \in DOMAIN io_callback /\ AheadAt(1, a) /\ Shifted(1)
        /\ OnlyBuffer(a) /\ lru'[a].block = lru[a].block /\ SameMirrors(lru'[a], lru[a])
        /\ \/ /\ lru'[a].state = (lru[a].state \ {"LOADING"}) \cup {"DATAVALID"}
              /\ lru'[a].owner = lru[a].owner
           \/ FreedTo(lru'[a], lru[a])
        /\ SameUsers /\ UNCHANGED <<io, flush, cb, unfilled>>
    BY <2>1, RetryAheadEffect DEF AheadAt, FreedTo, SameData, historyVars
  <2> HIDE DEF a
  <2>3. CalmFlags(b)
    <3>1. CASE a = b
      <4>1. Has(b, "LOADING") /\ ~Has(b, "DIRTY") /\ ~Has(b, "FLUSHING")
        BY <1>0, <2>2, <3>1 DEF BufferLoads, LoadEntries, BufferFlags
      <4>2. QED
        BY <1>0, <2>2, <3>1, <4>1 DEF CalmFlags, BufferWrites, SameMirrors, FreedTo, Has
    <3>2. CASE a # b
      BY <1>0, <2>2, <3>2, WriteFrame
    <3>3. QED
      BY <3>1, <3>2
  <2>4. NoRetry'
    BY <1>0, <2>2 DEF NoRetry, Shifted
  <2>5. QED
    BY <1>0, <2>2, <2>3, <2>4, WriteFrame DEF CalmWrites
<1>5. CASE Signals
  <2>1. /\ Untouched /\ SameUsers /\ UNCHANGED <<io, io_callback, cb, unfilled>>
        /\ UNCHANGED flush \/ (~Writes /\ ~Writes')
    BY <1>5, SignalEffect DEF ioVars, historyVars
  <2>2. CalmFlags(b)
    BY <1>0, <2>1
       DEF Untouched, SameFlags, SameData, SameMirrors, CalmFlags, BufferWrites, Has
  <2>3. QED
    BY <1>0, <2>1, <2>2, WriteFrame DEF CalmWrites, NoRetry
<1>6. QED
  BY <1>1, <1>2, <1>3, <1>4, <1>5 DEF Disk

LEMMA PendingCount ==
  ASSUME NEW b \in Buffers, NEW c \in Members,
         \A d \in Members \ {c} : PendingAt(b, d)' <=> PendingAt(b, d)
  PROVE  /\ Cardinality(Pending(b)) \in Nat /\ Cardinality(Pending(b)') \in Nat
         /\ PendingAt(b, c) /\ ~PendingAt(b, c)' =>
              /\ Cardinality(Pending(b)') = Cardinality(Pending(b)) - 1
              /\ Cardinality(Pending(b)) = 1 => \A d \in Members : ~PendingAt(b, d)'
         /\ ~PendingAt(b, c) /\ PendingAt(b, c)' =>
              Cardinality(Pending(b)') = Cardinality(Pending(b)) + 1
<1> DEFINE S == Pending(b)
           T == Pending(b)'
<1>1. IsFiniteSet(S) /\ S \ {c} = T \ {c}
  <2>1. IsFiniteSet(Members)
    BY FS_Interval, NumberAssumption DEF Members
  <2>2. S \in SUBSET Members
    BY DEF Pending
  <2>3. QED
    BY <2>1, <2>2, FS_Subset DEF Pending
<1>2. /\ c \in S <=> PendingAt(b, c)
      /\ c \in T <=> PendingAt(b, c)'
  BY DEF Pending
<1>3. (\A d \in Members : ~PendingAt(b, d)') <=> T = {}
  BY DEF Pending
<1> HIDE DEF S, T
<1>4. /\ IsFiniteSet(T) /\ Cardinality(S) \in Nat /\ Cardinality(T) \in Nat
      /\ c \in T => Cardinality(T) = Cardinality(S) + (IF c \in S THEN 0 ELSE 1)
      /\ c \notin T => Cardinality(T) = Cardinality(S) - (IF c \in S THEN 1 ELSE 0)
  BY <1>1, OneElement
<1>5. Cardinality(T) = 0 <=> T = {}
  BY <1>4, FS_EmptySet
<1>6. /\ Cardinality(S) \in Nat /\ Cardinality(T) \in Nat
      /\ PendingAt(b, c) /\ ~PendingAt(b, c)' =>
           /\ Cardinality(T) = Cardinality(S) - 1
           /\ Cardinality(S) = 1 => \A d \in Members : ~PendingAt(b, d)'
      /\ ~PendingAt(b, c) /\ PendingAt(b, c)' => Cardinality(T) = Cardinality(S) + 1
  BY <1>2, <1>3, <1>4, <1>5
<1>7. QED
  BY <1>6 DEF S, T

\* The interrupt of a write
LEMMA WriteAioWrites ==
  ASSUME ~WriteErrors, TypeInv, WriteInv, NEW a \in Buffers, NEW c \in Members,
         ReleaseWriteAio(a, c)
  PROVE  WriteInv'
<1> DEFINE n == Cardinality(Pending(a))
           m == lru[a].mirrors_completed
           last == m + 1 = Mirrors
<1>1. BufferWrites(a) /\ NoRetry /\ PendingAt(a, c) /\ m \in Nat /\ Mirrors \in Nat
  <2>1. PendingAt(a, c)
    BY WriteAioEffect DEF PendingAt
  <2>2. m \in Nat
    BY DEF TypeInv, CacheInv, LRU
  <2>3. QED
    BY <2>1, <2>2, NumberAssumption DEF WriteInv
<1>2. ~(lru[a].aio_ccode \/ io[a][c].stage = "failed")
  BY <1>1 DEF BufferWrites
<1>3. /\ Staged(a, c, "idle") /\ OnlyBuffer(a) /\ Cleaned(a, last, last /\ ~Has(a, "MODIFIED"))
      /\ SameData(lru'[a], lru[a]) /\ lru'[a].mirrors_completed = m + 1
      /\ ~lru'[a].aio_ccode
      /\ SameUsers /\ UNCHANGED <<io_callback, flush, cb, unfilled>>
  BY <1>2, WriteAioEffect DEF historyVars
<1>4. NoRetry'
  BY <1>1, <1>3 DEF NoRetry
<1>5. ASSUME NEW b \in Buffers \ {a}
      PROVE  BufferWrites(b)'
  <2>1. BufferWrites(b)
    BY DEF WriteInv
  <2>2. CalmWrites(b)
    BY <1>3, <2>1, WriteFrame DEF CalmWrites
  <2>3. QED
    BY <2>1, <2>2, CalmWritesKeeps
<1>6. BufferWrites(a)'
  <2>1. /\ Has(a, "FLUSHING") /\ Has(a, "DIRTY") /\ a \notin unfilled /\ ~Begins(a)
        /\ m + n = Inserted(a) /\ m < Mirrors
    BY <1>1 DEF BufferWrites
  <2>2. Inserted(a)' = Inserted(a) /\ (Begins(a)' <=> Begins(a))
    BY <1>3 DEF Inserted, Begins
  <2>3. Inserted(a) \in Nat /\ Inserted(a) <= Mirrors
    BY <1>1 DEF Inserted, Members, TypeInv, FlushInv
  <2>4. /\ ~PendingAt(a, c)' /\ \A d \in Members \ {c} : PendingAt(a, d)' <=> PendingAt(a, d)
        /\ \A d \in Members \ {c} : io'[a][d] = io[a][d]
    BY <1>3 DEF Staged, OnlyRequest, PendingAt
  <2>5. /\ n \in Nat /\ n' \in Nat /\ n' = n - 1
        /\ n = 1 => \A d \in Members : ~PendingAt(a, d)'
    BY <1>1, <2>4, PendingCount
  <2>6. lru'[a].block = lru[a].block /\ a \notin unfilled'
        /\ ("DIRTY" \in lru'[a].owner <=> Has(a, "DIRTY")')
    BY <1>1, <1>3, <2>1 DEF SameData, Cleaned, BufferWrites, Has
  <2>7. CASE last
    <3>1. n = 1 /\ Inserted(a) = Mirrors
      BY <1>1, <2>1, <2>3, <2>5, <2>7
    <3>2. ~Has(a, "FLUSHING")'
      BY <1>3, <2>7 DEF Cleaned, Has
    <3>3. QED
      BY <1>3, <2>1, <2>2, <2>5, <2>6, <3>1, <3>2 DEF BufferWrites
  <2>8. CASE ~last
    <3>1. Has(a, "FLUSHING")' /\ Has(a, "DIRTY")'
      BY <1>3, <2>1, <2>8 DEF Cleaned, Has
    <3>2. /\ lru'[a].mirrors_completed + n' = Inserted(a)'
          /\ lru'[a].mirrors_completed < Mirrors
      BY <1>1, <1>3, <2>1, <2>2, <2>3, <2>5, <2>8
    <3>3. \A d \in Members : PendingAt(a, d)' =>
            /\ PendingAt(a, d) /\ io'[a][d] = io[a][d]
      BY <2>4
    <3>4. \A d \in Members : PendingAt(a, d)' =>
            /\ d <= Inserted(a)' /\ io'[a][d].stage # "failed"
            /\ io'[a][d].sector = lru'[a].block
      BY <1>1, <2>2, <2>6, <3>3 DEF BufferWrites
    <3>5. QED
      BY <1>3, <2>1, <2>2, <2>6, <3>1, <3>2, <3>4 DEF BufferWrites
  <2>9. QED
    BY <2>7, <2>8
<1>7. QED
  BY <1>4, <1>5, <1>6 DEF WriteInv

\* The flush daemon begins the write of a dirty buffer that nobody holds, or none.
LEMMA WalkWrites ==
  ASSUME TypeInv, CountsInv, WriteInv, flush.pc \in {"start", "relock"},
         flush.pc = "relock" => flush.i = Mirrors,
         WalkEnds \/ \E a \in Buffers : FlushBegins(a),
         SameUsers, UNCHANGED <<io, io_callback, cb, unfilled>>
  PROVE  WriteInv'
<1>1. NoRetry' /\ Mirrors \in Nat
  BY NumberAssumption DEF WriteInv, NoRetry
<1>2. \A b \in Buffers : Inserted(b) = Mirrors /\ ~Begins(b)
  BY DEF Inserted, Begins
<1>3. CASE WalkEnds
  <2>1. ASSUME NEW b \in Buffers
        PROVE  BufferWrites(b)'
    <3>1. BufferWrites(b)
      BY DEF WriteInv
    <3>2. CalmFlush(b)
      BY <1>2, <1>3, <2>1 DEF WalkEnds, CalmFlush, Inserted, Begins
    <3>3. QED
      BY <1>3, <3>1, <3>2, WriteFrame, CalmWritesKeeps DEF WalkEnds, CalmWrites
  <2>2. QED
    BY <1>1, <2>1 DEF WriteInv
<1>4. ASSUME NEW a \in Buffers, FlushBegins(a)
      PROVE  WriteInv'
  <2>1. ASSUME NEW b \in Buffers \ {a}
        PROVE  BufferWrites(b)'
    <3>1. BufferWrites(b)
      BY DEF WriteInv
    <3>2. CalmFlush(b)
      BY <1>2, <1>4 DEF FlushBegins, CalmFlush, Inserted, Begins
    <3>3. QED
      BY <1>4, <3>1, <3>2, WriteFrame, CalmWritesKeeps DEF FlushBegins, CalmWrites
  <2>2. BufferWrites(a)'
    <3>1. BufferWrites(a) /\ lru[a].lock_count = 0 /\ ~Has(a, "FLUSHING") /\ Has(a, "DIRTY")
      BY <1>4 DEF WriteInv, FlushBegins, Eligible, Has
    <3>2. a \notin unfilled
      <4>1. Holders(a) = {}
        <5>1. IsFiniteSet(Holders(a))
          BY FiniteAssumption, FS_Subset DEF Holders
        <5>2. Cardinality(Holders(a)) = 0
          BY <3>1 DEF CountsInv
        <5>3. QED
          BY <5>1, <5>2, FS_EmptySet
      <4>2. QED
        BY <3>1, <4>1 DEF Holders, Holding, BufferWrites, Overwriter
    <3>3. /\ Has(a, "FLUSHING")' /\ Has(a, "DIRTY")' /\ Begins(a)'
          /\ a \notin unfilled'
          /\ "DIRTY" \in lru'[a].owner
      BY <1>4, <3>1, <3>2 DEF FlushBegins, Has, Begins, BufferWrites
    <3>4. ~lru'[a].aio_ccode
      BY <1>4, <3>1, Zenon DEF FlushBegins, SameMirrors, BufferWrites
    <3>5. \A c \in Members : ~PendingAt(a, c)'
      BY <3>1 DEF BufferWrites, PendingAt
    <3>6. QED
      BY <3>3, <3>4, <3>5 DEF BufferWrites
  <2>3. QED
    BY <1>1, <2>1, <2>2 DEF WriteInv
<1>5. QED
  BY <1>3, <1>4

LEMMA InsertWrites ==
  ASSUME TypeInv, WriteInv, FlushInsert
  PROVE  WriteInv'
<1> DEFINE i == flush.i
<1>1. PICK a \in Buffers :
        /\ flush.lru = a /\ flush.pc = "insert" /\ i \in Members
        /\ Queued(a, i, "write") /\ OnlyBuffer(a)
        /\ SameFlags(lru'[a], lru[a]) /\ SameData(lru'[a], lru[a])
        /\ i = 1 => lru'[a].mirrors_completed = 0 /\ lru'[a].aio_ccode = FALSE
        /\ i # 1 => SameMirrors(lru'[a], lru[a])
        /\ flush'.pc = "relock" /\ flush'.lru = a /\ flush'.i = i
        /\ SameUsers /\ UNCHANGED <<io_callback, cb, unfilled>>
  BY InsertEffect DEF historyVars
<1>2. BufferWrites(a) /\ NoRetry' /\ Mirrors \in Nat /\ Mirrors > 0 /\ i \in 1..Mirrors
  BY <1>1, NumberAssumption DEF WriteInv, NoRetry, Members
<1>3. ASSUME NEW b \in Buffers \ {a}
      PROVE  BufferWrites(b)'
  <2>1. BufferWrites(b)
    BY DEF WriteInv
  <2>2. CalmFlush(b)
    BY <1>1 DEF CalmFlush, Inserted, Begins
  <2>3. QED
    BY <1>1, <2>1, <2>2, WriteFrame, CalmWritesKeeps DEF CalmWrites
<1>4. BufferWrites(a)'
  <2> DEFINE n == Cardinality(Pending(a))
  <2>1. Inserted(a) = i - 1 /\ Inserted(a)' = i /\ ~Begins(a)' /\ (Begins(a) <=> i = 1)
    BY <1>1 DEF Inserted, Begins
  <2>2. Has(a, "FLUSHING") /\ Has(a, "DIRTY") /\ a \notin unfilled
    <3>1. ~Has(a, "FLUSHING") => Inserted(a) = Mirrors /\ ~Begins(a)
      BY <1>2 DEF BufferWrites
    <3>2. Has(a, "FLUSHING")
      BY <1>2, <2>1, <3>1
    <3>3. QED
      BY <1>2, <3>2 DEF BufferWrites
  <2>3. /\ PendingAt(a, i)' /\ ~PendingAt(a, i) /\ io'[a][i].stage = "queued"
        /\ io'[a][i].sector = lru'[a].block
        /\ \A d \in Members \ {i} : io'[a][d] = io[a][d]
    BY <1>1 DEF Queued, OnlyRequest, PendingAt
  <2>4. n \in Nat /\ n' = n + 1
    BY <1>1, <2>3, PendingCount DEF PendingAt
  <2>5. /\ lru'[a].block = lru[a].block /\ (Has(a, "FLUSHING") /\ Has(a, "DIRTY"))'
        /\ a \notin unfilled' /\ ("DIRTY" \in lru'[a].owner <=> Has(a, "DIRTY")')
    <3>1. lru'[a].state = lru[a].state /\ lru'[a].owner = lru[a].owner
          /\ lru'[a].block = lru[a].block /\ unfilled' = unfilled
      BY <1>1 DEF SameData, SameFlags
    <3>2. "DIRTY" \in lru[a].owner
      BY <1>2, <2>2 DEF BufferWrites
    <3>3. Has(a, "FLUSHING")' /\ Has(a, "DIRTY")'
      BY <2>2, <3>1 DEF Has
    <3>4. "DIRTY" \in lru'[a].owner /\ a \notin unfilled'
      BY <2>2, <3>1, <3>2
    <3>5. QED
      BY <3>1, <3>3, <3>4 DEF Has
  <2>6. ~lru'[a].aio_ccode
    BY <1>1, <1>2, Zenon DEF SameMirrors, BufferWrites
  <2>7. /\ lru'[a].mirrors_completed + n' = i /\ lru'[a].mirrors_completed < Mirrors
    <3>1. CASE i = 1
      <4>1. \A d \in Members : ~PendingAt(a, d)
        BY <1>2, <2>1, <3>1 DEF BufferWrites
      <4>2. Pending(a) = {}
        BY <4>1 DEF Pending
      <4>3. n = 0
        BY <4>2, FS_EmptySet
      <4>4. QED
        BY <1>1, <1>2, <2>4, <3>1, <4>3
    <3>2. CASE i # 1
      <4>1. /\ lru[a].mirrors_completed + n = i - 1 /\ lru[a].mirrors_completed < Mirrors
        BY <1>2, <2>1, <2>2, <3>2 DEF BufferWrites
      <4>2. lru'[a].mirrors_completed = lru[a].mirrors_completed
            /\ lru[a].mirrors_completed \in Nat
        BY <1>1, <3>2 DEF SameMirrors, TypeInv, CacheInv, LRU
      <4>3. QED
        BY <1>2, <2>4, <4>1, <4>2
    <3>3. QED
      BY <3>1, <3>2
  <2>8. \A d \in Members : PendingAt(a, d)' =>
          d <= i /\ io'[a][d].stage # "failed" /\ io'[a][d].sector = lru'[a].block
    <3>1. ASSUME NEW d \in Members \ {i}, PendingAt(a, d)'
          PROVE  d <= i /\ io'[a][d].stage # "failed" /\ io'[a][d].sector = lru'[a].block
      <4>1. PendingAt(a, d)
        BY <2>3, <3>1 DEF PendingAt
      <4>2. d <= i - 1 /\ io[a][d].stage # "failed" /\ io[a][d].sector = lru[a].block
        BY <1>2, <2>1, <4>1 DEF BufferWrites
      <4>3. d \in Int
        BY DEF Members
      <4>4. QED
        BY <1>2, <2>3, <2>5, <4>2, <4>3
    <3>2. QED
      BY <1>2, <2>3, <3>1
  <2>9. /\ lru'[a].mirrors_completed + n' = Inserted(a)'
        /\ \A d \in Members : PendingAt(a, d)' => d <= Inserted(a)'
    BY <2>1, <2>7, <2>8
  <2> HIDE DEF i
  <2>10. /\ (~lru[a].aio_ccode /\ ("DIRTY" \in lru[a].owner <=> Has(a, "DIRTY")))'
         /\ (Has(a, "FLUSHING") => Has(a, "DIRTY") /\ a \notin unfilled)'
         /\ (Has(a, "FLUSHING") /\ ~Begins(a) =>
              /\ lru[a].mirrors_completed + n = Inserted(a)
              /\ lru[a].mirrors_completed < Mirrors)'
         /\ (~Has(a, "FLUSHING") => Inserted(a) = Mirrors /\ ~Begins(a))'
    BY <2>1, <2>5, <2>6, <2>7, <2>9 DEF Has
  <2>11. (\A c \in Members : PendingAt(a, c) =>
           /\ Has(a, "FLUSHING") /\ ~Begins(a) /\ c <= Inserted(a)
           /\ io[a][c].stage # "failed" /\ io[a][c].sector = lru[a].block)'
    BY <2>1, <2>5, <2>8, <2>9
  <2>12. (a \in unfilled => \E u \in Users : Overwriter(u, a))'
    BY <2>5
  <2>13. QED
    BY <2>10, <2>11, <2>12 DEF BufferWrites
<1>5. QED
  BY <1>2, <1>3, <1>4 DEF WriteInv

LEMMA RelockWrites ==
  ASSUME TypeInv, CountsInv, WriteInv, FlushRelock
  PROVE  WriteInv'
<1>1. /\ flush.pc = "relock" /\ flush.i \in Members /\ flush.lru \in Buffers
      /\ \/ /\ flush.i < Mirrors /\ UNCHANGED lru
            /\ flush'.pc = "insert" /\ flush'.lru = flush.lru /\ flush'.i = flush.i + 1
         \/ flush.i = Mirrors /\ (WalkEnds \/ \E b \in Buffers : FlushBegins(b))
      /\ SameUsers /\ UNCHANGED <<io, io_callback, cb, unfilled>>
  BY RelockEffect DEF ioVars, historyVars
<1>2. CASE flush.i = Mirrors /\ (WalkEnds \/ \E b \in Buffers : FlushBegins(b))
  BY <1>1, <1>2, WalkWrites
<1>3. CASE /\ flush.i < Mirrors /\ UNCHANGED lru
           /\ flush'.pc = "insert" /\ flush'.lru = flush.lru /\ flush'.i = flush.i + 1
  <2>1. ASSUME NEW b \in Buffers
        PROVE  BufferWrites(b)'
    <3>1. BufferWrites(b) /\ flush.i \in Nat /\ flush.i # 0
      BY <1>1 DEF WriteInv, Members
    <3>2. CalmFlush(b)
      BY <1>1, <1>3, <3>1 DEF CalmFlush, Inserted, Begins
    <3>3. QED
      BY <1>1, <1>3, <3>1, <3>2, WriteFrame, CalmWritesKeeps DEF CalmWrites
  <2>2. QED
    BY <1>1, <2>1 DEF WriteInv, NoRetry
<1>4. QED
  BY <1>1, <1>2, <1>3

LEMMA WriteStep ==
  ASSUME ~WriteErrors
  PROVE  TypeInv /\ ReadInv /\ CountsInv /\ LoadInv /\ WriteInv /\ [Next]_vars => WriteInv'
<1> SUFFICES ASSUME TypeInv, ReadInv, CountsInv, LoadInv, WriteInv, [Next]_vars
             PROVE  WriteInv'
  OBVIOUS
<1>1. ASSUME NEW u \in Users, Call(u) \/ ReadLRU(u) \/ Release(u)
      PROVE  WriteInv'
  <2>1. UNCHANGED <<io_callback, cb>>
    BY <1>1 DEF Call, ReadLRU, Release, PerformBlockReadAhead, ReadLRUHit, ReadLRUWait,
       WaitOnBuffer, ReadLRUFill, ReadLRUNoFill, ReadLRUNone, FillBlock, FillBlockError, Refill,
       RefillError, CopyIn, ReleaseLRU, ReleaseDirtyLRU, ioVars
  <2>2. QED
    BY <1>1, <2>1, UserWrites, CalmWritesKeeps DEF WriteInv, NoRetry
<1>2. ASSUME (\E a \in Buffers, c \in Members : Disk(a, c))
               \/ (\E a \in Buffers : ReleaseAsynchReadAhead(a)) \/ Callback \/ Signals
      PROVE  WriteInv'
  <2>1. \A b \in Buffers : CalmWrites(b) /\ NoRetry'
    BY <1>2, QuietWrites
  <2>2. ASSUME Buffers = {}
        PROVE  NoRetry'
    <3>1. ~(\E a \in Buffers, c \in Members : Disk(a, c)) /\ ~Callback
      BY <2>2, RetryAheadEffect, RetryWriteEffect, RetryDoneEffect DEF Callback
    <3>2. QED
      BY <1>2, <2>2, <3>1, SignalEffect DEF WriteInv, NoRetry, ioVars
  <2>3. QED
    BY <2>1, <2>2, CalmWritesKeeps DEF WriteInv
<1>3. CASE FlushStart
  BY <1>3, StartEffect, WalkWrites DEF ioVars, historyVars
<1>4. ASSUME NEW a \in Buffers, NEW c \in Members, Interrupt(a, c)
      PROVE  WriteInv'
  BY <1>2, <1>4, WriteAioWrites DEF Interrupt
<1>5. CASE FlushDaemon
  BY <1>2, <1>3, <1>5, InsertWrites, RelockWrites DEF FlushDaemon, Signals
<1>6. CASE LRUTimer \/ Age \/ UNCHANGED vars
  BY <1>2, <1>6 DEF Signals
<1>7. QED
  BY <1>1, <1>2, <1>4, <1>5, <1>6 DEF Next

LEMMA InitWrites == Init => WriteInv
<1>1. Init => NoRetry
  BY DEF Init, NoRetry
<1> SUFFICES ASSUME Init, NEW b \in Buffers
             PROVE  BufferWrites(b)
  BY <1>1 DEF WriteInv
<1>2. ~lru[b].aio_ccode /\ lru[b].owner = {} /\ lru[b].state = {"FREE"} /\ unfilled = {}
  BY DEF Init
<1>3. Inserted(b) = Mirrors /\ ~Begins(b) /\ \A c \in Members : ~PendingAt(b, c)
  BY DEF Init, Inserted, Begins, PendingAt
<1>4. QED
  BY <1>2, <1>3 DEF BufferWrites, Has

LEMMA WriteInvariant ==
  ASSUME ~WriteErrors
  PROVE  Spec => []WriteInv
<1> DEFINE Inv == TypeInv /\ ReadInv /\ CountsInv /\ LoadInv /\ WriteInv
<1>1. Init => Inv
  <2>1. Init => ReadInv
    BY DEF Init, ReadInv, OneBufferPerBlock, Hashed, AllAwaited, Awaited
  <2>2. QED
    BY <2>1, InitTypes, InitCounts, InitLoads, InitWrites
<1>2. Inv /\ [Next]_vars => Inv'
  BY TypeStep, ReadStep, CountsStep, LoadStep, WriteStep
<1>3. QED
  BY <1>1, <1>2, PTL DEF Spec

-----------------------------------------------------------------------------
(* A buffer is FLUSHING exactly while a write of it is under way.           *)

LEMMA WritingIsFlushing ==
  ASSUME TypeInv, WriteInv, NEW b \in Buffers
  PROVE  Writing(b) <=> Has(b, "FLUSHING")
<1> DEFINE m == lru[b].mirrors_completed
           n == Cardinality(Pending(b))
<1>1. BufferWrites(b) /\ NoRetry
  BY DEF WriteInv
<1>2. m \in Nat /\ Mirrors \in Nat /\ flush.i \in 1..Mirrors
  BY NumberAssumption DEF TypeInv, CacheInv, LRU, FlushInv, Members
<1>3. ASSUME Writing(b)
      PROVE  Has(b, "FLUSHING")
  <2>1. CASE \E c \in Members : PendingAt(b, c)
    BY <1>1, <2>1 DEF BufferWrites
  <2>2. CASE flush.lru = b /\ (flush.pc = "insert" \/ (flush.pc = "relock" /\ flush.i < Mirrors))
    <3>1. Inserted(b) # Mirrors
      BY <1>2, <2>2 DEF Inserted
    <3>2. QED
      BY <1>1, <3>1 DEF BufferWrites
  <2>3. ~\E k \in DOMAIN io_callback : io_callback[k] = [lru |-> b, command |-> "write"]
    BY <1>1 DEF NoRetry
  <2>4. QED
    BY <1>1, <1>3, <2>1, <2>2, <2>3 DEF Writing, PendingAt, NoRetry
<1>4. ASSUME Has(b, "FLUSHING"), \A c \in Members : ~PendingAt(b, c)
      PROVE  flush.lru = b /\ (flush.pc = "insert" \/ (flush.pc = "relock" /\ flush.i < Mirrors))
  <2>1. CASE Begins(b)
    BY <2>1 DEF Begins
  <2>2. CASE ~Begins(b)
    <3>1. Pending(b) = {}
      BY <1>4 DEF Pending
    <3>2. n = 0
      BY <3>1, FS_EmptySet
    <3>3. m + n = Inserted(b) /\ m < Mirrors
      BY <1>1, <1>4, <2>2 DEF BufferWrites
    <3>4. Inserted(b) < Mirrors
      BY <1>2, <3>2, <3>3
    <3>5. QED
      BY <1>2, <3>4 DEF Inserted
  <2>3. QED
    BY <2>1, <2>2
<1>5. QED
  BY <1>3, <1>4 DEF Writing, PendingAt

LEMMA RequestsApart ==
  ASSUME TypeInv, ReadInv, CountsInv, LoadInv, WriteInv
  PROVE  OneWriteAtATime
<1>1. \A b \in Buffers : Writing(b) <=> Has(b, "FLUSHING")
  BY WritingIsFlushing
<1>2. ASSUME NEW b \in Buffers, ~Has(b, "LOADING")
      PROVE  ~InCallback(b) /\ \A c \in Members : io[b][c].stage # "idle" => PendingAt(b, c)
  <2>1. BufferLoads(b) /\ NoRetry
    BY DEF LoadInv, WriteInv
  <2>2. ~InCallback(b)
    BY <1>2, <2>1 DEF BufferLoads, LoadEntries, AheadAt, NoRetry, InCallback
  <2>3. \A c \in Members : ~LoadReq(b, c)
    BY <1>2, <2>1 DEF BufferLoads, LoadRequests
  <2>4. QED
    BY <2>2, <2>3 DEF LoadReq, PendingAt
<1>3. ASSUME flush.pc = "insert"
      PROVE  io[flush.lru][flush.i].stage = "idle" /\ ~InCallback(flush.lru)
  <2>1. PICK b \in Buffers : flush.lru = b
    BY <1>3 DEF TypeInv, FlushInv, Known
  <2>2. PICK i \in Members : flush.i = i
    BY DEF TypeInv, FlushInv
  <2>3. Has(b, "FLUSHING") /\ BufferLoads(b) /\ BufferWrites(b)
    BY <1>1, <1>3, <2>1 DEF Writing, LoadInv, WriteInv
  <2>4. ~Has(b, "LOADING")
    BY <2>3 DEF BufferLoads, BufferFlags
  <2>5. ~PendingAt(b, i)
    <3>1. Inserted(b) = i - 1 /\ i \in Int
      BY <1>3, <2>1, <2>2 DEF Inserted, Members
    <3>2. QED
      BY <2>3, <3>1 DEF BufferWrites
  <2>6. QED
    BY <1>2, <2>1, <2>2, <2>4, <2>5
<1>4. ASSUME NEW b \in GetAvailableLRU
      PROVE  ~InCallback(b) /\ \A c \in Members : io[b][c].stage = "idle"
  <2>1. b \in Buffers /\ ~Has(b, "LOADING") /\ ~Has(b, "FLUSHING")
    BY <1>4, AvailableIsIdle DEF Has
  <2>2. \A c \in Members : ~PendingAt(b, c)
    BY <2>1 DEF WriteInv, BufferWrites
  <2>3. QED
    BY <1>2, <2>1, <2>2
<1>5. QED
  BY <1>1, <1>3, <1>4 DEF OneWriteAtATime

-----------------------------------------------------------------------------
(* The count of the dirty buffers                                          *)

DirtyBuffers == {b \in Buffers : Has(b, "DIRTY")}
DirtyInv == LRUDirtyBuffers = Cardinality(DirtyBuffers)

LEMMA OneDirty ==
  ASSUME DirtyInv, NEW a \in Buffers, OnlyBuffer(a),
         \/ (Has(a, "DIRTY")' <=> Has(a, "DIRTY")) /\ UNCHANGED LRUDirtyBuffers
         \/ ~Has(a, "DIRTY") /\ Has(a, "DIRTY")' /\ LRUDirtyBuffers' = LRUDirtyBuffers + 1
         \/ /\ Has(a, "DIRTY") /\ ~Has(a, "DIRTY")'
            /\ LRUDirtyBuffers' = LessDirty(LRUDirtyBuffers)
  PROVE  DirtyInv'
<1> DEFINE S == DirtyBuffers
           T == DirtyBuffers'
<1>1. S \in SUBSET Buffers
  BY DEF DirtyBuffers
<1>2. IsFiniteSet(S)
  BY <1>1, FiniteAssumption, FS_Subset
<1>3. /\ S \ {a} = T \ {a}
      /\ a \in S <=> Has(a, "DIRTY")
      /\ a \in T <=> Has(a, "DIRTY")'
  BY DEF DirtyBuffers, Has, OnlyBuffer
<1> HIDE DEF S, T
<1>4. /\ Cardinality(S) \in Nat /\ Cardinality(T) \in Nat
      /\ a \in T => Cardinality(T) = Cardinality(S) + (IF a \in S THEN 0 ELSE 1)
      /\ a \notin T => Cardinality(T) = Cardinality(S) - (IF a \in S THEN 1 ELSE 0)
  BY <1>2, <1>3, OneElement
<1>5. LRUDirtyBuffers = Cardinality(S)
  BY DEF DirtyInv, S
<1>6. LRUDirtyBuffers' = Cardinality(T)
  BY <1>3, <1>4, <1>5 DEF LessDirty, Has
<1>7. QED
  BY <1>6 DEF DirtyInv, T

LEMMA SameDirty ==
  ASSUME DirtyInv, UNCHANGED LRUDirtyBuffers,
         \A b \in Buffers : Has(b, "DIRTY")' <=> Has(b, "DIRTY")
  PROVE  DirtyInv'
<1>1. DirtyBuffers' = DirtyBuffers
  BY DEF DirtyBuffers, Has
<1>2. QED
  BY <1>1 DEF DirtyInv

LEMMA UserDirty ==
  ASSUME TypeInv, ReadInv, CountsInv, LoadInv, WriteInv, DirtyInv,
         NEW u \in Users, Call(u) \/ ReadLRU(u) \/ Release(u)
  PROVE  DirtyInv'
<1>a. ASSUME NEW a \in Buffers, NEW k, NEW flags, NEW n, Took(a, k, flags, n),
             flags = {"LOADING"} \/ flags = {"DATAVALID"}, UNCHANGED LRUDirtyBuffers
      PROVE  DirtyInv'
  <2>1. ~Has(a, "DIRTY") /\ ~Has(a, "DIRTY")' /\ OnlyBuffer(a)
    BY <1>a, AvailableIsIdle DEF Took, Has
  <2>2. QED
    BY <1>a, <2>1, OneDirty
<1>1. CASE Call(u) \/ ReadLRUNone(u)
  <2>1. UNCHANGED <<lru, LRUDirtyBuffers>>
    BY <1>1 DEF Call, ReadLRUNone, cacheVars
  <2>2. QED
    BY <2>1, SameDirty DEF Has
<1>2. CASE PerformBlockReadAhead(u)
  <2>1. /\ UNCHANGED LRUDirtyBuffers
        /\ \/ UNCHANGED lru
           \/ \E a \in Buffers, k \in Blocks : Took(a, k, {"LOADING"}, 0)
    BY <1>2, ReadAheadEffect
  <2>2. QED
    BY <1>a, <2>1, SameDirty DEF Has
<1>3. CASE ReadLRUHit(u) \/ ReadLRUWait(u) \/ WaitOnBuffer(u) \/ CopyIn(u) \/ ReleaseLRU(u)
  <2>1. UNCHANGED LRUDirtyBuffers /\ \E a \in Buffers : OnlyBuffer(a) /\ SameFlags(lru'[a], lru[a])
    <3>1. CASE ReadLRUHit(u) \/ ReadLRUWait(u)
      BY <3>1, HitEffect, WaitEffect
    <3>2. CASE WaitOnBuffer(u)
      BY <3>2, WaitOnBufferEffect
    <3>3. CASE CopyIn(u) \/ ReleaseLRU(u)
      BY <3>3, CopyInEffect, ReleaseEffect
    <3>4. QED
      BY <1>3, <3>1, <3>2, <3>3
  <2>2. QED
    BY <2>1, SameDirty DEF OnlyBuffer, SameFlags, Has
<1>4. CASE ReadLRUFill(u) \/ ReadLRUNoFill(u)
  BY <1>4, <1>a, MissEffect
<1>5. CASE FillBlock(u) \/ FillBlockError(u) \/ Refill(u) \/ RefillError(u)
  <2>1. PICK a \in Buffers :
        /\ held[u] = a /\ Loading(u) /\ UNCHANGED LRUDirtyBuffers
        /\ OnlyBuffer(a)
        /\ \/ lru'[a].state = (lru[a].state \ {"LOADING"}) \cup {"DATAVALID"}
           \/ UNCHANGED lru
           \/ FreedTo(lru'[a], lru[a])
    <3>1. CASE FillBlock(u)
      BY <3>1, FillEffect DEF Loading
    <3>2. CASE FillBlockError(u)
      BY <3>2, FillErrorEffect DEF Loading, cacheVars, OnlyBuffer
    <3>3. CASE Refill(u)
      BY <3>3, RefillEffect DEF Loading
    <3>4. CASE RefillError(u)
      BY <3>4, RefillErrorEffect DEF Loading
    <3>5. QED
      BY <1>5, <3>1, <3>2, <3>3, <3>4
  <2>2. ~Has(a, "DIRTY")
    BY <2>1 DEF LoadInv, BufferLoads, LoadUsers, BufferFlags
  <2>3. Has(a, "DIRTY")' <=> Has(a, "DIRTY")
    BY <2>1, <2>2 DEF FreedTo, Has
  <2>4. QED
    BY <2>1, <2>3, OneDirty
<1>6. CASE ReleaseDirtyLRU(u)
  <2>1. PICK a \in Buffers : held[u] = a /\ OnlyBuffer(a) /\ Dirtied(a)
    BY <1>6, ReleaseDirtyEffect
  <2>2. "DIRTY" \in lru[a].owner <=> Has(a, "DIRTY")
    BY <2>1 DEF WriteInv, BufferWrites
  <2>3. \/ (Has(a, "DIRTY")' <=> Has(a, "DIRTY")) /\ UNCHANGED LRUDirtyBuffers
        \/ ~Has(a, "DIRTY") /\ Has(a, "DIRTY")' /\ LRUDirtyBuffers' = LRUDirtyBuffers + 1
    BY <2>1, <2>2 DEF Dirtied, Has
  <2>4. QED
    BY <2>1, <2>3, OneDirty
<1>7. QED
  BY <1>1, <1>2, <1>3, <1>4, <1>5, <1>6 DEF ReadLRU, Release

LEMMA DirtyStep ==
  ASSUME ~WriteErrors
  PROVE  TypeInv /\ ReadInv /\ CountsInv /\ LoadInv /\ WriteInv /\ DirtyInv /\ [Next]_vars
           => DirtyInv'
<1> SUFFICES ASSUME TypeInv, ReadInv, CountsInv, LoadInv, WriteInv, DirtyInv, [Next]_vars
             PROVE  DirtyInv'
  OBVIOUS
<1>1. ASSUME NEW a \in Buffers, NEW c \in Members, Disk(a, c)
      PROVE  DirtyInv'
  <2>1. UNCHANGED LRUDirtyBuffers /\ \A b \in Buffers : Has(b, "DIRTY")' <=> Has(b, "DIRTY")
    BY <1>1, TransferEffect, TransferErrorEffect DEF Disk, OnlyBuffer, SameFlags, cacheVars, Has
  <2>2. QED
    BY <2>1, SameDirty
<1>2. ASSUME NEW a \in Buffers, NEW c \in Members, Interrupt(a, c)
      PROVE  DirtyInv'
  <2>1. CASE ReleaseAsynchReadAhead(a)
    <3>1. UNCHANGED LRUDirtyBuffers /\ \A b \in Buffers : Has(b, "DIRTY")' <=> Has(b, "DIRTY")
      BY <2>1, AheadEffect DEF OnlyBuffer, Has
    <3>2. QED
      BY <3>1, SameDirty
  <2>2. CASE ReleaseWriteAio(a, c)
    <3>1. PendingAt(a, c)
      BY <2>2, WriteAioEffect DEF PendingAt
    <3>2. Has(a, "DIRTY")
      BY <3>1 DEF WriteInv, BufferWrites
    <3>3. OnlyBuffer(a) /\ \E done, clean : Cleaned(a, done, clean)
      BY <2>2, WriteAioEffect
    <3>4. \/ (Has(a, "DIRTY")' <=> Has(a, "DIRTY")) /\ UNCHANGED LRUDirtyBuffers
          \/ ~Has(a, "DIRTY")' /\ LRUDirtyBuffers' = LessDirty(LRUDirtyBuffers)
      BY <3>2, <3>3 DEF Cleaned, Has
    <3>5. QED
      BY <3>2, <3>3, <3>4, OneDirty
  <2>3. QED
    BY <1>2, <2>1, <2>2 DEF Interrupt
<1>3. CASE Callback
  <2>1. RetryAsynchReadAhead
    BY <1>3, RetryWriteEffect, RetryDoneEffect DEF Callback, WriteInv, NoRetry
  <2>2. PICK a \in Buffers :
          /\ AheadAt(1, a) /\ 1 \in DOMAIN io_callback /\ OnlyBuffer(a)
          /\ UNCHANGED LRUDirtyBuffers
          /\ \/ lru'[a].state = (lru[a].state \ {"LOADING"}) \cup {"DATAVALID"}
             \/ FreedTo(lru'[a], lru[a])
    BY <2>1, RetryAheadEffect DEF AheadAt
  <2>3. ~Has(a, "DIRTY")
    BY <2>2 DEF LoadInv, BufferLoads, LoadEntries, BufferFlags
  <2>4. Has(a, "DIRTY")' <=> Has(a, "DIRTY")
    BY <2>2, <2>3 DEF FreedTo, Has
  <2>5. QED
    BY <2>2, <2>4, OneDirty
<1>4. CASE FlushDaemon \/ LRUTimer \/ Age \/ UNCHANGED vars
  <2>1. ASSUME NEW a \in Buffers, FlushBegins(a)
        PROVE  \A b \in Buffers : Has(b, "DIRTY")' <=> Has(b, "DIRTY")
    BY <2>1 DEF FlushBegins, OnlyBuffer, Has
  <2>2. CASE FlushStart \/ FlushRelock
    BY <2>1, <2>2, StartEffect, RelockEffect, SameDirty DEF WalkEnds, Has
  <2>3. CASE FlushInsert
    <3>1. UNCHANGED LRUDirtyBuffers /\ \A b \in Buffers : Has(b, "DIRTY")' <=> Has(b, "DIRTY")
      BY <2>3, InsertEffect DEF OnlyBuffer, SameFlags, Has
    <3>2. QED
      BY <3>1, SameDirty
  <2>4. CASE Signals
    BY <2>4, SignalEffect, SameDirty DEF Untouched, SameFlags, Has
  <2>5. QED
    BY <1>4, <2>2, <2>3, <2>4 DEF FlushDaemon, Signals
<1>5. QED
  BY <1>1, <1>2, <1>3, <1>4, UserDirty DEF Next

LEMMA InitDirty == Init => DirtyInv
<1> SUFFICES ASSUME Init
             PROVE  DirtyInv
  OBVIOUS
<1>1. DirtyBuffers = {}
  BY DEF Init, DirtyBuffers, Has
<1>2. LRUDirtyBuffers = 0
  BY DEF Init
<1>3. QED
  BY <1>1, <1>2, FS_EmptySet DEF DirtyInv

\* The number that decides when ReadLRU wakes the flush daemon is that of the dirty
\* buffers, and every buffer counts the callers that hold it and that wait for it, as
\* long as no write to a disk fails.
THEOREM CountsStayExact ==
  ASSUME ~WriteErrors
  PROVE  Spec => []CountsExact
<1> DEFINE Inv == TypeInv /\ ReadInv /\ CountsInv /\ LoadInv /\ WriteInv /\ DirtyInv
<1>1. Init => Inv
  <2>1. Init => ReadInv
    BY DEF Init, ReadInv, OneBufferPerBlock, Hashed, AllAwaited, Awaited
  <2>2. QED
    BY <2>1, InitTypes, InitCounts, InitLoads, InitWrites, InitDirty
<1>2. Inv /\ [Next]_vars => Inv'
  BY TypeStep, ReadStep, CountsStep, LoadStep, WriteStep, DirtyStep
<1>3. Inv => CountsExact
  BY DEF CountsInv, DirtyInv, DirtyBuffers, CountsExact, Holders, Sleepers
<1>4. QED
  BY <1>1, <1>2, <1>3, PTL DEF Spec

\* No buffer is flushed twice at a time or taken for another block under a write, a
\* flush that has begun has a request that ends it, and no request is initialised
\* while it is in flight, as long as no write to a disk fails.
THEOREM WritesDoNotOverlap ==
  ASSUME ~WriteErrors
  PROVE  Spec => []OneWriteAtATime
<1> DEFINE Inv == TypeInv /\ ReadInv /\ CountsInv /\ LoadInv /\ WriteInv
<1>1. Init => Inv
  <2>1. Init => ReadInv
    BY DEF Init, ReadInv, OneBufferPerBlock, Hashed, AllAwaited, Awaited
  <2>2. QED
    BY <2>1, InitTypes, InitCounts, InitLoads, InitWrites
<1>2. Inv /\ [Next]_vars => Inv'
  BY TypeStep, ReadStep, CountsStep, LoadStep, WriteStep
<1>3. Inv => OneWriteAtATime
  BY RequestsApart
<1>4. QED
  BY <1>1, <1>2, <1>3, PTL DEF Spec

-----------------------------------------------------------------------------
(* The data.  A valid buffer has the newest contents of its block; a load   *)
(* finds them on the disk; a write that nobody has overtaken has brought    *)
(* them to every disk it has completed on; and a block whose newest         *)
(* contents are not on every disk is in a buffer that is to be written.     *)

Changing(b)   == \E u \in Users : pc[u] = "changed" /\ held[u] = b
Changed(b)    == Hashed(b) /\ (Has(b, "DIRTY") \/ Changing(b))
Arrived(b)    == LoadReq(b, 1) /\ io[b][1].stage = "moved"
Stable(b)     == Has(b, "FLUSHING") /\ ~Has(b, "MODIFIED") /\ ~Changing(b)
Done(b, c)    == c <= Inserted(b) /\ ~(PendingAt(b, c) /\ io[b][c].stage = "queued")

Current(b)    == Hashed(b) /\ Has(b, "DATAVALID") /\ b \notin unfilled
                   => lru[b].buffer = Newest(lru[b].block)
LoadedData(b) == Arrived(b) => lru[b].buffer = Newest(lru[b].block)
Written(b)    == Stable(b) => \A c \in Members :
                                Done(b, c) => disk[c][lru[b].block] = Newest(lru[b].block)
BufferData(b) == Current(b) /\ LoadedData(b) /\ Written(b)
BlockSafe(k)  == \/ \A c \in Members : disk[c][k] = Newest(k)
                 \/ \E b \in Buffers : Changed(b) /\ lru[b].block = k
DiskOwn       == \A c \in Members, k \in Blocks : disk[c][k].block = k
DataInv       == DiskOwn /\ (\A b \in Buffers : BufferData(b)) /\ (\A k \in Blocks : BlockSafe(k))

\* A step that leaves what is known of the data of buffer b alone
QuietData(b) ==
  /\ SameData(lru'[b], lru[b])
  /\ Hashed(b)' => Hashed(b)
  /\ Has(b, "DATAVALID")' => Has(b, "DATAVALID")
  /\ b \in unfilled => b \in unfilled'
QuietFlush(b) == Stable(b)' => Stable(b)
QuietIo(b) ==
  /\ Arrived(b)' => Arrived(b)
  /\ \A c \in Members : Done(b, c)' => Done(b, c)
QuietBuffer(b) ==
  QuietData(b) /\ QuietIo(b) /\ (QuietFlush(b) \/ \A c \in Members : ~Done(b, c)')
QuietDirty(b) == Changed(b) => Changed(b)' /\ lru'[b].block = lru[b].block

LEMMA QuietKeeps ==
  ASSUME DataInv, UNCHANGED <<latest, disk>>
  PROVE  /\ \A b \in Buffers : QuietBuffer(b) => BufferData(b)'
         /\ (\A b \in Buffers : QuietDirty(b)) => DiskOwn' /\ \A k \in Blocks : BlockSafe(k)'
<1>1. \A k : Newest(k)' = Newest(k)
  BY DEF Newest
<1>2. ASSUME NEW b \in Buffers, QuietBuffer(b)
      PROVE  BufferData(b)'
  <2>1. BufferData(b) /\ lru'[b].block = lru[b].block /\ lru'[b].buffer = lru[b].buffer
    BY <1>2 DEF DataInv, QuietBuffer, QuietData, SameData
  <2>2. Newest(lru[b].block)' = Newest(lru[b].block)
    BY <1>1, <2>1 DEF Newest
  <2>3. Current(b)'
    BY <1>2, <2>1, <2>2 DEF BufferData, QuietBuffer, QuietData, Current
  <2>4. LoadedData(b)'
    BY <1>2, <2>1, <2>2 DEF BufferData, QuietBuffer, QuietIo, LoadedData
  <2>5. Written(b)'
    BY <1>2, <2>1, <2>2 DEF BufferData, QuietBuffer, QuietIo, QuietFlush, Written
  <2>6. QED
    BY <2>3, <2>4, <2>5 DEF BufferData
<1>3. ASSUME \A b \in Buffers : QuietDirty(b), NEW k \in Blocks
      PROVE  BlockSafe(k)'
  <2>1. Newest(k)' = Newest(k) /\ BlockSafe(k)
    BY <1>1 DEF DataInv
  <2>2. QED
    BY <1>3, <2>1 DEF BlockSafe, QuietDirty
<1>4. DiskOwn'
  BY DEF DataInv, DiskOwn
<1>5. QED
  BY <1>2, <1>3, <1>4

\* What of a step is quiet
LEMMA QuietFrame ==
  ASSUME TypeInv, NEW b \in Buffers
  PROVE  /\ \A a : OnlyBuffer(a) /\ a # b /\ unfilled \subseteq unfilled' => QuietData(b)
         /\ UNCHANGED <<lru, unfilled>> => QuietData(b)
         /\ \A a : OnlyBuffer(a) /\ SameData(lru'[a], lru[a]) /\ SameFlags(lru'[a], lru[a])
                     /\ UNCHANGED unfilled => QuietData(b)
         /\ UNCHANGED <<io, flush>> => QuietIo(b)
         /\ \A a, c, command : Queued(a, c, command) /\ UNCHANGED flush => QuietIo(b)
         /\ \A a \in Buffers : \A c, s :
              Staged(a, c, s) /\ UNCHANGED flush
                /\ \/ a # b
                   \/ s # "moved" /\ (io[a][c].command # "write" \/ io[a][c].stage # "queued")
                => QuietIo(b)
<1>1. \A a : OnlyBuffer(a) /\ a # b /\ unfilled \subseteq unfilled' => QuietData(b)
  BY DEF OnlyBuffer, QuietData, SameData, Has, Hashed
<1>2. UNCHANGED <<lru, unfilled>> => QuietData(b)
  BY DEF QuietData, SameData, Has, Hashed
<1>3. \A a : OnlyBuffer(a) /\ SameData(lru'[a], lru[a]) /\ SameFlags(lru'[a], lru[a])
                     /\ UNCHANGED unfilled => QuietData(b)
  BY DEF OnlyBuffer, QuietData, SameData, SameFlags, Has, Hashed
<1>4. UNCHANGED <<io, flush>> => QuietIo(b)
  BY DEF QuietIo, Arrived, LoadReq, Done, PendingAt, Inserted
<1>5. UNCHANGED flush => Inserted(b)' = Inserted(b)
  BY DEF Inserted
<1>6. ASSUME NEW a, NEW c, NEW command, Queued(a, c, command), UNCHANGED flush
      PROVE  QuietIo(b)
  <2>1. Arrived(b)' => Arrived(b)
    BY <1>6, NumberAssumption DEF Queued, OnlyRequest, Arrived, LoadReq, Members
  <2>2. ASSUME NEW d \in Members, Done(b, d)'
        PROVE  Done(b, d)
    <3>1. CASE a = b /\ d = c
      BY <1>5, <1>6, <2>2, <3>1 DEF Queued, Done, PendingAt
    <3>2. CASE ~(a = b /\ d = c)
      BY <1>5, <1>6, <2>2, <3>2 DEF Queued, OnlyRequest, Done, PendingAt
    <3>3. QED
      BY <3>1, <3>2
  <2>3. QED
    BY <2>1, <2>2 DEF QuietIo
<1>7. ASSUME NEW a \in Buffers, NEW c, NEW s, Staged(a, c, s), UNCHANGED flush,
             \/ a # b
             \/ s # "moved" /\ (io[a][c].command # "write" \/ io[a][c].stage # "queued")
      PROVE  QuietIo(b)
  <2>1. Arrived(b)' => Arrived(b)
    BY <1>7, NumberAssumption DEF Staged, OnlyRequest, Arrived, LoadReq, Members
  <2>2. ASSUME NEW d \in Members, Done(b, d)'
        PROVE  Done(b, d)
    <3>1. CASE a = b /\ d = c
      BY <1>5, <1>7, <2>2, <3>1 DEF Staged, Done, PendingAt
    <3>2. CASE ~(a = b /\ d = c)
      BY <1>5, <1>7, <2>2, <3>2 DEF Staged, OnlyRequest, Done, PendingAt
    <3>3. QED
      BY <3>1, <3>2
  <2>3. QED
    BY <2>1, <2>2 DEF QuietIo
<1>8. QED
  BY <1>1, <1>2, <1>3, <1>4, <1>6, <1>7

\* The same for the flags that tell who writes the buffer
SameChanging(b) == Changing(b)' <=> Changing(b)
LEMMA DirtyFrame ==
  ASSUME TypeInv, NEW b \in Buffers
  PROVE  /\ SameUsers => SameChanging(b)
         /\ \A u \in Users :
              /\ OnlyUser(u)
              /\ pc[u] # "changed" \/ held[u] # b
              /\ pc'[u] # "changed" \/ held'[u] # b
              => SameChanging(b)
         /\ UNCHANGED lru /\ SameChanging(b) => QuietFlush(b) /\ QuietDirty(b)
         /\ \A a : OnlyBuffer(a) /\ SameChanging(b)
                     /\ (a # b \/ (SameFlags(lru'[a], lru[a]) /\ lru'[a].block = lru[a].block))
              => QuietFlush(b) /\ QuietDirty(b)
<1>1. SameUsers => SameChanging(b)
  BY DEF SameUsers, SameChanging, Changing
<1>2. \A u \in Users :
        /\ OnlyUser(u)
        /\ pc[u] # "changed" \/ held[u] # b
        /\ pc'[u] # "changed" \/ held'[u] # b
        => SameChanging(b)
  BY DEF OnlyUser, SameUser, SameChanging, Changing
<1>3. UNCHANGED lru /\ SameChanging(b) => QuietFlush(b) /\ QuietDirty(b)
  BY DEF SameChanging, QuietFlush, QuietDirty, Stable, Changed, Has, Hashed
<1>4. \A a : OnlyBuffer(a) /\ SameChanging(b)
                     /\ (a # b \/ (SameFlags(lru'[a], lru[a]) /\ lru'[a].block = lru[a].block))
              => QuietFlush(b) /\ QuietDirty(b)
  BY DEF OnlyBuffer, SameFlags, SameChanging, QuietFlush, QuietDirty, Stable, Changed, Has, Hashed
<1>5. QED
  BY <1>1, <1>2, <1>3, <1>4

LEMMA LoadFindsNewest ==
  ASSUME TypeInv, ReadInv, LoadInv, DataInv, NEW a \in Buffers, Has(a, "LOADING"), Hashed(a)
  PROVE  /\ ~Changed(a) /\ ~Has(a, "FLUSHING") /\ lru[a].block \in Blocks
         /\ \A m \in Members : disk[m][lru[a].block] = Newest(lru[a].block)
<1>1. \A b \in Buffers : Changed(b) => Has(b, "DATAVALID")
  BY DEF LoadInv, BufferLoads, BufferFlags, HeldOf, Changed, Changing, Holding
<1>2. ~Has(a, "DATAVALID") /\ ~Has(a, "FLUSHING") /\ lru[a].block # NoBlock
  BY DEF LoadInv, BufferLoads, BufferFlags
<1>3. lru[a].block \in Blocks
  BY <1>2 DEF TypeInv, CacheInv, LRU
<1>4. ~\E b \in Buffers : Changed(b) /\ lru[b].block = lru[a].block
  BY <1>1, <1>2 DEF ReadInv, OneBufferPerBlock, Changed
<1>5. QED
  BY <1>2, <1>3, <1>4 DEF DataInv, BlockSafe

\* The data of a load arrives, or the load ends with it.
LEMMA LoadEnds ==
  ASSUME TypeInv, ReadInv, LoadInv, DataInv, NEW a \in Buffers, Has(a, "LOADING"), Hashed(a),
         OnlyBuffer(a), lru'[a].block = lru[a].block, lru'[a].buffer = Newest(lru[a].block),
         "FLUSHING" \in lru'[a].state => Has(a, "FLUSHING"),
         UNCHANGED <<latest, disk, unfilled>>,
         \A b \in Buffers : SameChanging(b),
         \A b \in Buffers \ {a} : QuietIo(b)
  PROVE  DataInv'
<1>1. \A b \in Buffers \ {a} : QuietBuffer(b) /\ QuietDirty(b)
  BY QuietFrame, DirtyFrame DEF QuietBuffer
<1>2. ~Changed(a) /\ ~Has(a, "FLUSHING")
  BY LoadFindsNewest
<1>3. BufferData(a)'
  <2>1. Newest(lru[a].block)' = Newest(lru[a].block)
    BY DEF Newest
  <2>2. QED
    BY <1>2, <2>1 DEF BufferData, Current, LoadedData, Written, Stable, Has
<1>4. \A b \in Buffers : BufferData(b)'
  BY <1>1, <1>3, QuietKeeps
<1>5. \A b \in Buffers : QuietDirty(b)
  BY <1>1, <1>2 DEF QuietDirty
<1>6. DiskOwn' /\ \A k \in Blocks : BlockSafe(k)'
  BY <1>5, QuietKeeps
<1>7. QED
  BY <1>4, <1>6 DEF DataInv

\* A load fails: the buffer leaves the lists.
LEMMA LoadFails ==
  ASSUME TypeInv, ReadInv, LoadInv, DataInv, NEW a \in Buffers, Has(a, "LOADING"), Hashed(a),
         OnlyBuffer(a), FreedTo(lru'[a], lru[a]),
         UNCHANGED <<latest, disk, unfilled, io, flush>>,
         \A b \in Buffers : SameChanging(b)
  PROVE  DataInv'
<1>1. \A b \in Buffers \ {a} : QuietBuffer(b) /\ QuietDirty(b)
  BY QuietFrame, DirtyFrame DEF QuietBuffer
<1>2. QuietDirty(a)
  BY LoadFindsNewest DEF QuietDirty
<1>3. QuietBuffer(a)
  <2>1. QuietData(a) /\ QuietFlush(a)
    BY DEF FreedTo, QuietData, SameData, QuietFlush, Stable, Has, Hashed
  <2>2. QED
    BY <2>1, QuietFrame DEF QuietBuffer
<1>4. QED
  BY <1>1, <1>2, <1>3, QuietKeeps DEF DataInv

\* A buffer is taken for a block that is in none.
LEMMA TookData ==
  ASSUME TypeInv, ReadInv, CountsInv, LoadInv, DataInv, NEW a, NEW k, NEW flags, NEW n,
         Took(a, k, flags, n),
         flags = {"LOADING"} \/ (flags = {"DATAVALID"} /\ a \in unfilled'),
         UNCHANGED <<latest, disk, flush>>, unfilled \subseteq unfilled',
         UNCHANGED io \/ (\E command : Queued(a, 1, command)),
         \A b \in Buffers : SameChanging(b)
  PROVE  DataInv'
<1>1. a \in Buffers /\ OnlyBuffer(a)
  BY DEF Took
<1>2. \A b \in Buffers : QuietIo(b)
  BY QuietFrame
<1>3. \A b \in Buffers \ {a} : QuietBuffer(b) /\ QuietDirty(b)
  BY <1>1, <1>2, QuietFrame, DirtyFrame DEF QuietBuffer
<1>4. /\ ~Has(a, "DIRTY") /\ ~Changing(a) /\ ~LoadReq(a, 1)
  BY AvailableIsIdle, NumberAssumption DEF Took, Has, Changing, Holding, Members
<1>5. BufferData(a)'
  <2>1. ~Arrived(a)
    BY <1>4 DEF Arrived
  <2>2. ~Arrived(a)' /\ ~Stable(a)'
    BY <1>1, <1>2, <2>1 DEF QuietIo, Stable, Has, Took
  <2>3. Current(a)'
    BY DEF Took, Current, Has
  <2>4. QED
    BY <2>2, <2>3 DEF BufferData, LoadedData, Written
<1>6. QuietDirty(a)
  BY <1>4 DEF QuietDirty, Changed
<1>7. \A b \in Buffers : BufferData(b)'
  BY <1>3, <1>5, QuietKeeps
<1>8. DiskOwn' /\ \A j \in Blocks : BlockSafe(j)'
  BY <1>3, <1>6, QuietKeeps
<1>9. QED
  BY <1>7, <1>8 DEF DataInv

\* The callers that change nothing, or give a buffer back as changed
LEMMA HoldData ==
  ASSUME TypeInv, WriteInv, DataInv, NEW u \in Users,
         \/ Call(u) \/ ReadLRUHit(u) \/ ReadLRUWait(u) \/ WaitOnBuffer(u) \/ ReadLRUNone(u)
         \/ FillBlockError(u) \/ ReleaseLRU(u) \/ ReleaseDirtyLRU(u)
  PROVE  DataInv'
<1>1. ASSUME UNCHANGED <<latest, disk>>, NEW a \in Buffers, OnlyBuffer(a),
             SameFlags(lru'[a], lru[a]), SameData(lru'[a], lru[a]), UNCHANGED unfilled,
             \A b \in Buffers : SameChanging(b) /\ QuietIo(b)
      PROVE  DataInv'
  <2>1. ASSUME NEW b \in Buffers
        PROVE  QuietBuffer(b) /\ QuietDirty(b)
    <3>1. a # b \/ (SameFlags(lru'[a], lru[a]) /\ lru'[a].block = lru[a].block)
      BY <1>1 DEF SameData
    <3>2. QED
      BY <1>1, <3>1, QuietFrame, DirtyFrame DEF QuietBuffer
  <2>2. QED
    BY <1>1, <2>1, QuietKeeps DEF DataInv
<1>2. CASE ReadLRUHit(u) \/ ReadLRUWait(u) \/ WaitOnBuffer(u) \/ ReleaseLRU(u)
  <2>1. /\ UNCHANGED <<ioVars, flush, historyVars>> /\ OnlyUser(u)
        /\ pc[u] # "changed" /\ pc'[u] # "changed"
        /\ \E a \in Buffers : OnlyBuffer(a) /\ SameFlags(lru'[a], lru[a])
                                /\ SameData(lru'[a], lru[a])
    <3>1. CASE ReadLRUHit(u) \/ ReadLRUWait(u)
      BY <3>1, HitEffect, WaitEffect
    <3>2. CASE WaitOnBuffer(u)
      BY <3>2, WaitOnBufferEffect
    <3>3. CASE ReleaseLRU(u)
      BY <3>3, ReleaseEffect
    <3>4. QED
      BY <1>2, <3>1, <3>2, <3>3
  <2>2. \A b \in Buffers : SameChanging(b) /\ QuietIo(b)
    BY <2>1, QuietFrame, DirtyFrame DEF ioVars
  <2>3. QED
    BY <1>1, <2>1, <2>2 DEF ioVars, historyVars
<1>3. CASE Call(u) \/ ReadLRUNone(u) \/ FillBlockError(u)
  <2>1. UNCHANGED <<lru, flush, latest, disk, unfilled>> /\ \A b \in Buffers : SameChanging(b)
    <3>1. CASE Call(u)
      BY <3>1, CallEffect, DirtyFrame DEF cacheVars, ioVars, historyVars
    <3>2. CASE ReadLRUNone(u)
      BY <3>2 DEF ReadLRUNone, cacheVars, ioVars, userVars, historyVars, SameChanging, Changing
    <3>3. CASE FillBlockError(u)
      BY <3>3, FillErrorEffect, DirtyFrame DEF cacheVars, historyVars
    <3>4. QED
      BY <1>3, <3>1, <3>2, <3>3
  <2>2. \A b \in Buffers : QuietIo(b)
    <3>1. CASE Call(u) \/ ReadLRUNone(u)
      <4>1. UNCHANGED io
        BY <3>1 DEF Call, ReadLRUNone, ioVars
      <4>2. QED
        BY <2>1, <4>1, QuietFrame
    <3>2. CASE FillBlockError(u)
      <4>1. PICK a \in Buffers : io[a][1].stage = "failed" /\ Staged(a, 1, "idle")
        BY <3>2, FillErrorEffect
      <4>2. QED
        BY <2>1, <4>1, QuietFrame
    <3>3. QED
      BY <1>3, <3>1, <3>2
  <2>3. \A b \in Buffers : QuietBuffer(b) /\ QuietDirty(b)
    BY <2>1, <2>2, QuietFrame, DirtyFrame DEF QuietBuffer
  <2>4. QED
    BY <2>1, <2>3, QuietKeeps DEF DataInv
<1>4. CASE ReleaseDirtyLRU(u)
  <2>1. PICK a \in Buffers :
          /\ UNCHANGED <<io, disk, flush, latest, unfilled>> /\ OnlyUser(u)
          /\ held[u] = a /\ pc'[u] = "idle"
          /\ OnlyBuffer(a) /\ SameData(lru'[a], lru[a]) /\ Dirtied(a)
    BY <1>4, ReleaseDirtyEffect DEF ioVars, historyVars
  <2>2. BufferWrites(a)
    BY DEF WriteInv
  <2>3. ASSUME NEW b \in Buffers \ {a}
        PROVE  QuietBuffer(b) /\ QuietDirty(b)
    <3>1. SameChanging(b)
      BY <2>1, DirtyFrame
    <3>2. QED
      BY <2>1, <3>1, QuietFrame, DirtyFrame DEF QuietBuffer
  <2>4. Has(a, "DIRTY")' /\ Has(a, "MODIFIED")'
    BY <2>1, <2>2 DEF Dirtied, BufferWrites, Has
  <2>5. (Hashed(a)' <=> Hashed(a)) /\ (Has(a, "DATAVALID")' <=> Has(a, "DATAVALID"))
    BY <2>1 DEF Dirtied, Has, Hashed
  <2>6. QuietBuffer(a) /\ QuietDirty(a)
    BY <2>1, <2>4, <2>5, QuietFrame
       DEF QuietBuffer, QuietData, QuietFlush, Stable, QuietDirty, Changed, SameData
  <2>7. QED
    BY <2>1, <2>3, <2>6, QuietKeeps DEF DataInv
<1>5. QED
  BY <1>2, <1>3, <1>4

LEMMA CopyInData ==
  ASSUME TypeInv, ReadInv, LoadInv, DataInv, NEW u \in Users, CopyIn(u)
  PROVE  DataInv'
<1>1. PICK a \in Buffers, k \in Blocks :
        /\ held[u] = a /\ want[u] = k /\ held'[u] = a /\ pc[u] = "hold" /\ pc'[u] = "changed"
        /\ OnlyUser(u) /\ OnlyBuffer(a) /\ SameFlags(lru'[a], lru[a])
        /\ lru'[a].block = lru[a].block /\ lru'[a].buffer = Newest(k)'
        /\ \A j \in Blocks \ {k} : latest'[j] = latest[j]
        /\ unfilled' = unfilled \/ unfilled' = unfilled \ {a}
        /\ UNCHANGED <<io, disk, flush>>
  BY CopyInEffect DEF ioVars, Newest
<1>2. /\ Hashed(a) /\ lru[a].block = k /\ Has(a, "DATAVALID") /\ BufferLoads(a)
      /\ \A b \in Buffers : BufferLoads(b) /\ BufferData(b)
  BY <1>1 DEF LoadInv, DataInv, BufferLoads, HeldOf, Holding
<1>3. \A j \in Blocks \ {k} : Newest(j)' = Newest(j)
  BY <1>1 DEF Newest
<1>4. ASSUME NEW b \in Buffers \ {a}
      PROVE  BufferData(b)' /\ (Changed(b) => Changed(b)') /\ lru'[b].block = lru[b].block
  <2>1. SameChanging(b) /\ lru'[b] = lru[b] /\ QuietIo(b) /\ (b \in unfilled => b \in unfilled')
    BY <1>1, DirtyFrame, QuietFrame DEF OnlyBuffer
  <2>2. (Stable(b)' <=> Stable(b)) /\ (Changed(b)' <=> Changed(b))
    BY <2>1 DEF SameChanging, Stable, Changed, Has, Hashed
  <2>3. CASE Hashed(b)
    <3>1. lru[b].block \in Blocks \ {k}
      <4>1. lru[b].block # k /\ lru[b].block # NoBlock
        BY <1>2, <2>3 DEF ReadInv, OneBufferPerBlock, BufferLoads, BufferFlags
      <4>2. QED
        BY <4>1 DEF TypeInv, CacheInv, LRU
    <3>2. Newest(lru[b].block)' = Newest(lru[b].block)
      BY <1>3, <2>1, <3>1 DEF Newest
    <3>3. Current(b)'
      BY <1>2, <2>1, <3>2 DEF BufferData, Current, Has, Hashed
    <3>4. LoadedData(b)'
      BY <1>2, <2>1, <3>2 DEF BufferData, LoadedData, QuietIo
    <3>5. Written(b)'
      BY <1>1, <1>2, <2>1, <2>2, <3>2 DEF BufferData, Written, QuietIo
    <3>6. QED
      BY <2>1, <2>2, <3>3, <3>4, <3>5 DEF BufferData
  <2>4. CASE ~Hashed(b)
    <3>1. ~Arrived(b) /\ ~Stable(b)
      BY <1>2, <2>4, NumberAssumption
         DEF BufferLoads, LoadRequests, BufferFlags, Arrived, Stable, Members
    <3>2. QED
      BY <2>1, <2>2, <2>4, <3>1
         DEF BufferData, Current, LoadedData, Written, QuietIo, Hashed
  <2>5. QED
    BY <2>3, <2>4
<1>5. Changing(a)' /\ Hashed(a)'
  BY <1>1, <1>2 DEF Changing, Hashed, SameFlags
<1>6. BufferData(a)'
  <2>1. ~Arrived(a)'
    <3>1. ~Arrived(a)
      BY <1>2, NumberAssumption DEF BufferLoads, LoadRequests, BufferFlags, Arrived, Members
    <3>2. QED
      BY <1>1, <3>1, QuietFrame DEF QuietIo
  <2>2. lru'[a].buffer = Newest(lru[a].block)'
    BY <1>1, <1>2 DEF Newest
  <2>3. QED
    BY <1>5, <2>1, <2>2 DEF BufferData, Current, LoadedData, Written, Stable
<1>7. ASSUME NEW j \in Blocks
      PROVE  BlockSafe(j)'
  <2>1. CASE j = k
    BY <1>1, <1>2, <1>5, <2>1 DEF BlockSafe, Changed
  <2>2. CASE j # k
    <3>1. BlockSafe(j) /\ Newest(j)' = Newest(j)
      BY <1>3, <2>2 DEF DataInv
    <3>2. \A b \in Buffers : Changed(b) /\ lru[b].block = j => Changed(b)' /\ lru'[b].block = j
      BY <1>2, <1>4, <2>2
    <3>3. QED
      BY <1>1, <3>1, <3>2 DEF BlockSafe
  <2>3. QED
    BY <2>1, <2>2
<1>8. DiskOwn'
  BY <1>1 DEF DataInv, DiskOwn
<1>9. QED
  BY <1>4, <1>6, <1>7, <1>8 DEF DataInv

\* A write takes the newest contents to the disk.
LEMMA WriteIsNewest ==
  ASSUME LoadInv, WriteInv, DataInv, NEW a \in Buffers, NEW c \in Members, PendingAt(a, c)
  PROVE  /\ Has(a, "FLUSHING") /\ Hashed(a) /\ Has(a, "DATAVALID") /\ a \notin unfilled
         /\ c <= Inserted(a) /\ io[a][c].sector = lru[a].block
         /\ lru[a].buffer = Newest(lru[a].block)
<1>1. /\ Has(a, "FLUSHING") /\ a \notin unfilled
      /\ c <= Inserted(a) /\ io[a][c].sector = lru[a].block
  BY DEF WriteInv, BufferWrites
<1>2. Has(a, "DATAVALID") /\ Hashed(a)
  BY <1>1 DEF LoadInv, BufferLoads, BufferFlags
<1>3. QED
  BY <1>1, <1>2 DEF DataInv, BufferData, Current

LEMMA TransferData ==
  ASSUME TypeInv, ReadInv, LoadInv, WriteInv, DataInv,
         NEW a \in Buffers, NEW c \in Members, Transfer(a, c)
  PROVE  DataInv'
<1> DEFINE r == io[a][c]
<1>1. /\ r.stage = "queued" /\ Staged(a, c, "moved") /\ SameUsers
      /\ UNCHANGED <<flush, latest, unfilled>>
  BY TransferEffect DEF historyVars
<1>2. \A b \in Buffers : SameChanging(b)
  BY <1>1, DirtyFrame
<1>3. CASE r.command # "write"
  <2>1. LoadReq(a, c) /\ BufferLoads(a)
    BY <1>1, <1>3 DEF LoadReq, LoadInv
  <2>2. Has(a, "LOADING") /\ Hashed(a) /\ r.sector = lru[a].block
    BY <2>1 DEF BufferLoads, LoadRequests
  <2>3. /\ UNCHANGED disk /\ OnlyBuffer(a) /\ SameFlags(lru'[a], lru[a])
        /\ lru'[a].block = lru[a].block
        /\ \E m \in Members : lru'[a].buffer = disk[m][r.sector]
    BY <1>3, TransferEffect
  <2>4. lru'[a].buffer = Newest(lru[a].block)
    BY <2>2, <2>3, LoadFindsNewest
  <2>5. \A b \in Buffers \ {a} : QuietIo(b)
    BY <1>1, QuietFrame
  <2>6. "FLUSHING" \in lru'[a].state => Has(a, "FLUSHING")
    BY <2>3 DEF SameFlags, Has
  <2>7. QED
    BY <1>1, <1>2, <2>2, <2>3, <2>4, <2>5, <2>6, LoadEnds
<1>4. CASE r.command = "write"
  <2> DEFINE k == lru[a].block
  <2>1. PendingAt(a, c)
    BY <1>1, <1>4 DEF PendingAt
  <2>2. r.sector = k /\ lru[a].buffer = Newest(k) /\ k \in Blocks
    BY <2>1, WriteIsNewest, TransferEffect
  <2>3. /\ UNCHANGED lru
        /\ \A e \in Members, j \in Blocks :
             disk'[e][j] = IF e = c /\ j = k THEN Newest(k) ELSE disk[e][j]
    BY <1>4, <2>2, TransferEffect
  <2>4. \A j : Newest(j)' = Newest(j)
    BY <1>1 DEF Newest
  <2> HIDE DEF k
  <2>5. DiskOwn'
    BY <2>3 DEF DataInv, DiskOwn, Newest
  <2>6. ASSUME NEW j \in Blocks
        PROVE  BlockSafe(j)'
    <3>1. BlockSafe(j) /\ \A b \in Buffers : QuietDirty(b)
      BY <1>2, <2>3, DirtyFrame DEF DataInv
    <3>2. Newest(j)' = Newest(j)
      BY <2>4
    <3>3. QED
      BY <2>3, <3>1, <3>2 DEF BlockSafe, QuietDirty
  <2>7. ASSUME NEW b \in Buffers
        PROVE  BufferData(b)'
    <3>1. BufferData(b) /\ lru'[b] = lru[b] /\ QuietFlush(b)
      BY <1>2, <2>3, DirtyFrame DEF DataInv
    <3>2. Newest(lru[b].block)' = Newest(lru[b].block)
      BY <2>3, <2>4 DEF Newest
    <3>3. Current(b)'
      BY <1>1, <3>1, <3>2 DEF BufferData, Current, Has, Hashed
    <3>4. LoadedData(b)'
      <4>1. Arrived(b)' => Arrived(b)
        BY <1>1, <1>4, NumberAssumption DEF Arrived, LoadReq, Staged, OnlyRequest, Members
      <4>2. QED
        BY <3>1, <3>2, <4>1 DEF BufferData, LoadedData
    <3>5. Written(b)'
      <4>1. SUFFICES ASSUME Stable(b)', NEW d \in Members, Done(b, d)'
                     PROVE  disk'[d][lru[b].block] = Newest(lru[b].block)
        BY <3>1, <3>2 DEF Written
      <4>2. Stable(b) /\ lru[b].block \in Blocks
        <5>1. Stable(b) /\ Has(b, "FLUSHING")
          BY <3>1, <4>1 DEF QuietFlush, Stable
        <5>2. lru[b].block # NoBlock
          BY <5>1 DEF LoadInv, BufferLoads, BufferFlags
        <5>3. QED
          BY <5>1, <5>2 DEF TypeInv, CacheInv, LRU
      <4>3. CASE b = a /\ d = c
        BY <2>3, <4>2, <4>3 DEF k
      <4>4. CASE ~(b = a /\ d = c)
        <5>1. Done(b, d)
          BY <1>1, <4>1, <4>4 DEF Done, PendingAt, Inserted, Staged, OnlyRequest
        <5>2. disk[d][lru[b].block] = Newest(lru[b].block)
          BY <3>1, <4>2, <5>1 DEF BufferData, Written
        <5>3. QED
          BY <2>3, <4>2, <5>2
      <4>5. QED
        BY <4>3, <4>4
    <3>6. QED
      BY <3>3, <3>4, <3>5 DEF BufferData
  <2>8. QED
    BY <2>5, <2>6, <2>7 DEF DataInv
<1>5. QED
  BY <1>3, <1>4

\* The interrupt that ends a write: no request of the buffer is left.
LEMMA LastOfWrite ==
  ASSUME TypeInv, WriteInv, NEW a \in Buffers, NEW c \in Members, PendingAt(a, c),
         lru[a].mirrors_completed + 1 = Mirrors, Staged(a, c, "idle")
  PROVE  /\ Inserted(a) = Mirrors
         /\ \A d \in Members \ {c} : ~PendingAt(a, d)
<1> DEFINE n == Cardinality(Pending(a))
           m == lru[a].mirrors_completed
<1>1. /\ ~PendingAt(a, c)' /\ \A d \in Members \ {c} : PendingAt(a, d)' <=> PendingAt(a, d)
  BY DEF Staged, OnlyRequest, PendingAt
<1>2. /\ n \in Nat /\ n' \in Nat /\ n' = n - 1
      /\ n = 1 => \A d \in Members : ~PendingAt(a, d)'
  BY <1>1, PendingCount
<1>3. m + n = Inserted(a)
  BY DEF WriteInv, BufferWrites
<1>4. Inserted(a) \in Nat /\ Inserted(a) <= Mirrors /\ m \in Nat /\ Mirrors \in Nat
  BY NumberAssumption DEF Inserted, Members, TypeInv, FlushInv, CacheInv, LRU
<1>5. n = 1 /\ Inserted(a) = Mirrors
  BY <1>2, <1>3, <1>4
<1>6. QED
  BY <1>1, <1>2, <1>5

LEMMA WriteAioData ==
  ASSUME ~WriteErrors, TypeInv, ReadInv, LoadInv, WriteInv, DataInv,
         NEW a \in Buffers, NEW c \in Members, ReleaseWriteAio(a, c)
  PROVE  DataInv'
<1> DEFINE last == lru[a].mirrors_completed + 1 = Mirrors
<1>1. /\ PendingAt(a, c) /\ io[a][c].stage \in {"moved", "failed"}
      /\ Staged(a, c, "idle") /\ OnlyBuffer(a) /\ SameData(lru'[a], lru[a]) /\ SameUsers
      /\ UNCHANGED <<disk, flush, latest, unfilled>>
  BY WriteAioEffect DEF PendingAt, historyVars
<1>2. ~(lru[a].aio_ccode \/ io[a][c].stage = "failed")
  BY <1>1 DEF WriteInv, BufferWrites
<1>3. Cleaned(a, last, last /\ ~Has(a, "MODIFIED"))
  BY <1>2, WriteAioEffect
<1>4. \A b \in Buffers : SameChanging(b) /\ QuietIo(b)
  BY <1>1, QuietFrame, DirtyFrame
<1>5. \A b \in Buffers \ {a} : QuietBuffer(b) /\ QuietDirty(b)
  BY <1>1, <1>4, QuietFrame, DirtyFrame DEF QuietBuffer
<1>6. QuietBuffer(a)
  BY <1>1, <1>3, <1>4
     DEF QuietBuffer, QuietData, QuietFlush, Stable, SameChanging, Cleaned, Has, Hashed
<1>7. \A b \in Buffers : BufferData(b)'
  BY <1>1, <1>5, <1>6, QuietKeeps
<1>8. DiskOwn'
  BY <1>1 DEF DataInv, DiskOwn
<1>9. \A k \in Blocks : BlockSafe(k)'
  <2>1. CASE ~last \/ Has(a, "MODIFIED") \/ Changing(a)
    <3>1. QuietDirty(a)
      BY <1>1, <1>3, <1>4, <2>1
         DEF QuietDirty, Changed, SameChanging, Cleaned, SameData, Has, Hashed
    <3>2. QED
      BY <1>1, <1>5, <3>1, QuietKeeps
  <2>2. CASE last /\ ~Has(a, "MODIFIED") /\ ~Changing(a)
    <3>1. Stable(a) /\ \A d \in Members : Done(a, d)
      <4>1. Has(a, "FLUSHING") /\ Inserted(a) = Mirrors /\ \A d \in Members \ {c} : ~PendingAt(a, d)
        BY <1>1, <2>2, LastOfWrite DEF WriteInv, BufferWrites
      <4>2. \A d \in Members : d <= Mirrors
        BY NumberAssumption DEF Members
      <4>3. QED
        BY <1>1, <2>2, <4>1, <4>2 DEF Stable, Done
    <3>2. \A d \in Members : disk[d][lru[a].block] = Newest(lru[a].block)
      BY <3>1 DEF DataInv, BufferData, Written
    <3>3. ASSUME NEW k \in Blocks
          PROVE  BlockSafe(k)'
      <4>1. BlockSafe(k) /\ Newest(k)' = Newest(k)
        BY <1>1 DEF DataInv, Newest
      <4>2. CASE k = lru[a].block
        BY <1>1, <3>2, <4>1, <4>2 DEF BlockSafe
      <4>3. CASE k # lru[a].block
        BY <1>1, <1>5, <4>1, <4>3 DEF BlockSafe, QuietDirty
      <4>4. QED
        BY <4>2, <4>3
    <3>4. QED
      BY <3>3
  <2>3. QED
    BY <2>1, <2>2
<1>10. QED
  BY <1>7, <1>8, <1>9 DEF DataInv

\* The flush daemon begins a write, and queues it.
LEMMA FlushData ==
  ASSUME TypeInv, WriteInv, DataInv, FlushStart \/ FlushInsert \/ FlushRelock
  PROVE  DataInv'
<1>0. /\ flush.i \in Members /\ flush.i \in Nat /\ Mirrors \in Nat /\ flush.i <= Mirrors
      /\ \A c \in Members : c \in Nat /\ c >= 1
  BY NumberAssumption DEF TypeInv, FlushInv, Members
<1>1. SameUsers /\ UNCHANGED <<disk, latest, unfilled>> /\ \A b \in Buffers : SameChanging(b)
  BY StartEffect, RelockEffect, InsertEffect, DirtyFrame DEF ioVars, historyVars
<1>2. SUFFICES ASSUME NEW b \in Buffers
               PROVE  QuietBuffer(b) /\ QuietDirty(b)
  BY <1>1, QuietKeeps DEF DataInv
<1>3. ASSUME flush.pc = "start" \/ (flush.pc = "relock" /\ flush.i = Mirrors), UNCHANGED io,
             WalkEnds \/ \E a \in Buffers : FlushBegins(a)
      PROVE  QuietBuffer(b) /\ QuietDirty(b)
  <2>1. Inserted(b) = Mirrors
    BY <1>3 DEF Inserted
  <2>2. QuietIo(b)
    <3>1. Arrived(b)' => Arrived(b)
      BY <1>3 DEF Arrived, LoadReq
    <3>2. \A c \in Members : Done(b, c)' => Done(b, c)
      BY <1>0, <1>3, <2>1 DEF Done, PendingAt, Members
    <3>3. QED
      BY <3>1, <3>2 DEF QuietIo
  <2>3. CASE WalkEnds
    BY <1>1, <2>2, <2>3, QuietFrame, DirtyFrame DEF WalkEnds, QuietBuffer
  <2>4. ASSUME NEW a \in Buffers, FlushBegins(a)
        PROVE  QuietBuffer(b) /\ QuietDirty(b)
    <3>1. CASE a # b
      BY <1>1, <2>2, <2>4, <3>1, QuietFrame, DirtyFrame DEF FlushBegins, QuietBuffer
    <3>2. CASE a = b
      <4>1. Inserted(b)' = 0
        BY <2>4, <3>2 DEF FlushBegins, Inserted
      <4>2. \A c \in Members : ~Done(b, c)'
        BY <1>0, <4>1 DEF Done
      <4>3. QuietData(b) /\ QuietDirty(b)
        BY <1>1, <2>4, <3>2
           DEF FlushBegins, QuietData, QuietDirty, SameData, SameChanging, Changed, Has, Hashed
      <4>4. QED
        BY <2>2, <4>2, <4>3 DEF QuietBuffer
    <3>3. QED
      BY <3>1, <3>2
  <2>5. QED
    BY <1>3, <2>3, <2>4
<1>4. CASE FlushStart
  BY <1>3, <1>4, StartEffect DEF ioVars
<1>5. CASE FlushRelock
  <2>1. CASE flush.i = Mirrors
    BY <1>0, <1>3, <1>5, <2>1, RelockEffect DEF ioVars
  <2>2. CASE flush.i # Mirrors
    <3>1. /\ UNCHANGED <<lru, io>> /\ flush.pc = "relock"
          /\ flush'.pc = "insert" /\ flush'.lru = flush.lru /\ flush'.i = flush.i + 1
      BY <1>5, <2>2, RelockEffect DEF ioVars
    <3>2. Inserted(b)' = Inserted(b)
      BY <1>0, <3>1 DEF Inserted
    <3>3. QuietIo(b)
      BY <3>1, <3>2 DEF QuietIo, Arrived, LoadReq, Done, PendingAt
    <3>4. QED
      BY <1>1, <3>1, <3>3, QuietFrame, DirtyFrame DEF QuietBuffer
  <2>3. QED
    BY <2>1, <2>2
<1>6. CASE FlushInsert
  <2>1. PICK a \in Buffers, i \in Members :
          /\ flush.lru = a /\ flush.i = i /\ flush.pc = "insert"
          /\ Queued(a, i, "write")
          /\ OnlyBuffer(a) /\ SameFlags(lru'[a], lru[a]) /\ SameData(lru'[a], lru[a])
          /\ flush'.pc = "relock" /\ flush'.lru = a /\ flush'.i = i
    BY <1>6, InsertEffect
  <2>2. QuietData(b) /\ QuietFlush(b) /\ QuietDirty(b)
    <3>1. a # b \/ (SameFlags(lru'[a], lru[a]) /\ lru'[a].block = lru[a].block)
      BY <2>1 DEF SameData
    <3>2. QuietFlush(b) /\ QuietDirty(b)
      BY <1>1, <2>1, <3>1, DirtyFrame
    <3>3. QuietData(b)
      BY <1>1, <2>1, QuietFrame
    <3>4. QED
      BY <3>2, <3>3
  <2>3. Arrived(b)' => Arrived(b)
    BY <2>1, NumberAssumption DEF Arrived, LoadReq, Queued, OnlyRequest, Members
  <2>4. ASSUME NEW c \in Members, Done(b, c)'
        PROVE  Done(b, c)
    <3>1. CASE a = b
      <4>1. Inserted(b) = i - 1 /\ Inserted(b)' = i
        BY <2>1, <3>1 DEF Inserted
      <4>2. c # i
        BY <2>1, <2>4, <3>1 DEF Queued, Done, PendingAt
      <4>3. c <= i - 1
        BY <1>0, <2>4, <4>1, <4>2 DEF Done
      <4>4. io'[b][c] = io[b][c]
        BY <2>1, <4>2 DEF Queued, OnlyRequest
      <4>5. QED
        BY <2>4, <4>1, <4>3, <4>4 DEF Done, PendingAt
    <3>2. CASE a # b
      <4>1. Inserted(b)' = Inserted(b)
        BY <2>1, <3>2 DEF Inserted
      <4>2. io'[b][c] = io[b][c]
        BY <2>1, <3>2 DEF Queued, OnlyRequest
      <4>3. QED
        BY <2>4, <4>1, <4>2 DEF Done, PendingAt
    <3>3. QED
      BY <3>1, <3>2
  <2>5. QED
    BY <2>2, <2>3, <2>4 DEF QuietBuffer, QuietIo
<1>7. QED
  BY <1>4, <1>5, <1>6

\* The callers that take a buffer, and those that end a load
LEMMA LoadData ==
  ASSUME TypeInv, ReadInv, CountsInv, LoadInv, WriteInv, DataInv, NEW u \in Users,
         \/ PerformBlockReadAhead(u) \/ ReadLRUFill(u) \/ ReadLRUNoFill(u)
         \/ FillBlock(u) \/ Refill(u) \/ RefillError(u)
  PROVE  DataInv'
<1>1. CASE PerformBlockReadAhead(u)
  <2>1. /\ OnlyUser(u) /\ pc[u] = "ahead" /\ pc'[u] = "search"
        /\ UNCHANGED <<disk, flush, latest, unfilled>>
        /\ \/ UNCHANGED <<lru, io>>
           \/ \E a \in Buffers, k \in Blocks : Took(a, k, {"LOADING"}, 0) /\ Queued(a, 1, "ahead")
    BY <1>1, ReadAheadEffect DEF historyVars
  <2>2. \A b \in Buffers : SameChanging(b)
    BY <2>1, DirtyFrame
  <2>3. CASE UNCHANGED <<lru, io>>
    <3>1. \A b \in Buffers : QuietBuffer(b) /\ QuietDirty(b)
      BY <2>1, <2>2, <2>3, QuietFrame, DirtyFrame DEF QuietBuffer
    <3>2. QED
      BY <2>1, <3>1, QuietKeeps DEF DataInv
  <2>4. CASE \E a \in Buffers, k \in Blocks :
               Took(a, k, {"LOADING"}, 0) /\ Queued(a, 1, "ahead")
    BY <2>1, <2>2, <2>4, TookData
  <2>5. QED
    BY <2>1, <2>3, <2>4
<1>2. CASE ReadLRUFill(u) \/ ReadLRUNoFill(u)
  <2>1. PICK a \in Buffers :
          /\ pc[u] = "search" /\ OnlyUser(u) /\ pc'[u] \in {"fill", "hold"}
          /\ UNCHANGED <<disk, flush, latest>>
          /\ \/ Took(a, want[u], {"LOADING"}, 0) /\ Queued(a, 1, "read") /\ UNCHANGED unfilled
             \/ /\ Took(a, want[u], {"DATAVALID"}, 1)
                /\ UNCHANGED io /\ unfilled' = unfilled \cup {a}
    BY <1>2, MissEffect
  <2>2. \A b \in Buffers : SameChanging(b)
    BY <2>1, DirtyFrame
  <2>3. QED
    BY <2>1, <2>2, TookData
<1>3. CASE FillBlock(u) \/ Refill(u)
  <2>1. PICK a \in Buffers :
          /\ held[u] = a /\ OnlyUser(u) /\ Loading(u) /\ pc'[u] = "hold"
          /\ OnlyBuffer(a) /\ lru'[a].state = (lru[a].state \ {"LOADING"}) \cup {"DATAVALID"}
          /\ lru'[a].owner = lru[a].owner /\ lru'[a].block = lru[a].block
          /\ UNCHANGED <<disk, flush, latest, unfilled>>
          /\ \/ /\ pc[u] = "fill" /\ io[a][1].stage = "moved" /\ Staged(a, 1, "idle")
                /\ lru'[a].buffer = lru[a].buffer
             \/ UNCHANGED io /\ \E m \in Members : lru'[a].buffer = disk[m][lru[a].block]
    <3>1. CASE FillBlock(u)
      BY <3>1, FillEffect DEF Loading, SameData, historyVars
    <3>2. CASE Refill(u)
      BY <3>2, RefillEffect DEF Loading, ioVars, historyVars
    <3>3. QED
      BY <1>3, <3>1, <3>2
  <2>2. BufferLoads(a) /\ BufferData(a)
    BY DEF LoadInv, DataInv
  <2>3. Has(a, "LOADING") /\ Hashed(a) /\ (pc[u] = "fill" => LoadReq(a, 1))
    BY <2>1, <2>2 DEF BufferLoads, LoadUsers
  <2>4. lru'[a].buffer = Newest(lru[a].block)
    BY <2>1, <2>2, <2>3, LoadFindsNewest DEF BufferData, LoadedData, Arrived
  <2>5. \A b \in Buffers : SameChanging(b)
    BY <2>1, DirtyFrame DEF Loading
  <2>6. \A b \in Buffers \ {a} : QuietIo(b)
    BY <2>1, QuietFrame
  <2>7. "FLUSHING" \in lru'[a].state => Has(a, "FLUSHING")
    BY <2>1 DEF Has
  <2>8. QED
    BY <2>1, <2>3, <2>4, <2>5, <2>6, <2>7, LoadEnds
<1>4. CASE RefillError(u)
  <2>1. PICK a \in Buffers :
          /\ held[u] = a /\ OnlyUser(u) /\ Loading(u) /\ pc'[u] = "search"
          /\ OnlyBuffer(a) /\ FreedTo(lru'[a], lru[a])
          /\ UNCHANGED <<io, disk, flush, latest, unfilled>>
    BY <1>4, RefillErrorEffect DEF Loading, ioVars, historyVars
  <2>2. Has(a, "LOADING") /\ Hashed(a)
    BY <2>1 DEF LoadInv, BufferLoads, LoadUsers
  <2>3. \A b \in Buffers : SameChanging(b)
    BY <2>1, DirtyFrame DEF Loading
  <2>4. QED
    BY <2>1, <2>2, <2>3, LoadFails
<1>5. QED
  BY <1>1, <1>2, <1>3, <1>4

\* The disks, the read ahead and the signals
LEMMA SystemData ==
  ASSUME ~WriteErrors, TypeInv, ReadInv, LoadInv, WriteInv, DataInv,
         \/ \E a \in Buffers, c \in Members : TransferError(a, c)
         \/ \E a \in Buffers : ReleaseAsynchReadAhead(a)
         \/ RetryAsynchReadAhead \/ Signals
  PROVE  DataInv'
<1>1. ASSUME NEW a \in Buffers, NEW c \in Members, TransferError(a, c)
      PROVE  DataInv'
  <2>1. /\ SameUsers /\ UNCHANGED <<lru, disk, flush, latest, unfilled>>
        /\ Staged(a, c, "failed") /\ io[a][c].stage = "queued" /\ io[a][c].command # "write"
    BY <1>1, TransferErrorEffect DEF cacheVars, historyVars
  <2>2. \A b \in Buffers : QuietIo(b) /\ SameChanging(b)
    BY <2>1, QuietFrame, DirtyFrame
  <2>3. \A b \in Buffers : QuietBuffer(b) /\ QuietDirty(b)
    BY <2>1, <2>2, QuietFrame, DirtyFrame DEF QuietBuffer
  <2>4. QED
    BY <2>1, <2>3, QuietKeeps DEF DataInv
<1>2. ASSUME NEW a \in Buffers, ReleaseAsynchReadAhead(a)
      PROVE  DataInv'
  <2>1. /\ SameUsers /\ UNCHANGED <<disk, flush, latest, unfilled>>
        /\ io[a][1].command = "ahead" /\ Staged(a, 1, "idle") /\ io[a][1].stage \in {"moved", "failed"}
        /\ \/ io[a][1].stage = "failed" /\ UNCHANGED lru
           \/ /\ io[a][1].stage = "moved" /\ OnlyBuffer(a) /\ SameData(lru'[a], lru[a])
              /\ lru'[a].state = (lru[a].state \ {"LOADING"}) \cup {"DATAVALID"}
    BY <1>2, AheadEffect DEF historyVars
  <2>2. \A b \in Buffers : QuietIo(b) /\ SameChanging(b)
    BY <2>1, QuietFrame, DirtyFrame
  <2>3. CASE UNCHANGED lru
    <3>1. \A b \in Buffers : QuietBuffer(b) /\ QuietDirty(b)
      BY <2>1, <2>2, <2>3, QuietFrame, DirtyFrame DEF QuietBuffer
    <3>2. QED
      BY <2>1, <3>1, QuietKeeps DEF DataInv
  <2>4. CASE io[a][1].stage = "moved" /\ OnlyBuffer(a) /\ SameData(lru'[a], lru[a])
                /\ lru'[a].state = (lru[a].state \ {"LOADING"}) \cup {"DATAVALID"}
    <3>1. LoadReq(a, 1) /\ BufferLoads(a) /\ BufferData(a)
      BY <2>1, <2>4 DEF LoadReq, LoadInv, DataInv
    <3>2. Has(a, "LOADING") /\ Hashed(a)
      BY <3>1, NumberAssumption DEF BufferLoads, LoadRequests, Members
    <3>3. lru'[a].block = lru[a].block /\ lru'[a].buffer = Newest(lru[a].block)
      BY <2>4, <3>1 DEF BufferData, LoadedData, Arrived, SameData
    <3>4. "FLUSHING" \in lru'[a].state => Has(a, "FLUSHING")
      BY <2>4 DEF Has
    <3>5. QED
      BY <2>1, <2>2, <2>4, <3>2, <3>3, <3>4, LoadEnds
  <2>5. QED
    BY <2>1, <2>3, <2>4
<1>3. CASE RetryAsynchReadAhead
  <2>1. PICK a \in Buffers :
          /\ 1 \in DOMAIN io_callback /\ io_callback[1].lru = a /\ io_callback[1].command = "ahead"
          /\ SameUsers /\ UNCHANGED <<io, disk, flush, latest, unfilled>> /\ OnlyBuffer(a)
          /\ \/ /\ lru'[a].state = (lru[a].state \ {"LOADING"}) \cup {"DATAVALID"}
                /\ lru'[a].block = lru[a].block
                /\ \E m \in Members : lru'[a].buffer = disk[m][lru[a].block]
             \/ FreedTo(lru'[a], lru[a])
    BY <1>3, RetryAheadEffect DEF historyVars
  <2>2. BufferLoads(a) /\ AheadAt(1, a)
    BY <2>1 DEF LoadInv, AheadAt
  <2>3. Has(a, "LOADING") /\ Hashed(a)
    BY <2>1, <2>2 DEF BufferLoads, LoadEntries
  <2>4. \A b \in Buffers : QuietIo(b) /\ SameChanging(b)
    BY <2>1, QuietFrame, DirtyFrame
  <2>5. CASE FreedTo(lru'[a], lru[a])
    BY <2>1, <2>3, <2>4, <2>5, LoadFails
  <2>6. CASE /\ lru'[a].state = (lru[a].state \ {"LOADING"}) \cup {"DATAVALID"}
             /\ lru'[a].block = lru[a].block
             /\ \E m \in Members : lru'[a].buffer = disk[m][lru[a].block]
    <3>1. lru'[a].buffer = Newest(lru[a].block)
      BY <2>3, <2>6, LoadFindsNewest
    <3>2. "FLUSHING" \in lru'[a].state => Has(a, "FLUSHING")
      BY <2>6 DEF Has
    <3>3. QED
      BY <2>1, <2>3, <2>4, <2>6, <3>1, <3>2, LoadEnds
  <2>7. QED
    BY <2>1, <2>5, <2>6
<1>4. CASE Signals
  <2>1. /\ Untouched /\ SameUsers /\ UNCHANGED <<io, disk, latest, unfilled>>
        /\ UNCHANGED flush \/ (~Writes /\ ~Writes')
    BY <1>4, SignalEffect DEF ioVars, historyVars
  <2>2. ASSUME NEW b \in Buffers
        PROVE  QuietBuffer(b) /\ QuietDirty(b)
    <3>1. Inserted(b)' = Inserted(b)
      BY <2>1 DEF Inserted, Writes
    <3>2. QuietIo(b)
      BY <2>1, <3>1 DEF QuietIo, Arrived, LoadReq, Done, PendingAt
    <3>3. SameChanging(b)
      BY <2>1, DirtyFrame
    <3>4. QuietData(b)
      BY <2>1 DEF Untouched, SameFlags, QuietData, Has, Hashed
    <3>5. QuietFlush(b) /\ QuietDirty(b)
      BY <2>1, <3>3 DEF Untouched, SameFlags, SameData, QuietFlush, QuietDirty, Stable, Changed,
                        SameChanging, Has, Hashed
    <3>6. QED
      BY <3>2, <3>4, <3>5 DEF QuietBuffer
  <2>3. QED
    BY <2>1, <2>2, QuietKeeps DEF DataInv
<1>5. QED
  BY <1>1, <1>2, <1>3, <1>4

LEMMA NoWriteRetries ==
  ASSUME TypeInv, WriteInv
  PROVE  ~RetryWriteAio /\ ~RetryWriteAioDone
<1>1. cb.stage = "down"
  BY DEF WriteInv, NoRetry
<1>2. ASSUME RetryWriteAio
      PROVE  FALSE
  <2>1. 1 \in DOMAIN io_callback /\ io_callback[1].command = "write"
    BY <1>2, RetryWriteEffect
  <2>2. QED
    BY <2>1 DEF WriteInv, NoRetry
<1>3. QED
  BY <1>1, <1>2 DEF RetryWriteAioDone

LEMMA DataStep ==
  ASSUME ~WriteErrors
  PROVE  TypeInv /\ ReadInv /\ CountsInv /\ LoadInv /\ WriteInv /\ DataInv /\ [Next]_vars => DataInv'
<1> SUFFICES ASSUME TypeInv, ReadInv, CountsInv, LoadInv, WriteInv, DataInv, [Next]_vars
             PROVE  DataInv'
  OBVIOUS
<1>1. ASSUME NEW u \in Users, Call(u) \/ ReadLRU(u) \/ Release(u)
      PROVE  DataInv'
  BY <1>1, HoldData, LoadData, CopyInData DEF ReadLRU, Release
<1>2. ASSUME NEW a \in Buffers, NEW c \in Members, Disk(a, c)
      PROVE  DataInv'
  BY <1>2, TransferData, SystemData DEF Disk
<1>3. ASSUME NEW a \in Buffers, NEW c \in Members, Interrupt(a, c)
      PROVE  DataInv'
  BY <1>3, WriteAioData, SystemData DEF Interrupt
<1>4. CASE Callback
  <2>1. ~RetryWriteAio /\ ~RetryWriteAioDone
    BY NoWriteRetries
  <2>2. QED
    BY <1>4, <2>1, SystemData DEF Callback
<1>5. CASE FlushDaemon
  BY <1>5, FlushData, SystemData DEF FlushDaemon, Signals
<1>6. CASE LRUTimer \/ Age \/ UNCHANGED vars
  BY <1>6, SystemData DEF Signals
<1>7. QED
  BY <1>1, <1>2, <1>3, <1>4, <1>5, <1>6 DEF Next

LEMMA InitData == Init => DataInv
<1> SUFFICES ASSUME Init
             PROVE  DataInv
  OBVIOUS
<1>1. /\ \A c \in Members, k \in Blocks : disk[c][k] = [block |-> k, version |-> 0]
      /\ \A k \in Blocks : latest[k] = 0
  BY DEF Init
<1>2. /\ \A c \in Members, k \in Blocks : disk[c][k] = Newest(k)
      /\ \A k : Newest(k).block = k
  BY <1>1 DEF Newest
<1>2a. DiskOwn /\ \A k \in Blocks : BlockSafe(k)
  BY <1>2 DEF DiskOwn, BlockSafe
<1>3. ASSUME NEW b \in Buffers
      PROVE  BufferData(b)
  <2>1. lru[b].state = {"FREE"}
    BY DEF Init
  <2>2. 1 \in Members /\ io[b][1].stage = "idle"
    BY NumberAssumption DEF Init, Members
  <2>3. QED
    BY <2>1, <2>2 DEF BufferData, Current, LoadedData, Arrived, LoadReq, Written, Stable, Has
<1>4. QED
  BY <1>2a, <1>3 DEF DataInv

CacheSafe == TypeInv /\ ReadInv /\ CountsInv /\ LoadInv /\ WriteInv /\ DataInv
LEMMA CacheStep ==
  ASSUME ~WriteErrors
  PROVE  (Init => CacheSafe) /\ (CacheSafe /\ [Next]_vars => CacheSafe')
<1>1. Init => CacheSafe
  <2>1. Init => ReadInv
    BY DEF Init, ReadInv, OneBufferPerBlock, Hashed, AllAwaited, Awaited
  <2>2. QED
    BY <2>1, InitTypes, InitCounts, InitLoads, InitWrites, InitData DEF CacheSafe
<1>2. CacheSafe /\ [Next]_vars => CacheSafe'
  BY TypeStep, ReadStep, CountsStep, LoadStep, WriteStep, DataStep DEF CacheSafe
<1>3. QED
  BY <1>1, <1>2

LEMMA CacheInvariant ==
  ASSUME ~WriteErrors
  PROVE  Spec => []CacheSafe
BY CacheStep, PTL DEF Spec

\* A valid buffer contains the last write to its block, as long as no write to a disk
\* fails: neither a load that overlaps a write, nor a buffer that is given to another
\* block, nor a read ahead that comes late brings old contents back.
THEOREM BuffersStayCurrent ==
  ASSUME ~WriteErrors
  PROVE  Spec => []BuffersCurrent
<1>1. CacheSafe => BuffersCurrent
  BY DEF CacheSafe, DataInv, BufferData, Current, BuffersCurrent
<1>2. QED
  BY <1>1, CacheInvariant, PTL

\* The last write to a block is on every disk, or in a buffer that is to be written, as
\* long as no write to a disk fails: neither a caller that changes a buffer while it is
\* written, nor an eviction, nor a failed load loses it.
THEOREM NoUpdateIsLost ==
  ASSUME ~WriteErrors
  PROVE  Spec => []NoLostUpdate
<1>1. CacheSafe => NoLostUpdate
  <2> SUFFICES ASSUME CacheSafe, NEW k \in Blocks, NEW c \in Members, disk[c][k] # Newest(k)
               PROVE  \E b \in SearchHash(k) :
                        /\ lru[b].buffer = Newest(k) \/ b \in unfilled
                        /\ \/ Has(b, "DIRTY")
                           \/ \E u \in Users : pc[u] = "changed" /\ held[u] = b
    BY DEF NoLostUpdate
  <2>1. PICK b \in Buffers : Changed(b) /\ lru[b].block = k
    BY DEF CacheSafe, DataInv, BlockSafe
  <2>2. Hashed(b) /\ Has(b, "DATAVALID") /\ b \in SearchHash(k)
    BY <2>1 DEF CacheSafe, LoadInv, BufferLoads, BufferFlags, HeldOf, Changed, Changing, Holding,
                SearchHash
  <2>3. lru[b].buffer = Newest(k) \/ b \in unfilled
    BY <2>1, <2>2 DEF CacheSafe, DataInv, BufferData, Current
  <2>4. QED
    BY <2>1, <2>2, <2>3 DEF Changed, Changing
<1>2. QED
  BY <1>1, CacheInvariant, PTL

-----------------------------------------------------------------------------
(* The cache implements the write-back store.  Of every block a reader gets *)
(* the newest version, or nothing while an announced write is still to      *)
(* come; the disk has a version of its own.                                 *)

Announced(k) == \E b \in Buffers : b \in unfilled /\ lru[b].block = k
Reads(k)     == IF Announced(k) THEN Unspecified ELSE latest[k]
Memory       == [k \in Blocks |-> Version(Contents(k), k)]
OnDisk       == [k \in Blocks |-> Version(disk[1][k], k)]

\* A buffer that is not filled yet is the valid buffer of its block.
LEMMA UnfilledIsCached ==
  ASSUME CacheSafe, NEW b \in unfilled
  PROVE  b \in Buffers /\ Hashed(b) /\ Has(b, "DATAVALID") /\ ~Has(b, "FLUSHING")
         /\ \E u \in Users : Holding(u) /\ held[u] = b
<1>1. b \in Buffers
  BY DEF CacheSafe, TypeInv, HistoryInv
<1>2. PICK u \in Users : Overwriter(u, b)
  BY <1>1 DEF CacheSafe, WriteInv, BufferWrites
<1>3. Holding(u) /\ held[u] = b
  BY <1>2 DEF Overwriter, Holding
<1>4. Hashed(b) /\ Has(b, "DATAVALID")
  BY <1>1, <1>3 DEF CacheSafe, LoadInv, BufferLoads, HeldOf
<1>5. ~Has(b, "FLUSHING")
  BY <1>1 DEF CacheSafe, WriteInv, BufferWrites
<1>6. QED
  BY <1>1, <1>3, <1>4, <1>5

\* What a reader of a block gets, and what is on disk
View(k) == /\ Memory[k] = Reads(k)
           /\ OnDisk[k] = disk[1][k].version
           /\ Cached(k) = {} => disk[1][k] = Newest(k) /\ ~Announced(k)
StoreView == latest \in [Blocks -> Nat] /\ \A k \in Blocks : View(k)
LEMMA ViewHolds == CacheSafe => StoreView
<1> SUFFICES ASSUME CacheSafe, NEW k \in Blocks
             PROVE  View(k)
  BY DEF CacheSafe, TypeInv, HistoryInv, StoreView
<1>1. 1 \in Members
  BY NumberAssumption DEF Members
<1>2. disk[1][k].block = k /\ OnDisk[k] = disk[1][k].version
  BY <1>1 DEF CacheSafe, DataInv, DiskOwn, OnDisk, Version
<1>3. Newest(k).block = k /\ Newest(k).version = latest[k]
  BY DEF Newest
<1>4. Announced(k) => \E b \in Cached(k) : b \in unfilled
  BY UnfilledIsCached DEF Announced, Cached, SearchHash
<1>5. Memory[k] = Version(Contents(k), k)
  BY DEF Memory
<1>6. CASE Cached(k) = {}
  <2>1. ~Announced(k) /\ Contents(k) = disk[1][k]
    BY <1>4, <1>6 DEF Contents
  <2>2. ~\E b \in Buffers : Changed(b) /\ lru[b].block = k
    BY <1>6 DEF CacheSafe, LoadInv, BufferLoads, BufferFlags, HeldOf, Changed, Changing, Holding,
                SearchHash, Cached
  <2>3. disk[1][k] = Newest(k)
    BY <1>1, <2>2 DEF CacheSafe, DataInv, BlockSafe
  <2>4. QED
    BY <1>2, <1>3, <1>5, <2>1, <2>3 DEF View, Reads, Version
<1>7. CASE Cached(k) # {}
  <2>1. PICK b : b = (CHOOSE a \in Cached(k) : TRUE)
    OBVIOUS
  <2>2. b \in Cached(k)
    BY <1>7, <2>1
  <2>3. b \in Buffers /\ Hashed(b) /\ Has(b, "DATAVALID") /\ lru[b].block = k
    BY <2>2 DEF Cached, SearchHash
  <2>4. \A a \in Cached(k) : a = b
    BY <2>2 DEF CacheSafe, ReadInv, OneBufferPerBlock, Cached, SearchHash
  <2>5. Announced(k) <=> b \in unfilled
    BY <1>4, <2>3, <2>4 DEF Announced
  <2>6. CASE b \in unfilled
    <3>1. Contents(k) = [block |-> k, version |-> Unspecified]
      BY <1>7, <2>1, <2>6 DEF Contents
    <3>2. QED
      BY <1>2, <1>5, <1>7, <2>5, <2>6, <3>1 DEF View, Reads, Version
  <2>7. CASE b \notin unfilled
    <3>1. Contents(k) = lru[b].buffer
      BY <1>7, <2>1, <2>7 DEF Contents
    <3>2. lru[b].buffer = Newest(k)
      BY <2>3, <2>7 DEF CacheSafe, DataInv, BufferData, Current
    <3>3. QED
      BY <1>2, <1>3, <1>5, <1>7, <2>5, <2>7, <3>1, <3>2 DEF View, Reads, Version
  <2>8. QED
    BY <2>6, <2>7
<1>8. QED
  BY <1>2, <1>6, <1>7

LEMMA ViewKeeps == CacheSafe' => StoreView'
BY ViewHolds, PTL

\* No step gives a buffer that is not filled yet to another block.
LEMMA UnfilledStays ==
  ASSUME CacheSafe, [Next]_vars, NEW b \in unfilled
  PROVE  lru'[b].block = lru[b].block
<1>1. b \in Buffers
  BY UnfilledIsCached
<1>2. CASE AllRespect
  BY <1>1, <1>2 DEF AllRespect, Respects
<1>3. CASE Assigns
  <2>1. PICK a \in GetAvailableLRU : OnlyBuffer(a)
    BY <1>3, TookFields DEF Assigns, CacheSafe, Took
  <2>2. a # b
    BY <2>1, AvailableIsIdle, UnfilledIsCached DEF CacheSafe
  <2>3. QED
    BY <1>1, <2>1, <2>2 DEF OnlyBuffer
<1>4. lru \in [Buffers -> LRU] /\ TypeInv
  BY DEF CacheSafe, TypeInv, CacheInv
<1>5. QED
  BY <1>2, <1>3, <1>4, UserRespects, OtherRespects, OneAll DEF Next

\* The steps of the cache as steps of the store: CopyIn is Write, ReadLRU without fill
\* is Announce, the transfer of a write to the first disk is Destage.  Of all other steps
\* the store sees nothing.
LEMMA StoreStep ==
  ASSUME ~WriteErrors, CacheSafe, CacheSafe', [Next]_vars
  PROVE  Store!Next
<1>1. 1 \in Members /\ 1 \in 1..Mirrors
  BY NumberAssumption DEF Members
<1>2. StoreView /\ StoreView'
  BY ViewHolds, ViewKeeps
<1>3. \A k \in Blocks : Memory[k] = Reads(k) /\ OnDisk[k] = disk[1][k].version
  BY <1>2 DEF StoreView, View
<1>4. \A k \in Blocks : Memory'[k] = Reads(k)' /\ OnDisk'[k] = disk'[1][k].version
  BY <1>2 DEF StoreView, View
<1>5. /\ Memory = [k \in Blocks |-> Memory[k]] /\ OnDisk = [k \in Blocks |-> OnDisk[k]]
      /\ Memory' = [k \in Blocks |-> Memory'[k]] /\ OnDisk' = [k \in Blocks |-> OnDisk'[k]]
      /\ latest \in [Blocks -> Nat] /\ latest' \in [Blocks -> Nat]
  BY <1>2 DEF Memory, OnDisk, StoreView
<1>6. Store!Next <=> \/ UNCHANGED <<Memory, OnDisk, latest>>
                     \/ \E k \in Blocks :
                          \/ /\ latest' = [latest EXCEPT ![k] = @ + 1]
                             /\ \/ Memory' = [Memory EXCEPT ![k] = latest[k] + 1]
                                \/ Memory[k] = Unspecified /\ UNCHANGED Memory
                             /\ UNCHANGED OnDisk
                          \/ /\ Memory[k] = OnDisk[k]
                             /\ Memory' = [Memory EXCEPT ![k] = Unspecified]
                             /\ UNCHANGED <<OnDisk, latest>>
                          \/ /\ Memory[k] # Unspecified
                             /\ OnDisk' = [OnDisk EXCEPT ![k] = Memory[k]]
                             /\ UNCHANGED <<Memory, latest>>
  BY DEF Store!Next, Store!Write, Store!Announce, Store!Destage, Store!vars, Memory, OnDisk
<1>7. \A b \in unfilled : b \in Buffers /\ Hashed(b) /\ lru'[b].block = lru[b].block
  BY UnfilledStays, UnfilledIsCached
<1>8. ASSUME UNCHANGED <<latest, unfilled>>
      PROVE  Memory' = Memory
  <2>1. \A k \in Blocks : Reads(k)' = Reads(k)
    BY <1>7, <1>8 DEF Reads, Announced
  <2>2. \A k \in Blocks : Memory'[k] = Memory[k]
    BY <1>3, <1>4, <2>1
  <2>3. QED
    BY <1>5, <2>2
<1>9. ASSUME \A k \in Blocks : disk'[1][k] = disk[1][k]
      PROVE  OnDisk' = OnDisk
  <2>1. \A k \in Blocks : OnDisk'[k] = OnDisk[k]
    BY <1>3, <1>4, <1>9
  <2>2. QED
    BY <1>5, <2>1
<1>10. ASSUME UNCHANGED <<latest, unfilled>>, \A k \in Blocks : disk'[1][k] = disk[1][k]
       PROVE  Store!Next
  BY <1>6, <1>8, <1>9, <1>10
<1>11. ASSUME NEW u \in Users, CopyIn(u)
       PROVE  Store!Next
  <2>1. PICK a \in Buffers, k \in Blocks :
          /\ held[u] = a /\ want[u] = k /\ pc[u] = "hold"
          /\ latest'[k] = latest[k] + 1 /\ \A j \in Blocks \ {k} : latest'[j] = latest[j]
          /\ unfilled' = unfilled \/ unfilled' = unfilled \ {a}
          /\ UNCHANGED disk
    BY <1>11, CopyInEffect DEF CacheSafe, ioVars
  <2>2. lru[a].block = k /\ Hashed(a)
    BY <2>1 DEF CacheSafe, LoadInv, BufferLoads, HeldOf, Holding
  <2>3. \A j \in Blocks : Announced(j)' => Announced(j)
    BY <1>7, <2>1 DEF Announced
  <2>4. \A j \in Blocks \ {k} : Announced(j)' <=> Announced(j)
    BY <1>7, <2>1, <2>2 DEF Announced
  <2>5. \A j \in Blocks \ {k} : Memory'[j] = Memory[j]
    BY <1>3, <1>4, <2>1, <2>4 DEF Reads
  <2>6. latest' = [latest EXCEPT ![k] = @ + 1]
    BY <1>5, <2>1
  <2>7. CASE Announced(k)'
    <3>1. Memory[k] = Unspecified /\ Memory'[k] = Unspecified
      BY <1>3, <1>4, <2>3, <2>7 DEF Reads
    <3>2. Memory' = Memory
      BY <1>5, <2>5, <3>1
    <3>3. QED
      BY <1>6, <1>9, <2>1, <2>6, <3>1, <3>2
  <2>8. CASE ~Announced(k)'
    <3>1. Memory'[k] = latest[k] + 1
      BY <1>4, <2>1, <2>8 DEF Reads
    <3>2. Memory' = [Memory EXCEPT ![k] = latest[k] + 1]
      BY <1>5, <2>5, <3>1
    <3>3. QED
      BY <1>6, <1>9, <2>1, <2>6, <3>2
  <2>9. QED
    BY <2>7, <2>8
<1>12. ASSUME NEW u \in Users, ReadLRUNoFill(u)
       PROVE  Store!Next
  <2>1. PICK a \in Buffers, k \in Blocks :
          /\ SearchHash(k) = {} /\ lru'[a].block = k
          /\ unfilled' = unfilled \cup {a} /\ UNCHANGED <<latest, disk>>
    <3>1. pc'[u] = "hold"
      BY <1>12 DEF ReadLRUNoFill, Goto, CacheSafe, TypeInv, UsersInv
    <3>2. \E a \in Buffers : Took(a, want[u], {"DATAVALID"}, 1) /\ unfilled' = unfilled \cup {a}
      BY <1>12, <3>1, MissEffect DEF CacheSafe
    <3>3. UNCHANGED <<latest, disk>>
      BY <1>12, MissEffect DEF CacheSafe
    <3>4. QED
      BY <3>2, <3>3 DEF Took
  <2>2. View(k)
    BY <1>2 DEF StoreView
  <2>3. ~Announced(k) /\ disk[1][k] = Newest(k)
    BY <2>1, <2>2 DEF View, Cached
  <2>4. Memory[k] = OnDisk[k]
    BY <1>3, <2>3 DEF Reads, Newest
  <2>5. Memory'[k] = Unspecified
    BY <1>4, <2>1 DEF Reads, Announced
  <2>6. \A j \in Blocks \ {k} : Announced(j)' <=> Announced(j)
    BY <1>7, <2>1 DEF Announced
  <2>7. \A j \in Blocks \ {k} : Memory'[j] = Memory[j]
    BY <1>3, <1>4, <2>1, <2>6 DEF Reads
  <2>8. Memory' = [Memory EXCEPT ![k] = Unspecified]
    BY <1>5, <2>5, <2>7
  <2>9. QED
    BY <1>6, <1>9, <2>1, <2>4, <2>8
<1>13. ASSUME NEW u \in Users, ReadLRU(u) \/ Call(u) \/ Release(u)
       PROVE  Store!Next
  <2>1. CopyIn(u) \/ ReadLRUNoFill(u) \/ UNCHANGED <<disk, latest, unfilled>>
    BY <1>13 DEF ReadLRU, Release, Call, PerformBlockReadAhead, ReadLRUHit, ReadLRUWait, WaitOnBuffer,
                 ReadLRUFill, ReadLRUNone, FillBlock, FillBlockError, Refill, RefillError, ReleaseLRU,
                 ReleaseDirtyLRU, ioVars, historyVars
  <2>2. QED
    BY <1>10, <1>11, <1>12, <2>1
<1>14. ASSUME NEW a \in Buffers, NEW c \in Members, Transfer(a, c)
       PROVE  Store!Next
  <2>1. UNCHANGED <<latest, unfilled>>
    BY <1>14, TransferEffect DEF CacheSafe, historyVars
  <2>2. CASE c # 1 \/ io[a][c].command # "write"
    <3>1. \A k \in Blocks : disk'[1][k] = disk[1][k]
      BY <1>1, <1>14, <2>2, TransferEffect DEF CacheSafe
    <3>2. QED
      BY <1>10, <2>1, <3>1
  <2>3. CASE c = 1 /\ io[a][c].command = "write"
    <3>1. PICK k : k = lru[a].block
      OBVIOUS
    <3>2. PendingAt(a, c)
      BY <1>14, <2>3 DEF Transfer, PendingAt
    <3>3. /\ Has(a, "FLUSHING") /\ Hashed(a) /\ io[a][c].sector = k /\ lru[a].buffer = Newest(k)
      BY <3>1, <3>2, WriteIsNewest DEF CacheSafe
    <3>4. k \in Blocks
      BY <1>14, <3>3, TransferEffect DEF CacheSafe
    <3>5. \A j \in Blocks : disk'[1][j] = IF j = k THEN Newest(k) ELSE disk[1][j]
      BY <1>1, <1>14, <2>3, <3>3, TransferEffect DEF CacheSafe
    <3>6. ~Announced(k)
      <4>1. ASSUME NEW b \in unfilled, lru[b].block = k
            PROVE  FALSE
        BY <1>7, <3>1, <3>3, <4>1, UnfilledIsCached DEF CacheSafe, ReadInv, OneBufferPerBlock
      <4>2. QED
        BY <4>1 DEF Announced
    <3>7. Memory[k] = latest[k] /\ Memory[k] # Unspecified
      BY <1>3, <1>5, <3>4, <3>6 DEF Reads, Unspecified
    <3>8. OnDisk'[k] = Memory[k] /\ \A j \in Blocks \ {k} : OnDisk'[j] = OnDisk[j]
      BY <1>3, <1>4, <3>4, <3>5, <3>7 DEF Newest
    <3>9. OnDisk' = [OnDisk EXCEPT ![k] = Memory[k]]
      BY <1>5, <3>4, <3>8
    <3>10. QED
      BY <1>6, <1>8, <2>1, <3>4, <3>7, <3>9
  <2>4. QED
    BY <2>2, <2>3
<1>15. ASSUME NEW a \in Buffers, NEW c \in Members, Disk(a, c) \/ Interrupt(a, c)
       PROVE  Store!Next
  <2>1. Transfer(a, c) \/ UNCHANGED <<disk, latest, unfilled>>
    BY <1>15 DEF Disk, Interrupt, TransferError, ReleaseWriteAio, ReleaseAsynchReadAhead, historyVars
  <2>2. QED
    BY <1>10, <1>14, <2>1
<1>16. CASE Callback \/ FlushDaemon \/ LRUTimer \/ Age \/ UNCHANGED vars
  <2>1. ~RetryWriteAio
    BY NoWriteRetries DEF CacheSafe
  <2>2. UNCHANGED <<disk, latest, unfilled>>
    BY <1>16, <2>1
       DEF Callback, RetryAsynchReadAhead, RetryWriteAioDone, FlushDaemon, FlushWake, FlushStart,
           FlushInsert, FlushRelock, FlushReset, LRUTimer, Age, vars, ioVars, historyVars
  <2>3. QED
    BY <1>10, <2>2
<1>17. QED
  BY <1>13, <1>15, <1>16 DEF Next

\* The cache implements the write-back store, as long as no write to a disk fails: an
\* eviction, a load, a read ahead, a flush or a shared buffer changes nothing that a
\* reader gets, and the disk takes only what the readers see.
THEOREM CacheIsWriteBackStore ==
  ASSUME ~WriteErrors
  PROVE  Spec => ImplementsStore
<1>1. Init => Store!Init
  <2> SUFFICES ASSUME Init
               PROVE  Store!Init
    OBVIOUS
  <2>1. CacheSafe /\ unfilled = {} /\ latest = [k \in Blocks |-> 0]
    BY CacheStep DEF Init
  <2>2. \A k \in Blocks : disk[1][k].version = 0
    BY NumberAssumption DEF Init, Members
  <2>3. \A k \in Blocks : Memory[k] = 0 /\ OnDisk[k] = 0
    BY <2>1, <2>2, ViewHolds DEF StoreView, View, Reads, Announced
  <2>4. Memory = [k \in Blocks |-> 0] /\ OnDisk = [k \in Blocks |-> 0]
    BY <2>3 DEF Memory, OnDisk
  <2>5. QED
    BY <2>1, <2>4 DEF Store!Init, Memory, OnDisk
<1>2. CacheSafe /\ CacheSafe' /\ [Next]_vars => [Store!Next]_(Store!vars)
  BY StoreStep
<1>3. QED
  BY <1>1, <1>2, CacheInvariant, PTL DEF Spec, ImplementsStore, Store!Spec
=============================================================================

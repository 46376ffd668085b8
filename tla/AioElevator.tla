---------------------------- MODULE AioElevator ----------------------------
(***************************************************************************)
(* One queue of the asynchronous disk I/O manager as index_io and          *)
(* hash_disk_io build it (async.c): a doubly linked list of requests, and  *)
(* for every disk sixteen hash lists through the same requests that tell   *)
(* index_io where to start its search.  The lists are modelled link by     *)
(* link; insert_io and the taking of the queue hold aio_spinlock.          *)
(***************************************************************************)
EXTENDS Naturals

CONSTANTS
  Requests,     \* the ASYNCH_IO structures
  Null,         \* the null pointer
  Disks,        \* the disks that share this queue (disk_id % 8 is the same)
  Sectors       \* the sector offsets that are used

ASSUME NullAssumption == Null \notin Requests
ASSUME AddressAssumption == Disks \subseteq Nat /\ Sectors \subseteq Nat

VARIABLES
  io,           \* disk and sector of every request
  queue,        \* disk_io_head, disk_io_tail, and io->next, io->prior
  hash,         \* hash_head and hash_tail of every bucket, io->hnext, io->hprior
  list,         \* the chain the worker has taken: its next request
  pending       \* history: requests submitted and not served yet

vars == <<io, queue, hash, list, pending>>

Unlinked == [r \in Requests |-> Null]
Address == [disk : Disks, sector : Sectors]

\* The hash list of an address: its disk, and bits 8 to 11 of the sector offset
Bucket(a) == <<a.disk, (a.sector \div 256) % 16>>
Buckets == {Bucket(a) : a \in Address}
\* One hash list, and the hash with that list replaced
HashList(k) == [head |-> hash.head[k], tail |-> hash.tail[k],
                next |-> hash.next, prior |-> hash.prior]
WithHashList(k, l) == [head |-> [hash.head EXCEPT ![k] = l.head],
                       tail |-> [hash.tail EXCEPT ![k] = l.tail],
                       next |-> l.next, prior |-> l.prior]

-----------------------------------------------------------------------------
(* Linking a request into a list                                           *)

LinkOnly(l, r) == [l EXCEPT !.head = r, !.tail = r,
                            !.next[r] = Null, !.prior[r] = Null]
\* Mutant: the last request is not linked to the new one.
LinkLastNot(l, r, old) == [l EXCEPT !.next[r] = Null, !.prior[r] = old, !.tail = r]
LinkLast(l, r, old) == [l EXCEPT !.next[old] = r, !.next[r] = Null,
                                 !.prior[r] = old, !.tail = r]
\* Mutant: the successor keeps its prior link.
LinkBeforeOneWay(l, r, p) ==
  IF l.prior[p] = Null
  THEN [l EXCEPT !.next[r] = p, !.prior[r] = Null, !.head = r]
  ELSE [l EXCEPT !.next[l.prior[p]] = r, !.next[r] = p, !.prior[r] = l.prior[p]]
LinkBefore(l, r, p) ==
  IF l.prior[p] = Null
  THEN [l EXCEPT !.next[r] = p, !.prior[r] = Null, !.prior[p] = r, !.head = r]
  ELSE [l EXCEPT !.next[l.prior[p]] = r, !.next[r] = p,
                 !.prior[r] = l.prior[p], !.prior[p] = r]

\* The requests along a link from r on, as far as it leads from those in through:
\* the least set with r and what they are linked to.
Along(link, r, through) ==
  LET closed == {S \in SUBSET Requests :
                   /\ r \in Requests => r \in S
                   /\ \A q \in S \intersect through : link[q] \in Requests => link[q] \in S}
  IN {q \in Requests : \A S \in closed : q \in S}

\* The request is linked before the first one from start on that is not among
\* the lesser ones, or after the last one.
Link(l, r, start, lesser) ==
  LET passed == Along(l.next, start, lesser)
      p == CHOOSE q \in passed : q \notin lesser \/ l.next[q] = Null
  IN IF p \notin lesser THEN LinkBefore(l, r, p) ELSE LinkLast(l, r, p)

\* Where index_io starts
Start(a) ==
  IF hash.head[Bucket(a)] # Null THEN hash.head[Bucket(a)] ELSE queue.head

IndexIo(r, a) ==
  IF queue.tail = Null THEN LinkOnly(queue, r)
  ELSE Link(queue, r, Start(a),
            {p \in Requests : io[p].disk < a.disk \/ io[p].sector < a.sector})
\* Mutant: the hash list is not searched.
HashDiskIoFirst(r, a) ==
  LET l == HashList(Bucket(a))
  IN IF l.head = Null THEN LinkOnly(l, r) ELSE LinkBefore(l, r, l.head)
HashDiskIo(r, a) ==
  LET l == HashList(Bucket(a))
  IN IF l.head = Null THEN LinkOnly(l, r)
     ELSE Link(l, r, l.head, {p \in Requests : io[p].sector < a.sector})

-----------------------------------------------------------------------------
AllNull == [k \in Buckets |-> Null]

Init ==
  /\ io \in [Requests -> {CHOOSE a \in Address : TRUE}]
  /\ queue = [head |-> Null, tail |-> Null, next |-> Unlinked, prior |-> Unlinked]
  /\ hash = [head |-> AllNull, tail |-> AllNull, next |-> Unlinked,
             prior |-> Unlinked]
  /\ list = Null
  /\ pending = {}

InsertIo(r) ==
  /\ r \notin pending
  /\ \E a \in Address :
       /\ io' = [io EXCEPT ![r] = a]
       /\ queue' = IndexIo(r, a)
       /\ hash' = WithHashList(Bucket(a), HashDiskIo(r, a))
  /\ pending' = pending \cup {r}
  /\ UNCHANGED list

\* Mutant: the hash lists keep the requests of the queue that was taken.
KeptHash(old) == old
\* Head and tail of every hash list are cleared, the links left as they are.
ClearedHash(old) == [old EXCEPT !.head = AllNull, !.tail = AllNull]
\* process_asynch_io takes the whole queue: new requests do not join it.
TakeQueue ==
  /\ list = Null /\ queue.head # Null
  /\ list' = queue.head
  /\ queue' = [queue EXCEPT !.head = Null, !.tail = Null]
  /\ hash' = ClearedHash(hash)
  /\ UNCHANGED <<io, pending>>

\* The worker takes the next request of its chain to the disk, which serves it.
Serve ==
  /\ list # Null
  /\ list' = queue.next[list]
  /\ queue' = [queue EXCEPT !.next[list] = Null, !.prior[list] = Null]
  /\ pending' = pending \ {list}
  /\ UNCHANGED <<io, hash>>

Next == (\E r \in Requests : InsertIo(r)) \/ TakeQueue \/ Serve
Spec == Init /\ [][Next]_vars
FairSpec == Spec /\ WF_vars(TakeQueue) /\ WF_vars(Serve)

-----------------------------------------------------------------------------
(* Properties                                                              *)

\* The requests from r on, along a link
Reach(link, r) == Along(link, r, Requests)
Queued == Reach(queue.next, queue.head)
Taken == Reach(queue.next, list)

\* No request is lost or served twice: what was submitted is on the queue or on
\* the chain of the worker, and never on both.
NothingLost == Queued \cup Taken = pending /\ Queued \cap Taken = {}

\* A list reads the same from both ends.
Linked(l) ==
  /\ (l.head = Null) = (l.tail = Null)
  /\ Reach(l.prior, l.tail) = Reach(l.next, l.head)
  /\ \A r \in Reach(l.next, l.head) :
       /\ IF r = l.head THEN l.prior[r] = Null ELSE l.next[l.prior[r]] = r
       /\ IF r = l.tail THEN l.next[r] = Null ELSE l.prior[l.next[r]] = r

HashedAreQueued ==
  /\ \A k \in Buckets : Linked(HashList(k))
  /\ Queued = UNION {Reach(hash.next, hash.head[k]) : k \in Buckets}

HashHeadsLowest ==
  \A k \in Buckets : \A r \in Reach(hash.next, hash.head[k]) :
    io[hash.head[k]].sector <= io[r].sector

\* The queue and the hash lists are whole, the hash lists hold the requests of the
\* queue and no others, and the lowest sector of a bucket is first: where
\* hash_disk_io lets index_io start is in the queue, never in the chain that is
\* being served, and not past the place of the new request.
ListsSound == Linked(queue) /\ HashedAreQueued /\ HashHeadsLowest

\* Every request that is submitted is served in the end: the queue that is
\* being served does not grow.
NoStarvation == \A r \in Requests : r \in pending ~> r \notin pending
=============================================================================

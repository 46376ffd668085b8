---------------------------- MODULE NWFileProofs ----------------------------
(***************************************************************************)
(* Proofs about module NWFile, for any files, clusters, records and calls: *)
(* its variables keep their types, an allocated cluster is in one chain at *)
(* one place, a suballocation record belongs to one file, chains are in    *)
(* the order of the file, and a read returns what was last written.        *)
(*                                                                         *)
(* That chains stay apart is not inductive by itself: a call works at a    *)
(* place in the middle of a chain, and the context of the last call names  *)
(* another.  The invariant says that there is an assignment of places to   *)
(* files (own) that the links, the heads, the contexts and the places of   *)
(* the calls respect.  No reachability is needed.                          *)
(***************************************************************************)
EXTENDS NWFile, TLAPS

Places == Clusters \union Records

\* What may be named: a cluster that is not free, a record in use.
Live == (Clusters \ Free) \union inUse

\* A link leads to a place of the same file, or to the end.
LinksOwn(own) ==
  \A c \in Clusters \ Free :
    FAT[c].FATCluster # EOF =>
      FAT[c].FATCluster \in Live /\ own[FAT[c].FATCluster] = own[c]

\* So does the head of a chain.
HeadsOwn(own) ==
  \A f \in Files : Head(f) # EOF => Head(f) \in Live /\ own[Head(f)] = f

\* And the context that the next call may start from.
TurboOwn(own) ==
  \A f \in Files :
    /\ hash[f].TurboFATCluster # None =>
         hash[f].TurboFATCluster \in Live /\ own[hash[f].TurboFATCluster] = f
    /\ hash[f].TurboFATCluster # EOF
    /\ hash[f].TurboFATCluster # None => TurboFat
    /\ call[f].op = "truncate" => hash[f].TurboFATCluster = None

\* A call has come to a place of its file: through the link of the cluster
\* before it, through the head, or from the context and then not behind what it
\* wants.
CallOwn(own, f) ==
  LET o == call[f]
  IN  /\ o.step = "walk" =>
           /\ o.op # "none"
           /\ o.chain # EOF => o.chain \in Live /\ own[o.chain] = f
           /\ o.prev # None => /\ o.prev \in Clusters \ Free
                               /\ FAT[o.prev].FATCluster = o.chain
                               /\ own[o.prev] = f
           /\ o.prev = None /\ o.chain # o.head =>
                /\ o.op \in {"write", "read"}
                /\ o.chain # EOF
                /\ o.chain \in Clusters => o.index <= vindex(o)
      /\ o.step = "free" =>
           /\ o.op = "truncate"
           /\ o.chain \in Clusters \ Free
           /\ own[o.chain] = f
      /\ o.op = "read" => o.head = hash[f].FirstBlock

CallsOwn(own) == \A f \in Files : CallOwn(own, f)

\* A place is named by one link, one head or one truncate that has cut it off,
\* and by no two of them.
Cut(f, x) == call[f].step = "free" /\ call[f].chain = x

LinksApart ==
  \A c, d \in Clusters \ Free :
    FAT[c].FATCluster = FAT[d].FATCluster /\ FAT[c].FATCluster # EOF => c = d

HeadsApart ==
  \A c \in Clusters \ Free, f \in Files : FAT[c].FATCluster = Head(f) => Head(f) = EOF

CutsApart ==
  \A f \in Files :
    call[f].step = "free" =>
      /\ \A c \in Clusters : FAT[c].FATCluster # call[f].chain
      /\ Head(f) # call[f].chain

NothingLost ==
  \A x \in Clusters \ Free :
    \/ \E c \in Clusters \ Free : FAT[c].FATCluster = x
    \/ \E f \in Files : Head(f) = x
    \/ \E f \in Files : Cut(f, x)

Owned(own) == LinksOwn(own) /\ HeadsOwn(own) /\ TurboOwn(own) /\ CallsOwn(own)
Apart == LinksApart /\ HeadsApart /\ CutsApart /\ NothingLost

\* A place that was never taken has no file.
Owners == Files \union {None}

\* The places that file f takes in a step were nobody's.
Extends(own, w, f) == \A x \in Places : w[x] = own[x] \/ (x \notin Live /\ w[x] = f)

ChainInv == orphaned = {} => Apart /\ \E own \in [Places -> Owners] : Owned(own)

-----------------------------------------------------------------------------
(* Types *)

LEMMA Constants ==
  /\ ClusterSize \in Nat \ {0}
  /\ \A r \in Records : RecordSize[r] \in 1 .. ClusterSize - 1
  /\ EOF \notin Places /\ None \notin Places /\ None # EOF
  /\ Clusters \intersect Records = {}
  /\ MaxUnits \in Nat /\ MaxCalls \in Nat
BY FileConstants DEF Places

LEMMA CallSizes ==
  ASSUME NEW o \in Calls
  PROVE  /\ vindex(o) \in Nat
         /\ voffset(o) \in 0 .. ClusterSize - 1
         /\ left(o) \in Int /\ o.pos + left(o) = o.to
         /\ vsize(o) \in Int /\ vsize(o) <= left(o) /\ o.pos + vsize(o) \in Nat
         /\ left(o) > 0 => vsize(o) > 0
         /\ NextIndex(o) \in Nat
<1> DEFINE p == o.pos
<1>1. p \in Nat /\ o.to \in 0 .. MaxUnits /\ ClusterSize \in Nat /\ ClusterSize > 0 /\ MaxUnits \in Nat
  BY Constants DEF Calls
<1> HIDE DEF p
<1>2. p \div ClusterSize \in Nat /\ p % ClusterSize \in 0 .. ClusterSize - 1
  BY <1>1
<1>3. (p + ClusterSize - 1) \div ClusterSize \in Nat
  BY <1>1
<1>4. QED
  BY <1>1, <1>2, <1>3 DEF p, vindex, voffset, left, vsize, NextIndex

LEMMA CallTypes ==
  ASSUME NEW o \in Calls
  PROVE  /\ Finished(o) \in Calls /\ Failed(o) \in Calls /\ EndIfDone(o) \in Calls
         /\ \A n \in Int : o.pos + n \in Nat => Moved(o, n) \in Calls
         /\ \A c \in Clusters \union {None} : [o EXCEPT !.prev = c] \in Calls
         /\ \A x \in Links \union {None} : [o EXCEPT !.chain = x] \in Calls
         /\ \A x \in Links : Headed(o, x) \in Calls
         /\ [o EXCEPT !.step = "free"] \in Calls
         /\ \A i \in Nat : [o EXCEPT !.last = i] \in Calls
         /\ \A i \in Nat : [o EXCEPT !.index = i] \in Calls
<1>1. /\ \A s \in {"idle", "walk", "free", "return"} : [o EXCEPT !.step = s] \in Calls
      /\ Failed(o) \in Calls
  BY DEF Calls, Failed
<1>2. Finished(o) \in Calls /\ EndIfDone(o) \in Calls
  BY <1>1 DEF Finished, EndIfDone
<1>3. \A n \in Int : o.pos + n \in Nat => Moved(o, n) \in Calls
  BY DEF Moved, Calls
<1>4. \A c \in Clusters \union {None} : [o EXCEPT !.prev = c] \in Calls
  BY DEF Calls
<1>5. \A x \in Links \union {None} : [o EXCEPT !.chain = x] \in Calls
  BY DEF Calls
<1>6. \A x \in Links : Headed(o, x) \in Calls
  BY DEF Calls, Headed
<1>7. \A i \in Nat : [o EXCEPT !.last = i] \in Calls
  BY DEF Calls
<1>8. \A i \in Nat : [o EXCEPT !.index = i] \in Calls
  BY DEF Calls
<1>9. QED
  BY <1>1, <1>2, <1>3, <1>4, <1>5, <1>6, <1>7, <1>8

LEMMA ArriveType ==
  ASSUME TypeOK, NEW o \in Calls, NEW x \in Links \union {None}, NEW i \in Nat
  PROVE  Arrive(o, x, i) \in Calls
BY DEF TypeOK, FAT_ENTRY, Calls, Arrive

LEMMA BumpType ==
  ASSUME TypeOK, NEW o \in Calls, o.chain \in Clusters
  PROVE  Bump(o) \in Calls
<1> DEFINE q == [[o EXCEPT !.prev = o.chain] EXCEPT !.last = o.index]
<1>1. q \in Calls
  BY DEF Calls
<1>2. FAT[o.chain].FATCluster \in Links \union {None} /\ o.index + 1 \in Nat
  BY DEF TypeOK, FAT_ENTRY, Calls
<1>3. Bump(o) = Arrive(q, FAT[o.chain].FATCluster, o.index + 1)
  BY DEF Bump
<1>4. QED
  BY <1>1, <1>2, <1>3, ArriveType

\* What a call stores, copies and returns
LEMMA DataTypes ==
  ASSUME NEW d \in [Places -> [Units -> Versions]]
  PROVE  /\ \A x \in Places, i \in Int, n \in Int, v \in Versions :
              Stored(d, x, i, n, v) \in [Places -> [Units -> Versions]]
         /\ \A o \in Calls, c \in Places : Transferred(d, o, c) \in [Places -> [Units -> Versions]]
<1>1. ASSUME NEW x \in Places, NEW i \in Int, NEW n \in Int, NEW v \in Versions
      PROVE  Stored(d, x, i, n, v) \in [Places -> [Units -> Versions]]
  BY DEF Stored
<1>2. ASSUME NEW o \in Calls, NEW c \in Places
      PROVE  Transferred(d, o, c) \in [Places -> [Units -> Versions]]
  <2>1. o.number \in Versions /\ voffset(o) \in Int /\ vsize(o) \in Int
    BY CallSizes DEF Calls
  <2>2. QED
    BY <1>1, <2>1 DEF Transferred
<1>3. QED
  BY <1>1, <1>2

LEMMA CopyType ==
  ASSUME TypeOK, NEW x \in Places, NEW y \in Places, NEW n \in Int
  PROVE  Copied(x, y, n) \in [Places -> [Units -> Versions]]
BY DEF TypeOK, Places, Copied

LEMMA GotType ==
  ASSUME TypeOK, NEW o \in Calls, NEW n \in Int, n <= left(o) \/ n = 0, o.pos + n \in Nat
  PROVE  /\ Zeros(o, n) \in Calls
         /\ \A x \in Places : Got(o, x, n) \in Calls
<1>1. /\ o.pos \in Nat /\ o.to \in 0 .. MaxUnits /\ left(o) = o.to - o.pos
      /\ o.got \in SUBSET (FileUnits \X Versions)
      /\ MaxUnits \in Nat /\ ClusterSize \in Nat \ {0} /\ MaxCalls \in Nat
  BY Constants DEF Calls, left
<1>2. \A u \in o.pos .. o.pos + n - 1 : u \in FileUnits /\ u \in Nat
  BY <1>1 DEF FileUnits
<1>3. \A u \in Nat : u % ClusterSize \in Units
  BY <1>1 DEF Units
<1>4. Moved(o, n) \in Calls /\ Moved(o, n).got = o.got
  BY CallTypes DEF Moved, Calls
<1>5. {<<u, 0>> : u \in o.pos .. o.pos + n - 1} \subseteq FileUnits \X Versions
  BY <1>1, <1>2 DEF Versions
<1>6. ASSUME NEW x \in Places
      PROVE  {<<u, data[x][u % ClusterSize]>> : u \in o.pos .. o.pos + n - 1}
               \subseteq FileUnits \X Versions
  <2>1. \A i \in Units : data[x][i] \in Versions
    BY DEF TypeOK, Places
  <2>2. \A u \in o.pos .. o.pos + n - 1 : data[x][u % ClusterSize] \in Versions
    BY <1>2, <1>3, <2>1
  <2>3. QED
    BY <1>2, <2>2
<1>7. \A g \in SUBSET (FileUnits \X Versions) :
        [Moved(o, n) EXCEPT !.got = @ \union g] \in Calls
  <2> DEFINE q == Moved(o, n)
  <2>1. q \in Calls
    BY <1>4
  <2> HIDE DEF q
  <2>2. \A g \in SUBSET (FileUnits \X Versions) : [q EXCEPT !.got = @ \union g] \in Calls
    BY <2>1 DEF Calls
  <2>3. QED
    BY <2>2 DEF q
<1>8. QED
  BY <1>5, <1>6, <1>7 DEF Zeros, Got

LEMMA HashTypes ==
  ASSUME TypeOK, NEW f \in Files, NEW x \in Links \union {None}, NEW i \in Nat
  PROVE  /\ SetTurbo(f, x, i) \in [Files -> HASH]
         /\ [hash EXCEPT ![f].TurboFATCluster = x] \in [Files -> HASH]
         /\ hash[f] \in HASH
BY DEF TypeOK, SetTurbo, HASH

LEMMA ResetType ==
  ASSUME NEW h \in HASH
  PROVE  ResetTurbo(h) \in HASH /\ [h EXCEPT !.Modified = FALSE] \in HASH
BY DEF ResetTurbo, HASH

LEMMA FatTypes ==
  ASSUME NEW fat \in [Clusters -> FAT_ENTRY], NEW x \in Links,
         NEW o \in Calls
  PROVE  /\ Relinked(fat, o, x) \in [Clusters -> FAT_ENTRY]
         /\ \A c \in Clusters, i \in Nat :
              [fat EXCEPT ![c] = [FATIndex |-> i, FATCluster |-> x]] \in [Clusters -> FAT_ENTRY]
         /\ \A c \in Clusters : [fat EXCEPT ![c].FATCluster = x] \in [Clusters -> FAT_ENTRY]
BY DEF Relinked, FAT_ENTRY

LEMMA StartTypes ==
  ASSUME TypeOK, NEW f \in Files, NEW o \in Calls
  PROVE  Started(f, o) \in Calls
<1> DEFINE q == [[o EXCEPT !.head = hash[f].FirstBlock] EXCEPT !.step = "walk"]
<1>1. /\ hash[f].FirstBlock \in Links /\ hash[f].TurboFATCluster \in Links \union {None}
      /\ hash[f].TurboFATIndex \in Nat
  BY DEF TypeOK, HASH
<1>2. q \in Calls
  BY <1>1 DEF Calls
<1>3. /\ Arrive(q, hash[f].TurboFATCluster, hash[f].TurboFATIndex) \in Calls
      /\ Arrive(q, hash[f].FirstBlock, 0) \in Calls
  BY <1>1, <1>2, ArriveType
<1>4. QED
  BY <1>3 DEF Started

LEMMA NoCallType == NoCall \in Calls
BY Constants DEF NoCall, Calls, Links, Versions

LEMMA CutTypes ==
  ASSUME TypeOK, NEW f \in Files, NEW units \in 0 .. MaxUnits, NEW ragged \in BOOLEAN,
         ragged => units > 0
  PROVE  TruncateTo(f, units, ragged) => call' \in [Files -> Calls]
<1> DEFINE n == IF ragged THEN units - 1 ELSE units
           o == [NoCall EXCEPT
                   !.op = "truncate", !.step = "walk", !.head = hash[f].FirstBlock,
                   !.to = units, !.pos = (n \div ClusterSize) * ClusterSize]
<1>1. n \in Nat
  BY Constants
<1> HIDE DEF n
<1>2. n \div ClusterSize \in Nat /\ ClusterSize \in Nat
  BY <1>1, Constants
<1>3. (n \div ClusterSize) * ClusterSize \in Nat
  BY <1>2
<1>4. hash[f].FirstBlock \in Links
  BY DEF TypeOK, HASH
<1>5. o \in Calls
  BY <1>3, <1>4, NoCallType DEF Calls
<1>6. Finished(o) \in Calls /\ Arrive(o, hash[f].FirstBlock, 0) \in Calls
  BY <1>4, <1>5, ArriveType, CallTypes
<1>7. TruncateTo(f, units, ragged) =>
        call' = [call EXCEPT ![f] = IF hash[f].FirstBlock = EOF THEN Finished(o)
                                     ELSE Arrive(o, hash[f].FirstBlock, 0)]
  BY DEF TruncateTo, Goto, n
<1> HIDE DEF o
<1>8. QED
  BY <1>6, <1>7 DEF TypeOK

\* Every call is over, or at a place of its kind.
LEMMA WriteTypes ==
  ASSUME TypeOK, NEW f \in Files, NWWriteFile(f)
  PROVE  TypeOK'
<1> DEFINE o == call[f]
<1>0. /\ o \in Calls /\ hash[f] \in HASH /\ FAT \in [Clusters -> FAT_ENTRY]
      /\ data \in [Places -> [Units -> Versions]]
      /\ Clusters \subseteq Places /\ Records \subseteq Places /\ Clusters \subseteq Links
      /\ EOF \in Links
  BY DEF TypeOK, Places, Links
<1>1. /\ vindex(o) \in Nat /\ voffset(o) \in 0 .. ClusterSize - 1
      /\ left(o) \in Int /\ o.pos + left(o) = o.to
      /\ vsize(o) \in Int /\ o.pos + vsize(o) \in Nat
      /\ NextIndex(o) \in Nat
      /\ o.to \in Nat /\ o.index \in Nat /\ o.from \in Nat /\ o.pos \in Nat
  BY <1>0, CallSizes DEF Calls
<1>2. \A c \in Clusters : Headed(o, c) \in Calls /\ Headed(o, c).pos = o.pos
  <2>1. \A c \in Clusters : Headed(o, c) \in Calls
    BY <1>0, CallTypes
  <2>2. \A c \in Clusters : Headed(o, c).pos = o.pos
    BY <1>0 DEF Headed, Calls
  <2>3. QED
    BY <2>1, <2>2
<1>3. Moved(o, vsize(o)) \in Calls /\ Moved(o, left(o)) \in Calls
  BY <1>0, <1>1, CallTypes
<1>4. CASE StartWrite(f)
  <2>1. PICK op \in Writes, e \in Extents :
          LET q == Started(f, [NoCall EXCEPT !.op = op, !.from = e[1], !.to = e[1] + e[2],
                                             !.pos = e[1], !.number = calls + 1])
          IN  /\ Goto(f, q)
              /\ hash' = IF op = "write" /\ TurboFat /\ q.chain \in Clusters
                         THEN [hash EXCEPT ![f].TurboFATCluster = q.chain]
                         ELSE hash
              /\ orphaned' = Misled(f, BeginsPast(q))
    BY <1>4 DEF StartWrite
  <2> DEFINE r == [NoCall EXCEPT !.op = op, !.from = e[1], !.to = e[1] + e[2],
                                 !.pos = e[1], !.number = calls + 1]
             q == Started(f, r)
  <2>2. /\ e[1] \in 0 .. MaxUnits /\ e[2] \in 1 .. MaxUnits /\ e[1] + e[2] <= MaxUnits
        /\ calls + 1 \in 0 .. MaxCalls
    BY <1>4, FileConstants DEF StartWrite, TypeOK
  <2>3. e[1] + e[2] \in 0 .. MaxUnits /\ e[1] \in Nat
    BY <2>2, Constants
  <2>4. r \in Calls
    BY <2>2, <2>3, NoCallType DEF Calls, Writes, Versions
  <2> HIDE DEF r
  <2>5. q \in Calls
    BY <2>4, StartTypes
  <2>6. /\ call' = [call EXCEPT ![f] = q]
        /\ hash' = hash \/ hash' = [hash EXCEPT ![f].TurboFATCluster = q.chain]
        /\ orphaned' = Misled(f, BeginsPast(q))
    BY <2>1 DEF Goto, r
  <2> HIDE DEF q
  <2>7. q.chain \in Links \union {None} /\ hash' \in [Files -> HASH]
    <3>1. q.chain \in Links \union {None}
      BY <2>5 DEF Calls
    <3>2. [hash EXCEPT ![f].TurboFATCluster = q.chain] \in [Files -> HASH]
      BY <3>1, HashTypes, 0 \in Nat
    <3>3. QED
      BY <2>6, <3>1, <3>2 DEF TypeOK
  <2>8. QED
    BY <1>4, <2>2, <2>5, <2>6, <2>7 DEF StartWrite, TypeOK, Misled
<1>5. CASE WriteHole(f)
  <2>1. PICK c \in Free :
          /\ FAT' = Relinked([FAT EXCEPT ![c] = [FATIndex   |-> vindex(o),
                                                 FATCluster |-> o.chain]], o, c)
          /\ data' = Transferred(data, o, c)
          /\ Goto(f, [Moved(Headed(o, c), vsize(o)) EXCEPT !.prev = c])
          /\ hash' = SetTurbo(f, c, vindex(o))
    BY <1>5 DEF WriteHole
  <2>2. c \in Clusters /\ o.chain \in Links
    BY <1>0, <1>5 DEF Free, WriteHole, OnCluster
  <2>3. FAT' \in [Clusters -> FAT_ENTRY]
    BY <1>0, <1>1, <2>1, <2>2, FatTypes
  <2>4. data' \in [Places -> [Units -> Versions]]
    BY <1>0, <2>1, <2>2, DataTypes
  <2>5. [Moved(Headed(o, c), vsize(o)) EXCEPT !.prev = c] \in Calls
    BY <1>1, <1>2, <2>2, CallTypes
  <2>6. hash' \in [Files -> HASH]
    BY <1>0, <1>1, <2>1, <2>2, HashTypes
  <2>7. QED
    BY <1>5, <2>1, <2>3, <2>4, <2>5, <2>6 DEF WriteHole, TypeOK, Goto, Places
<1>6. CASE WriteHit(f)
  <2> DEFINE p == AfterCluster(Moved(o, vsize(o)))
  <2>1. o.chain \in Clusters
    BY <1>6 DEF WriteHit, OnCluster
  <2>2. Moved(o, vsize(o)).chain = o.chain
    BY <1>0 DEF Moved, Calls
  <2>3. p \in Calls
    BY <1>3, <2>1, <2>2, BumpType, CallTypes DEF AfterCluster
  <2> HIDE DEF p
  <2>4. /\ data' \in [Places -> [Units -> Versions]]
        /\ hash' \in [Files -> HASH]
    <3>1. SetTurbo(f, o.chain, vindex(o)) \in [Files -> HASH]
      BY <1>0, <1>1, <2>1, HashTypes
    <3>2. p.chain \in Clusters => SetTurbo(f, p.chain, vindex(o) + 1) \in [Files -> HASH]
      <4>1. vindex(o) + 1 \in Nat
        BY <1>1
      <4>2. QED
        BY <1>0, <4>1, HashTypes
    <3>3. QED
      BY <1>0, <1>6, <2>1, <3>1, <3>2, DataTypes DEF WriteHit, p
  <2>5. QED
    BY <1>6, <2>3, <2>4 DEF WriteHit, TypeOK, Goto, Places, p
<1>7. CASE WriteSkip(f)
  <2> DEFINE p == AfterCluster(o)
  <2>1. o.chain \in Clusters
    BY <1>7 DEF WriteSkip, OnCluster
  <2>2. p \in Calls
    BY <1>0, <2>1, BumpType, CallTypes DEF AfterCluster
  <2>3. hash' \in [Files -> HASH]
    <3>1. \A i \in Nat, x \in Clusters : SetTurbo(f, x, i) \in [Files -> HASH]
      BY <1>0, HashTypes
    <3>2. QED
      BY <1>1, <1>7, <3>1 DEF WriteSkip, TypeOK
  <2>4. QED
    BY <1>7, <2>2, <2>3 DEF WriteSkip, TypeOK, Goto
<1>8. CASE WriteExtend(f)
  <2>1. PICK c \in Free :
          /\ FAT' = Relinked([FAT EXCEPT ![c] = [FATIndex   |-> vindex(o),
                                                 FATCluster |-> EOF]], o, c)
          /\ data' = Transferred(data, o, c)
          /\ Goto(f, EndIfDone([Moved(Headed(o, c), vsize(o)) EXCEPT !.prev = c]))
          /\ hash' = SetTurbo(f, c, vindex(o))
    BY <1>8 DEF WriteExtend
  <2>2. c \in Clusters
    BY DEF Free
  <2>3. FAT' \in [Clusters -> FAT_ENTRY]
    BY <1>0, <1>1, <2>1, <2>2, FatTypes
  <2>4. data' \in [Places -> [Units -> Versions]]
    BY <1>0, <2>1, <2>2, DataTypes
  <2>5. EndIfDone([Moved(Headed(o, c), vsize(o)) EXCEPT !.prev = c]) \in Calls
    BY <1>1, <1>2, <2>2, CallTypes
  <2>6. hash' \in [Files -> HASH]
    BY <1>0, <1>1, <2>1, <2>2, HashTypes
  <2>7. QED
    BY <1>8, <2>1, <2>3, <2>4, <2>5, <2>6 DEF WriteExtend, TypeOK, Goto, Places
<1>9. CASE WriteTail(f)
  <2>1. o.chain \in Records
    BY <1>9 DEF WriteTail, OnRecord
  <2>2. data' \in [Places -> [Units -> Versions]]
    BY <1>0, <1>9, <2>1, DataTypes DEF WriteTail
  <2>3. QED
    BY <1>3, <1>9, <2>2, CallTypes DEF WriteTail, TypeOK, Goto, Places
<1>10. CASE WriteConvert(f)
  <2> DEFINE n == IF vindex(o) = o.index THEN vsize(o) ELSE 0
  <2>1. PICK c \in Free :
          LET copy == Copied(o.chain, c, RecordSize[o.chain])
          IN  /\ FAT' = Relinked([FAT EXCEPT ![c] = [FATIndex   |-> o.index,
                                                     FATCluster |-> EOF]], o, c)
              /\ data' = IF n > 0 THEN Transferred(copy, o, c) ELSE copy
              /\ Goto(f, EndIfDone([Moved(Headed(o, c), n) EXCEPT !.prev = c, !.chain = EOF]))
              /\ hash' = SetTurbo(f, c, o.index)
    BY <1>10 DEF WriteConvert
  <2>2. c \in Clusters /\ o.chain \in Records
    BY <1>10 DEF Free, WriteConvert, OnRecord
  <2>3. FAT' \in [Clusters -> FAT_ENTRY]
    BY <1>0, <1>1, <2>1, <2>2, FatTypes
  <2>4. data' \in [Places -> [Units -> Versions]]
    <3> DEFINE copy == Copied(o.chain, c, RecordSize[o.chain])
    <3>1. RecordSize[o.chain] \in Int
      BY <2>2, Constants
    <3>2. copy \in [Places -> [Units -> Versions]]
      BY <1>0, <2>2, <3>1, CopyType
    <3>3. Transferred(copy, o, c) \in [Places -> [Units -> Versions]]
      BY <1>0, <2>2, <3>2, DataTypes
    <3>4. QED
      BY <2>1, <3>2, <3>3
  <2>5. EndIfDone([Moved(Headed(o, c), n) EXCEPT !.prev = c, !.chain = EOF]) \in Calls
    <3>1. n \in Int /\ o.pos + n \in Nat
      BY <1>1
    <3>2. Moved(Headed(o, c), n) \in Calls
      BY <1>2, <2>2, <3>1, CallTypes
    <3> DEFINE r == Moved(Headed(o, c), n)
    <3>3. [r EXCEPT !.prev = c] \in Calls
      BY <2>2, <3>2, CallTypes
    <3>4. [[r EXCEPT !.prev = c] EXCEPT !.chain = EOF] \in Calls
      BY <1>0, <3>3, CallTypes
    <3>5. [r EXCEPT !.prev = c, !.chain = EOF] = [[r EXCEPT !.prev = c] EXCEPT !.chain = EOF]
      OBVIOUS
    <3>6. QED
      BY <3>4, <3>5, CallTypes
  <2>6. hash' \in [Files -> HASH]
    BY <1>0, <1>1, <2>1, <2>2, HashTypes
  <2>7. orphaned' \subseteq Files /\ inUse' \subseteq Records
    BY <1>10 DEF WriteConvert, TypeOK, Misled
  <2>8. call' \in [Files -> Calls]
    BY <2>1, <2>5 DEF TypeOK, Goto
  <2>9. QED
    BY <1>10, <2>3, <2>4, <2>6, <2>7, <2>8 DEF WriteConvert, TypeOK, Places
<1>11. CASE WriteFails(f)
  BY <1>0, <1>11, CallTypes DEF WriteFails, TypeOK, Goto
<1>12. CASE WriteReturn(f)
  <2>1. hash' \in [Files -> HASH]
    <3>1. o.head \in Links /\ o.to \in 0 .. MaxUnits
      BY <1>0 DEF Calls
    <3>2. [hash[f] EXCEPT !.FirstBlock = o.head, !.Modified = TRUE,
                          !.FileSize = IF o.op = "write" /\ o.to > @ THEN o.to ELSE @] \in HASH
      BY <1>0, <3>1 DEF HASH
    <3>3. hash' \in {hash, [hash EXCEPT ![f] =
            [hash[f] EXCEPT !.FirstBlock = o.head, !.Modified = TRUE,
                            !.FileSize = IF o.op = "write" /\ o.to > @ THEN o.to ELSE @]]}
      BY <1>12 DEF WriteReturn, Update, TypeOK
    <3>4. QED
      BY <3>2, <3>3 DEF TypeOK
  <2>2. written' \in [Files -> [FileUnits -> Versions]]
    <3>1. o.number \in Versions /\ 0 \in Versions
      BY <1>0, Constants DEF Calls, Versions
    <3>2. \A u \in FileUnits : written[f][u] \in Versions
      BY DEF TypeOK
    <3>3. [u \in FileUnits |->
             IF u \notin o.from .. o.to - 1 \/ (o.op = "map" /\ ~o.error) THEN written[f][u]
             ELSE IF o.error THEN 0 ELSE o.number] \in [FileUnits -> Versions]
      BY <3>1, <3>2
    <3>4. QED
      BY <1>12, <3>3 DEF WriteReturn, Recorded, TypeOK
  <2>3. orphaned' \subseteq Files /\ call' \in [Files -> Calls]
    BY <1>12, NoCallType DEF WriteReturn, TypeOK, Misled, Goto
  <2>4. QED
    BY <1>12, <2>1, <2>2, <2>3 DEF WriteReturn, TypeOK
<1>13. QED
  BY <1>4, <1>5, <1>6, <1>7, <1>8, <1>9, <1>10, <1>11, <1>12 DEF NWWriteFile

LEMMA ReadTypes ==
  ASSUME TypeOK, NEW f \in Files, NWReadFile(f)
  PROVE  TypeOK'
<1> DEFINE o == call[f]
<1>0. /\ o \in Calls /\ hash[f] \in HASH
      /\ Clusters \subseteq Places /\ Records \subseteq Places
      /\ \A x \in Clusters \union Records \union {None} : x \in Links \union {None}
  BY DEF TypeOK, Places, Links
<1>1. /\ vindex(o) \in Nat /\ voffset(o) \in 0 .. ClusterSize - 1
      /\ left(o) \in Int /\ o.pos + left(o) = o.to
      /\ vsize(o) \in Int /\ o.pos + vsize(o) \in Nat /\ vsize(o) <= left(o)
      /\ o.to \in Nat /\ o.index \in Nat /\ o.last \in Nat /\ o.pos \in Nat
      /\ o.prev \in Clusters \union {None}
  BY <1>0, CallSizes DEF Calls
<1>2. CASE StartRead(f)
  <2>1. PICK e \in Extents :
          LET size == hash[f].FileSize
              q    == Started(f, [NoCall EXCEPT
                        !.op = "read", !.from = e[1], !.pos = e[1],
                        !.to = IF e[1] + e[2] > size THEN size ELSE e[1] + e[2]])
          IN  /\ Goto(f, q)
              /\ hash' = IF q.chain \in Clusters THEN SetTurbo(f, q.chain, q.index) ELSE hash
              /\ orphaned' = Misled(f, BeginsPast(q))
    BY <1>2 DEF StartRead
  <2> DEFINE size == hash[f].FileSize
             r == [NoCall EXCEPT
                     !.op = "read", !.from = e[1], !.pos = e[1],
                     !.to = IF e[1] + e[2] > size THEN size ELSE e[1] + e[2]]
             q == Started(f, r)
  <2>2. /\ e[1] \in 0 .. MaxUnits /\ e[2] \in 1 .. MaxUnits /\ e[1] + e[2] <= MaxUnits
        /\ calls + 1 \in 0 .. MaxCalls
        /\ size \in 0 .. MaxUnits
    BY <1>0, <1>2, FileConstants DEF StartRead, TypeOK, HASH
  <2>3. e[1] + e[2] \in 0 .. MaxUnits /\ e[1] \in Nat
    BY <2>2, Constants
  <2>4. r \in Calls
    BY <2>2, <2>3, NoCallType DEF Calls
  <2> HIDE DEF r, size
  <2>5. q \in Calls
    BY <2>4, StartTypes
  <2>6. /\ call' = [call EXCEPT ![f] = q]
        /\ hash' = hash \/ hash' = SetTurbo(f, q.chain, q.index)
        /\ orphaned' = Misled(f, BeginsPast(q))
    BY <2>1 DEF Goto, r, size
  <2> HIDE DEF q
  <2>7. hash' \in [Files -> HASH]
    <3>1. q.chain \in Links \union {None} /\ q.index \in Nat
      BY <2>5 DEF Calls
    <3>2. SetTurbo(f, q.chain, q.index) \in [Files -> HASH]
      BY <3>1, HashTypes
    <3>3. QED
      BY <2>6, <3>2 DEF TypeOK
  <2>8. QED
    BY <1>2, <2>2, <2>5, <2>6, <2>7 DEF StartRead, TypeOK, Misled
<1>3. CASE ReadHole(f)
  <2>1. Zeros(o, vsize(o)) \in Calls
    BY <1>0, <1>1, GotType
  <2>2. QED
    BY <1>3, <2>1 DEF ReadHole, TypeOK, Goto
<1>4. CASE ReadCluster(f)
  <2> DEFINE q == IF left(o) > 0 /\ vindex(o) = o.index THEN Got(o, o.chain, vsize(o)) ELSE o
             p == EndIfDone(Bump(q))
  <2>1. o.chain \in Clusters
    BY <1>4 DEF ReadCluster, OnCluster
  <2>2. q \in Calls
    BY <1>0, <1>1, <2>1, GotType
  <2>3. q.chain = o.chain
    BY <1>0 DEF Got, Moved, Calls
  <2>4. p \in Calls
    BY <2>1, <2>2, <2>3, BumpType, CallTypes
  <2> HIDE DEF q
  <2>5. call' = [call EXCEPT ![f] = p] /\ hash' \in {hash, SetTurbo(f, p.chain, p.index)}
    BY <1>4 DEF ReadCluster, Goto, q
  <2> HIDE DEF p
  <2>6. p.chain \in Links \union {None} /\ p.index \in Nat
    BY <2>4 DEF Calls
  <2>7. SetTurbo(f, p.chain, p.index) \in [Files -> HASH]
    BY <2>6, HashTypes
  <2>8. QED
    BY <1>4, <2>4, <2>5, <2>7 DEF ReadCluster, TypeOK
<1>5. CASE ReadEOF(f)
  <2>1. Zeros(o, left(o)) \in Calls
    BY <1>0, <1>1, GotType
  <2>2. SetTurbo(f, o.prev, IF o.prev = None THEN 0 ELSE o.last) \in [Files -> HASH]
    BY <1>0, <1>1, HashTypes
  <2>3. QED
    BY <1>5, <2>1, <2>2, CallTypes DEF ReadEOF, TypeOK, Goto
<1>6. CASE ReadRecord(f)
  <2> DEFINE size == RecordSize[o.chain]
             got  == IF voffset(o) >= size THEN 0
                     ELSE IF left(o) > size - voffset(o) THEN size - voffset(o) ELSE left(o)
             p    == IF vindex(o) = o.index THEN Got(o, o.chain, got) ELSE o
  <2>1. o.chain \in Records
    BY <1>6 DEF ReadRecord, OnRecord
  <2>2. size \in Nat
    BY <2>1, Constants
  <2>3. got \in Int /\ o.pos + got \in Nat /\ (got <= left(o) \/ got = 0)
    BY <1>1, <2>2
  <2> HIDE DEF got, size
  <2>4. p \in Calls
    BY <1>0, <2>1, <2>3, GotType
  <2> HIDE DEF p
  <2>5. left(p) \in Int /\ p.pos + left(p) \in Nat
    BY <2>4, CallSizes, Constants DEF Calls
  <2>6. Finished(Zeros(p, left(p))) \in Calls
    <3>1. Zeros(p, left(p)) \in Calls
      BY <2>4, <2>5, GotType
    <3>2. QED
      BY <3>1, CallTypes
  <2>7. SetTurbo(f, o.chain, o.index) \in [Files -> HASH]
    BY <1>0, <1>1, <2>1, HashTypes
  <2>8. /\ call' = [call EXCEPT ![f] = Finished(Zeros(p, left(p)))]
        /\ hash' \in {hash, SetTurbo(f, o.chain, o.index)}
    BY <1>6 DEF ReadRecord, Goto, p, got, size
  <2>9. QED
    BY <1>6, <2>6, <2>7, <2>8 DEF ReadRecord, TypeOK
<1>7. CASE ReadReturn(f)
  BY <1>7, NoCallType DEF ReadReturn, TypeOK, Goto
<1>8. QED
  BY <1>2, <1>3, <1>4, <1>5, <1>6, <1>7 DEF NWReadFile

LEMMA TruncateTypes ==
  ASSUME TypeOK, NEW f \in Files, TruncateClusterChain(f)
  PROVE  TypeOK'
<1> DEFINE o == call[f]
<1>0. /\ o \in Calls /\ hash[f] \in HASH /\ FAT \in [Clusters -> FAT_ENTRY]
      /\ Clusters \subseteq Places /\ Records \subseteq Places /\ Clusters \subseteq Links
      /\ Records \subseteq Links /\ EOF \in Links
      /\ left(o) \in Int /\ o.head \in Links /\ o.to \in 0 .. MaxUnits
  BY CallSizes DEF TypeOK, Places, Links, Calls
<1>1. \A x \in Links : Headed(o, x) \in Calls /\ [Headed(o, x) EXCEPT !.step = "free"] \in Calls
  BY <1>0, CallTypes
<1>2. \A x \in Links : Relinked(FAT, o, x) \in [Clusters -> FAT_ENTRY]
  BY <1>0, FatTypes
<1>3. CASE Close(f)
  <2>1. PICK ragged \in BOOLEAN :
          (ragged => hash[f].FileSize > 0) /\ TruncateTo(f, hash[f].FileSize, ragged)
    BY <1>3 DEF Close
  <2>2. hash[f].FileSize \in 0 .. MaxUnits
    BY <1>0 DEF HASH
  <2>3. call' \in [Files -> Calls]
    BY <2>1, <2>2, CutTypes
  <2>4. hash' \in [Files -> HASH]
    <3>1. ResetTurbo([hash[f] EXCEPT !.Modified = FALSE]) \in HASH
      BY <1>0, ResetType
    <3>2. QED
      BY <1>3, <3>1 DEF Close, TypeOK
  <2>5. QED
    BY <1>3, <2>3, <2>4 DEF Close, TypeOK
<1>4. CASE Truncate(f)
  <2>1. PICK s \in Sizes : (s[2] => s[1] > 0) /\ TruncateTo(f, s[1], s[2])
    BY <1>4 DEF Truncate
  <2>2. s[1] \in 0 .. MaxUnits /\ s[2] \in BOOLEAN
    BY FileConstants
  <2>3. call' \in [Files -> Calls]
    BY <2>1, <2>2, CutTypes
  <2>4. hash' \in [Files -> HASH]
    BY <1>0, <1>4, ResetType DEF Truncate, TypeOK
  <2>5. calls' \in 0 .. MaxCalls
    BY <1>4, Constants DEF Truncate, TypeOK
  <2>6. QED
    BY <1>4, <2>3, <2>4, <2>5 DEF Truncate, TypeOK
<1>5. CASE TruncateCut(f)
  BY <1>0, <1>1, <1>2, <1>5 DEF TruncateCut, TypeOK, Goto
<1>6. CASE TruncateToRecord(f)
  <2>1. PICK r \in Records \ inUse :
          /\ inUse' = inUse \union {r}
          /\ data' = Copied(o.chain, r, left(o))
          /\ FAT' = Relinked(FAT, o, r)
          /\ Goto(f, [Headed(o, r) EXCEPT !.step = "free"])
    BY <1>6 DEF TruncateToRecord
  <2>2. data' \in [Places -> [Units -> Versions]]
    BY <1>0, <1>6, <2>1, CopyType DEF TruncateToRecord, OnCluster
  <2>3. FAT' \in [Clusters -> FAT_ENTRY] /\ call' \in [Files -> Calls] /\ inUse' \subseteq Records
    BY <1>0, <1>1, <1>2, <2>1 DEF TypeOK, Goto
  <2>4. QED
    BY <1>6, <2>2, <2>3 DEF TruncateToRecord, TypeOK, Places
<1>7. CASE TruncateAfter(f)
  <2> DEFINE next == FAT[o.chain].FATCluster
  <2>1. [FAT EXCEPT ![o.chain].FATCluster = EOF] \in [Clusters -> FAT_ENTRY]
    BY <1>0, <1>7, FatTypes DEF TruncateAfter, OnCluster
  <2>2. next \in Clusters => [o EXCEPT !.chain = next, !.step = "free"] \in Calls
    <3>1. next \in Clusters => [o EXCEPT !.chain = next] \in Calls
      BY <1>0, CallTypes
    <3>2. next \in Clusters => [[o EXCEPT !.chain = next] EXCEPT !.step = "free"] \in Calls
      BY <3>1, CallTypes
    <3>3. QED
      BY <3>2
  <2>3. call' \in [Files -> Calls]
    BY <1>0, <1>7, <2>2, CallTypes DEF TruncateAfter, TypeOK, Goto
  <2>4. QED
    BY <1>7, <2>1, <2>3 DEF TruncateAfter, TypeOK
<1>8. CASE TruncateSkip(f)
  <2> DEFINE p == Bump(o)
  <2>1. p \in Calls
    BY <1>0, <1>8, BumpType DEF TruncateSkip, OnCluster
  <2> HIDE DEF p
  <2>2. Finished(p) \in Calls
    BY <2>1, CallTypes
  <2>3. QED
    BY <1>8, <2>1, <2>2 DEF TruncateSkip, TypeOK, Goto, p
<1>9. CASE TruncateRecord(f)
  <2>1. \A x \in Links : Finished(Headed(o, x)) \in Calls
    BY <1>1, CallTypes
  <2>2. Finished(o) \in Calls
    BY <1>0, CallTypes
  <2>3. CASE \E r \in Records \ inUse :
               /\ inUse' = (inUse \union {r}) \ {o.chain}
               /\ data' = Copied(o.chain, r, left(o))
               /\ FAT' = Relinked(FAT, o, r)
               /\ Goto(f, Finished(Headed(o, r)))
    <3>1. PICK r \in Records \ inUse :
               /\ inUse' = (inUse \union {r}) \ {o.chain}
               /\ data' = Copied(o.chain, r, left(o))
               /\ FAT' = Relinked(FAT, o, r)
               /\ Goto(f, Finished(Headed(o, r)))
      BY <2>3
    <3>2. data' \in [Places -> [Units -> Versions]]
      BY <1>0, <1>9, <3>1, CopyType DEF TruncateRecord, OnRecord
    <3>3. FAT' \in [Clusters -> FAT_ENTRY] /\ call' \in [Files -> Calls] /\ inUse' \subseteq Records
      BY <1>0, <1>2, <2>1, <3>1 DEF TypeOK, Goto
    <3>4. QED
      BY <1>9, <3>2, <3>3 DEF TruncateRecord, TypeOK, Places
  <2>4. CASE /\ inUse' = inUse \ {o.chain}
             /\ FAT' = Relinked(FAT, o, EOF)
             /\ Goto(f, Finished(Headed(o, EOF)))
             /\ UNCHANGED data
    BY <1>0, <1>2, <1>9, <2>1, <2>4 DEF TruncateRecord, TypeOK, Goto
  <2>5. CASE Goto(f, Finished(o)) /\ UNCHANGED <<FAT, data, inUse>>
    BY <1>9, <2>2, <2>5 DEF TruncateRecord, TypeOK, Goto
  <2>6. QED
    BY <1>9, <2>3, <2>4, <2>5 DEF TruncateRecord
<1>10. CASE FreeChain(f)
  <2> DEFINE next == FAT[o.chain].FATCluster
  <2>1. FAT' \in [Clusters -> FAT_ENTRY]
    BY <1>0, <1>10 DEF FreeChain, FAT_ENTRY
  <2>2. call' \in [Files -> Calls]
    <3>1. next \in Clusters => [o EXCEPT !.chain = next] \in Calls
      BY <1>0, CallTypes
    <3>2. QED
      BY <1>0, <1>10, <3>1, CallTypes DEF FreeChain, TypeOK, Goto
  <2>3. QED
    BY <1>10, <2>1, <2>2 DEF FreeChain, TypeOK
<1>11. CASE TruncateReturn(f)
  <2>1. [hash[f] EXCEPT !.FirstBlock = o.head, !.FileSize = o.to] \in HASH
    BY <1>0 DEF HASH
  <2>2. hash' = [hash EXCEPT ![f] = [hash[f] EXCEPT !.FirstBlock = o.head, !.FileSize = o.to]]
    BY <1>11 DEF TruncateReturn, TypeOK
  <2>3. written' \in [Files -> [FileUnits -> Versions]]
    <3>1. 0 \in Versions /\ \A u \in FileUnits : written[f][u] \in Versions
      BY Constants DEF TypeOK, Versions
    <3>2. [u \in FileUnits |-> IF u < o.to THEN written[f][u] ELSE 0] \in [FileUnits -> Versions]
      BY <3>1
    <3>3. QED
      BY <1>11, <3>2 DEF TruncateReturn, TypeOK
  <2>4. QED
    BY <1>11, <2>1, <2>2, <2>3, NoCallType DEF TruncateReturn, TypeOK, Goto
<1>12. QED
  BY <1>3, <1>4, <1>5, <1>6, <1>7, <1>8, <1>9, <1>10, <1>11 DEF TruncateClusterChain

LEMMA TypeStep == TypeOK /\ [Next]_vars => TypeOK'
<1> SUFFICES ASSUME TypeOK, [Next]_vars PROVE TypeOK'
  OBVIOUS
<1>1. CASE Next
  BY <1>1, WriteTypes, ReadTypes, TruncateTypes DEF Next
<1>2. CASE UNCHANGED vars
  BY <1>2 DEF vars, TypeOK
<1>3. QED
  BY <1>1, <1>2

LEMMA TypeInit == Init => TypeOK
<1> SUFFICES ASSUME Init PROVE TypeOK
  OBVIOUS
<1>1. 0 \in Versions /\ 0 \in 0 .. MaxUnits /\ EOF \in Links
  BY Constants DEF Versions, Links
<1>2. QED
  BY <1>1, NoCallType, Constants DEF Init, TypeOK, FAT_ENTRY, HASH

\* The variables keep their types, for any files, clusters, records and calls; a
\* call that extends, converts or cuts a chain never takes a record for a cluster.
THEOREM TypeCorrect == Spec => []TypeOK
BY TypeInit, TypeStep, PTL DEF Spec

-----------------------------------------------------------------------------
(* Chains *)

\* A call moves, and the chains stay as they are.
LEMMA Stay ==
  ASSUME TypeOK, TypeOK', NEW own \in [Places -> Owners], Apart, Owned(own), NEW f \in Files,
         FAT' = FAT, inUse' = inUse,
         \A g \in Files \ {f} : call'[g] = call[g] /\ hash'[g] = hash[g],
         Head(f)' = Head(f),
         call[f].step # "free", call'[f].step # "free",
         CallOwn(own, f)',
         \/ hash'[f].TurboFATCluster = None
         \/ /\ call'[f].op # "truncate"
            /\ \/ hash'[f].TurboFATCluster = hash[f].TurboFATCluster
               \/ /\ TurboFat
                  /\ hash'[f].TurboFATCluster \in Live
                  /\ own[hash'[f].TurboFATCluster] = f
  PROVE  Apart' /\ Owned(own)'
<1>1. Free' = Free /\ Live' = Live /\ EOF \notin Live /\ None # EOF
  BY Constants DEF Free, Live, TypeOK, Places
<1>2. \A g \in Files : Head(g)' = Head(g)
  BY DEF Head
<1>3. \A g \in Files, x \in Places : Cut(g, x)' <=> Cut(g, x)
  BY DEF Cut
<1>4. LinksApart' /\ HeadsApart' /\ CutsApart'
  BY <1>1, <1>2 DEF Apart, LinksApart, HeadsApart, CutsApart
<1>5. NothingLost'
  BY <1>1, <1>2, <1>3 DEF Apart, NothingLost, Places, Free
<1>6. LinksOwn(own)' /\ HeadsOwn(own)'
  BY <1>1, <1>2 DEF Owned, LinksOwn, HeadsOwn
<1>7. TurboOwn(own)'
  BY <1>1 DEF Owned, TurboOwn
<1>8. CallsOwn(own)'
  <2>1. ASSUME NEW g \in Files \ {f} PROVE CallOwn(own, g)'
    BY <1>1 DEF Owned, CallsOwn, CallOwn, vindex
  <2>2. QED
    BY <2>1 DEF CallsOwn
<1>9. QED
  BY <1>4, <1>5, <1>6, <1>7, <1>8 DEF Apart, Owned

\* A new cluster comes into the chain where the call is, in front of what is
\* there or in place of the record there.
LEMMA Insert ==
  ASSUME TypeOK, TypeOK', NEW own \in [Places -> Owners], Apart, Owned(own), NEW f \in Files,
         NEW c \in Free, NEW x \in Links, NEW i \in Nat,
         call[f].step = "walk", call[f].op \in Writes,
         call[f].prev = None => call[f].chain = call[f].head,
         FAT' = Relinked([FAT EXCEPT ![c] = [FATIndex |-> i, FATCluster |-> x]], call[f], c),
         \/ x = call[f].chain /\ inUse' = inUse
         \/ /\ x = EOF /\ call[f].chain \in Records
            /\ inUse' = inUse \ {call[f].chain}
            /\ hash'[f].TurboFATCluster # call[f].chain,
         \A g \in Files \ {f} : call'[g] = call[g] /\ hash'[g] = hash[g],
         call'[f].head = Headed(call[f], c).head,
         call'[f].op = call[f].op, call'[f].step \in {"walk", "return"},
         call'[f].prev = c, call'[f].chain = x,
         \/ hash'[f].TurboFATCluster = hash[f].TurboFATCluster
         \/ TurboFat /\ hash'[f].TurboFATCluster = c
  PROVE  Apart' /\ Owned([own EXCEPT ![c] = f])'
<1> DEFINE o == call[f]
           own2 == [own EXCEPT ![c] = f]
<1>0. /\ o \in Calls /\ hash \in [Files -> HASH] /\ call \in [Files -> Calls]
      /\ FAT \in [Clusters -> FAT_ENTRY] /\ inUse \subseteq Records
      /\ EOF \notin Live /\ None \notin Live /\ None # EOF /\ EOF \notin Places
      /\ c \in Clusters /\ c \in Places /\ c \notin Live /\ c \notin Records /\ Clusters \subseteq Places
      /\ \A y \in Live : y \in Places
      /\ \A y \in Places : y # None /\ y # EOF
  BY Constants DEF TypeOK, Live, Places, Free
<1>1. /\ CallOwn(own, f)
      /\ o.chain # EOF => o.chain \in Live /\ own[o.chain] = f
      /\ o.prev # None => o.prev \in Clusters \ Free /\ FAT[o.prev].FATCluster = o.chain
                          /\ own[o.prev] = f
      /\ o.prev = None => Head(f) = o.chain
  BY DEF Owned, CallsOwn, CallOwn, Head, Writes
<1>2. /\ FAT'[c].FATCluster = x
      /\ o.prev # None => FAT'[o.prev].FATCluster = c
      /\ \A d \in Clusters : d # c /\ d # o.prev => FAT'[d].FATCluster = FAT[d].FATCluster
  BY <1>0, <1>1 DEF Relinked, FAT_ENTRY
<1>3. Free' = Free \ {c}
  <2>1. x # None /\ c # None
    BY <1>0 DEF Links, Places
  <2>2. ASSUME NEW d \in Clusters
        PROVE  FAT'[d].FATCluster = None <=> FAT[d].FATCluster = None /\ d # c
    <3>1. CASE d = c
      BY <1>2, <2>1, <3>1
    <3>2. CASE d # c /\ d = o.prev
      BY <1>0, <1>1, <1>2, <2>1, <3>2 DEF Free
    <3>3. CASE d # c /\ d # o.prev
      BY <1>2, <3>3
    <3>4. QED
      BY <3>1, <3>2, <3>3
  <2>3. QED
    BY <2>2 DEF Free
<1>4. /\ \A y \in Live \ {o.chain} : y \in Live'
      /\ x = o.chain => Live' = Live \union {c}
      /\ c \in Live'
  BY <1>0, <1>3 DEF Live
<1>5. /\ \A g \in Files \ {f} : Head(g)' = Head(g)
      /\ Head(f)' = IF o.prev = None THEN c ELSE Head(f)
  BY <1>0 DEF Head, Headed, Calls, Writes
<1>6. /\ \A d \in Clusters : FAT[d].FATCluster # c
      /\ \A g \in Files : Head(g) # c
      /\ \A g \in Files : hash[g].TurboFATCluster # c
  <2>1. \A d \in Free : FAT[d].FATCluster # c
    BY <1>0, Constants DEF Free, Places
  <2>2. \A d \in Clusters \ Free : FAT[d].FATCluster # c
    BY <1>0 DEF Owned, LinksOwn
  <2>3. \A g \in Files : Head(g) # c
    BY <1>0 DEF Owned, HeadsOwn
  <2>4. \A g \in Files : hash[g].TurboFATCluster # c
    BY <1>0 DEF Owned, TurboOwn
  <2>5. QED
    BY <2>1, <2>2, <2>3, <2>4
<1>7. ASSUME NEW d \in Clusters \ Free, d # o.prev, FAT[d].FATCluster # EOF
      PROVE  FAT[d].FATCluster # o.chain
  <2>1. CASE o.prev = None
    BY <1>1, <1>7, <2>1 DEF Apart, HeadsApart
  <2>2. CASE o.prev # None
    BY <1>1, <1>7, <2>2 DEF Apart, LinksApart
  <2>3. QED
    BY <2>1, <2>2
<1>8. \A y \in Live : y # c => own2[y] = own[y]
  BY <1>0
<1>9. own2[c] = f
  BY <1>0
<1> HIDE DEF own2
<1>10. \A g \in Files \ {f} : Head(g) # EOF => Head(g) # o.chain
  BY <1>1 DEF Owned, HeadsOwn
<1>11. o.prev # None /\ Head(f) # EOF => Head(f) # o.chain
  BY <1>1 DEF Apart, HeadsApart
<1>12. LinksOwn(own2)'
  <2>1. ASSUME NEW d \in Clusters \ Free', FAT'[d].FATCluster # EOF
        PROVE  FAT'[d].FATCluster \in Live' /\ own2[FAT'[d].FATCluster] = own2[d]
    <3>1. CASE d = c
      <4>1. FAT'[d].FATCluster = o.chain /\ o.chain # EOF /\ x = o.chain
        BY <1>2, <2>1, <3>1
      <4>2. o.chain \in Live /\ own2[o.chain] = f
        BY <1>0, <1>1, <1>8, <4>1
      <4>3. QED
        BY <1>4, <1>9, <3>1, <4>1, <4>2
    <3>2. CASE d = o.prev
      <4>1. d # c /\ d \in Live /\ o.prev # None
        BY <1>0, <1>1, <3>2, Constants DEF Live, Places
      <4>2. QED
        BY <1>1, <1>2, <1>4, <1>8, <1>9, <3>2, <4>1
    <3>3. CASE d # c /\ d # o.prev
      <4>1. d \in Clusters \ Free /\ d \in Live
        BY <1>3, <3>3 DEF Live
      <4>2. FAT'[d].FATCluster = FAT[d].FATCluster
        BY <1>2, <3>3
      <4>3. FAT[d].FATCluster \in Live \ {o.chain, c} /\ own[FAT[d].FATCluster] = own[d]
        BY <1>6, <1>7, <2>1, <3>3, <4>1, <4>2 DEF Owned, LinksOwn
      <4>4. QED
        BY <1>4, <1>8, <3>3, <4>1, <4>2, <4>3
    <3>4. QED
      BY <3>1, <3>2, <3>3
  <2>2. QED
    BY <2>1 DEF LinksOwn
<1>13. HeadsOwn(own2)'
  <2>1. ASSUME NEW g \in Files, Head(g)' # EOF
        PROVE  Head(g)' \in Live' /\ own2[Head(g)'] = g
    <3>1. CASE g = f /\ o.prev = None
      BY <1>4, <1>5, <1>9, <3>1
    <3>2. CASE g # f \/ o.prev # None
      <4>1. Head(g)' = Head(g)
        BY <1>5, <3>2
      <4>2. Head(g) \in Live \ {o.chain, c} /\ own[Head(g)] = g
        BY <1>6, <1>10, <1>11, <2>1, <3>2, <4>1 DEF Owned, HeadsOwn
      <4>3. QED
        BY <1>4, <1>8, <4>1, <4>2
    <3>3. QED
      BY <3>1, <3>2
  <2>2. QED
    BY <2>1 DEF HeadsOwn
<1>14. TurboOwn(own2)'
  <2>1. ASSUME NEW g \in Files
        PROVE  /\ hash'[g].TurboFATCluster # None =>
                    hash'[g].TurboFATCluster \in Live' /\ own2[hash'[g].TurboFATCluster] = g
               /\ hash'[g].TurboFATCluster # EOF
               /\ hash'[g].TurboFATCluster # None => TurboFat
               /\ call'[g].op = "truncate" => hash'[g].TurboFATCluster = None
    <3>1. CASE g = f
      <4>1. CASE TurboFat /\ hash'[f].TurboFATCluster = c
        BY <1>0, <1>4, <1>9, <3>1, <4>1 DEF Writes
      <4>2. CASE hash'[f].TurboFATCluster = hash[f].TurboFATCluster
        BY <1>4, <1>6, <1>8, <3>1, <4>2 DEF Owned, TurboOwn, Writes
      <4>3. QED
        BY <4>1, <4>2
    <3>2. CASE g # f
      <4>1. hash'[g] = hash[g] /\ call'[g] = call[g]
        BY <3>2
      <4>2. hash[g].TurboFATCluster # None =>
              hash[g].TurboFATCluster \in Live \ {o.chain, c} /\ own[hash[g].TurboFATCluster] = g
        BY <1>1, <1>6, <3>2 DEF Owned, TurboOwn
      <4>3. QED
        BY <1>4, <1>8, <4>1, <4>2 DEF Owned, TurboOwn
    <3>3. QED
      BY <3>1, <3>2
  <2>2. QED
    BY <2>1 DEF TurboOwn
<1>15. CallsOwn(own2)'
  <2>1. CallOwn(own2, f)'
    BY <1>0, <1>1, <1>2, <1>3, <1>4, <1>8, <1>9, Constants DEF CallOwn, Writes, Places
  <2>2. ASSUME NEW g \in Files \ {f} PROVE CallOwn(own2, g)'
    <3> DEFINE p == call[g]
    <3>1. call'[g] = p /\ hash'[g] = hash[g] /\ CallOwn(own, g)
      BY DEF Owned, CallsOwn
    <3>2. \A y \in Live : own[y] = g => y \in Live' /\ own2[y] = g /\ y # o.chain /\ y # c
      BY <1>0, <1>1, <1>4, <1>8
    <3>3. \A y \in Clusters \ Free : y \in Live /\ y \in Clusters \ Free'
      BY <1>3 DEF Live
    <3>4. \A y \in Clusters \ Free : own[y] = g => FAT'[y].FATCluster = FAT[y].FATCluster
      <4>1. ASSUME NEW y \in Clusters \ Free, own[y] = g
            PROVE  y # c /\ y # o.prev
        BY <1>0, <1>1, <4>1
      <4>2. QED
        BY <1>2, <4>1
    <3>5. /\ p.step = "walk" /\ p.chain # EOF => p.chain \in Live /\ own[p.chain] = g
          /\ p.step = "walk" /\ p.prev # None =>
               /\ p.prev \in Clusters \ Free /\ own[p.prev] = g
               /\ FAT[p.prev].FATCluster = p.chain
          /\ p.step = "free" => p.chain \in Clusters \ Free /\ own[p.chain] = g
      BY <3>1 DEF CallOwn
    <3>6. /\ p.step = "walk" /\ p.chain # EOF => p.chain \in Live' /\ own2[p.chain] = g
          /\ p.step = "walk" /\ p.prev # None =>
               /\ p.prev \in Clusters \ Free' /\ own2[p.prev] = g
               /\ FAT'[p.prev].FATCluster = p.chain
          /\ p.step = "free" => p.chain \in Clusters \ Free' /\ own2[p.chain] = g
      BY <3>2, <3>3, <3>4, <3>5
    <3> HIDE DEF p, own2
    <3>7. QED
      BY <3>1, <3>6 DEF CallOwn, vindex
  <2>3. QED
    BY <2>1, <2>2 DEF CallsOwn
<1>16. LinksApart'
  <2>1. ASSUME NEW d \in Clusters \ Free', NEW e \in Clusters \ Free',
               FAT'[d].FATCluster = FAT'[e].FATCluster, FAT'[d].FATCluster # EOF, d # e
        PROVE  FALSE
    <3>1. ASSUME NEW a \in Clusters \ Free', a # o.prev, FAT'[a].FATCluster # EOF
          PROVE  FAT'[a].FATCluster # c /\ (a # c => FAT'[a].FATCluster # o.chain)
      <4>1. CASE a = c
        BY <1>0, <1>1, <1>2, <3>1, <4>1
      <4>2. CASE a # c
        <5>1. FAT'[a].FATCluster = FAT[a].FATCluster /\ a \in Clusters \ Free
          BY <1>2, <1>3, <3>1, <4>2
        <5>2. QED
          BY <1>6, <1>7, <3>1, <5>1
      <4>3. QED
        BY <4>1, <4>2
    <3>2. CASE d = o.prev \/ e = o.prev
      <4>1. o.prev # None /\ FAT'[o.prev].FATCluster = c
        BY <1>0, <1>2, <2>1, <3>2
      <4>2. FAT'[d].FATCluster = c /\ FAT'[e].FATCluster = c
        BY <2>1, <3>2, <4>1
      <4>3. CASE d = o.prev
        BY <2>1, <3>1, <4>2, <4>3
      <4>4. CASE e = o.prev
        BY <2>1, <3>1, <4>2, <4>4
      <4>5. QED
        BY <3>2, <4>3, <4>4
    <3>3. CASE d # o.prev /\ e # o.prev /\ (d = c \/ e = c)
      <4>1. FAT'[c].FATCluster = o.chain
        BY <1>2, <2>1, <3>3
      <4>2. FAT'[d].FATCluster = o.chain /\ FAT'[e].FATCluster = o.chain
        BY <2>1, <3>3, <4>1
      <4>3. CASE d = c
        BY <2>1, <3>1, <3>3, <4>2, <4>3
      <4>4. CASE e = c
        BY <2>1, <3>1, <3>3, <4>2, <4>4
      <4>5. QED
        BY <3>3, <4>3, <4>4
    <3>4. CASE d \notin {c, o.prev} /\ e \notin {c, o.prev}
      <4>1. FAT[d].FATCluster = FAT[e].FATCluster /\ FAT[d].FATCluster # EOF
        BY <1>2, <2>1, <3>4
      <4>2. d \in Clusters \ Free /\ e \in Clusters \ Free
        BY <1>3, <3>4
      <4>3. QED
        BY <2>1, <4>1, <4>2 DEF Apart, LinksApart
    <3>5. QED
      BY <3>2, <3>3, <3>4
  <2>2. QED
    BY <2>1 DEF LinksApart
<1>17. HeadsApart'
  <2>1. ASSUME NEW d \in Clusters \ Free', NEW g \in Files,
               FAT'[d].FATCluster = Head(g)', Head(g)' # EOF
        PROVE  FALSE
    <3>1. CASE g = f /\ o.prev = None
      <4>1. FAT'[d].FATCluster = c /\ d # o.prev
        BY <1>5, <2>1, <3>1, Constants DEF Places
      <4>2. QED
        BY <1>0, <1>1, <1>2, <1>3, <1>6, <4>1
    <3>2. CASE g # f \/ o.prev # None
      <4>1. Head(g)' = Head(g) /\ Head(g) # o.chain /\ Head(g) # c
        BY <1>5, <1>6, <1>10, <1>11, <2>1, <3>2
      <4>2. d # c
        BY <1>2, <2>1, <4>1
      <4>3. d # o.prev
        BY <1>1, <1>2, <2>1, <4>1, Constants DEF Places
      <4>4. FAT[d].FATCluster = Head(g) /\ d \in Clusters \ Free
        BY <1>2, <1>3, <2>1, <4>1, <4>2, <4>3
      <4>5. QED
        BY <2>1, <4>1, <4>4 DEF Apart, HeadsApart
    <3>3. QED
      BY <3>1, <3>2
  <2>2. QED
    BY <2>1 DEF HeadsApart
<1>18. CutsApart'
  <2>1. ASSUME NEW g \in Files, call'[g].step = "free"
        PROVE  /\ \A d \in Clusters : FAT'[d].FATCluster # call'[g].chain
               /\ Head(g)' # call'[g].chain
    <3>1. g # f /\ call'[g] = call[g]
      BY <2>1
    <3> DEFINE y == call[g].chain
    <3>2. y \in Clusters \ Free /\ own[y] = g /\ y \in Live
      BY <2>1, <3>1 DEF Owned, CallsOwn, CallOwn, Live
    <3>3. y # c /\ y # o.chain /\ y # EOF
      BY <1>0, <1>1, <3>1, <3>2
    <3>4. /\ \A d \in Clusters : FAT[d].FATCluster # y
          /\ Head(g) # y
      BY <2>1, <3>1 DEF Apart, CutsApart
    <3>5. ASSUME NEW d \in Clusters PROVE FAT'[d].FATCluster # y
      <4>1. CASE d = c
        BY <1>2, <3>3, <4>1
      <4>2. CASE d # c /\ d = o.prev
        BY <1>0, <1>2, <3>3, <4>2
      <4>3. CASE d # c /\ d # o.prev
        BY <1>2, <3>4, <4>3
      <4>4. QED
        BY <4>1, <4>2, <4>3
    <3>6. QED
      BY <1>5, <3>1, <3>4, <3>5
  <2>2. QED
    BY <2>1 DEF CutsApart
<1>19. NothingLost'
  <2>1. ASSUME NEW y \in Clusters \ Free'
        PROVE  \/ \E d \in Clusters \ Free' : FAT'[d].FATCluster = y
               \/ \E g \in Files : Head(g)' = y
               \/ \E g \in Files : Cut(g, y)'
    <3>1. CASE y = c
      <4>1. CASE o.prev = None
        BY <1>5, <3>1, <4>1
      <4>2. CASE o.prev # None
        BY <1>1, <1>2, <1>3, <3>1, <4>2
      <4>3. QED
        BY <4>1, <4>2
    <3>2. CASE y # c /\ y = o.chain
      <4>1. y \in Clusters /\ FAT'[c].FATCluster = y
        BY <1>2, <3>2, Constants
      <4>2. QED
        BY <1>0, <1>3, <4>1
    <3>3. CASE y # c /\ y # o.chain
      <4>1. y \in Clusters \ Free
        BY <1>3, <3>3
      <4>2. CASE \E d \in Clusters \ Free : FAT[d].FATCluster = y
        <5>1. PICK d \in Clusters \ Free : FAT[d].FATCluster = y
          BY <4>2
        <5>2. d # o.prev /\ d # c
          BY <1>1, <3>3, <5>1, Constants DEF Places
        <5>3. QED
          BY <1>2, <1>3, <5>1, <5>2
      <4>3. CASE \E g \in Files : Head(g) = y
        BY <1>1, <1>5, <3>3, <4>3
      <4>4. CASE \E g \in Files : Cut(g, y)
        BY <4>4 DEF Cut
      <4>5. QED
        BY <4>1, <4>2, <4>3, <4>4 DEF Apart, NothingLost
    <3>4. QED
      BY <3>1, <3>2, <3>3
  <2>2. QED
    BY <2>1 DEF NothingLost
<1>20. QED
  BY <1>12, <1>13, <1>14, <1>15, <1>16, <1>17, <1>18, <1>19 DEF Apart, Owned, own2

\* The chain is cut in front of the cluster or record where a truncate is, and
\* ends there, or in a record that nobody had.
LEMMA Detach ==
  ASSUME TypeOK, TypeOK', NEW own \in [Places -> Owners], Apart, Owned(own), NEW f \in Files,
         NEW y \in {EOF} \union (Records \ inUse),
         call[f].step = "walk", call[f].op = "truncate", call[f].chain \in Places,
         FAT' = Relinked(FAT, call[f], y), hash' = hash,
         inUse' = (inUse \union (IF y = EOF THEN {} ELSE {y})) \ {call[f].chain},
         \A g \in Files \ {f} : call'[g] = call[g],
         call'[f].head = Headed(call[f], y).head, call'[f].op = "truncate",
         \/ call[f].chain \in Clusters /\ call'[f].step = "free" /\ call'[f].chain = call[f].chain
         \/ call[f].chain \in Records /\ call'[f].step = "return"
  PROVE  Apart' /\ Owned([own EXCEPT ![y] = f])'
<1> DEFINE o == call[f]
           own2 == [own EXCEPT ![y] = f]
<1>0. /\ o \in Calls /\ hash \in [Files -> HASH] /\ call \in [Files -> Calls]
      /\ FAT \in [Clusters -> FAT_ENTRY] /\ inUse \subseteq Records
      /\ EOF \notin Places /\ None \notin Places /\ None # EOF
      /\ Clusters \subseteq Places /\ Records \subseteq Places /\ Clusters \intersect Records = {}
      /\ \A z \in Live : z \in Places
      /\ \A z \in Places : z # None /\ z # EOF
      /\ y \notin Live /\ y \notin Clusters /\ y # None
  BY Constants DEF TypeOK, Live, Places, Free
<1>1. /\ o.chain \in Live /\ own[o.chain] = f /\ o.chain # EOF /\ o.chain # y
      /\ o.prev # None => o.prev \in Clusters \ Free /\ FAT[o.prev].FATCluster = o.chain
                          /\ own[o.prev] = f
      /\ o.prev = None => Head(f) = o.chain
  BY <1>0 DEF Owned, CallsOwn, CallOwn, Head
<1>2. /\ o.prev # None => FAT'[o.prev].FATCluster = y
      /\ \A d \in Clusters : d # o.prev => FAT'[d].FATCluster = FAT[d].FATCluster
  BY <1>0, <1>1 DEF Relinked, FAT_ENTRY
<1>3. Free' = Free
  <2>1. ASSUME NEW d \in Clusters
        PROVE  FAT'[d].FATCluster = None <=> FAT[d].FATCluster = None
    BY <1>0, <1>1, <1>2 DEF Free
  <2>2. QED
    BY <2>1 DEF Free
<1>4. /\ \A z \in Live \ {o.chain} : z \in Live'
      /\ y # EOF => y \in Live'
  BY <1>0, <1>1, <1>3 DEF Live
<1>5. /\ \A g \in Files \ {f} : Head(g)' = Head(g)
      /\ Head(f)' = IF o.prev = None THEN y ELSE Head(f)
  BY <1>0 DEF Head, Headed, Calls
<1>6. /\ \A z \in Live : own2[z] = own[z] /\ z # y
      /\ y # EOF => own2[y] = f
  BY <1>0
<1> HIDE DEF own2
<1>7. ASSUME NEW d \in Clusters \ Free, d # o.prev, FAT[d].FATCluster # EOF
      PROVE  FAT[d].FATCluster \in Live \ {o.chain} /\ own[FAT[d].FATCluster] = own[d]
  <2>1. FAT[d].FATCluster # o.chain
    <3>1. CASE o.prev = None
      BY <1>1, <1>7, <3>1 DEF Apart, HeadsApart
    <3>2. CASE o.prev # None
      BY <1>1, <1>7, <3>2 DEF Apart, LinksApart
    <3>3. QED
      BY <3>1, <3>2
  <2>2. QED
    BY <1>7, <2>1 DEF Owned, LinksOwn
<1>8. ASSUME NEW g \in Files, g # f \/ o.prev # None, Head(g) # EOF
      PROVE  Head(g) \in Live \ {o.chain} /\ own[Head(g)] = g
  <2>1. Head(g) \in Live /\ own[Head(g)] = g
    BY <1>8 DEF Owned, HeadsOwn
  <2>2. CASE g # f
    BY <1>1, <2>1, <2>2
  <2>3. CASE o.prev # None
    BY <1>1, <1>8, <2>1, <2>3 DEF Apart, HeadsApart
  <2>4. QED
    BY <1>8, <2>2, <2>3
<1>9. LinksOwn(own2)'
  <2>1. ASSUME NEW d \in Clusters \ Free', FAT'[d].FATCluster # EOF
        PROVE  FAT'[d].FATCluster \in Live' /\ own2[FAT'[d].FATCluster] = own2[d]
    <3>1. d \in Clusters \ Free /\ d \in Live
      BY <1>3 DEF Live
    <3>2. CASE d = o.prev
      BY <1>0, <1>1, <1>2, <1>4, <1>6, <2>1, <3>1, <3>2
    <3>3. CASE d # o.prev
      BY <1>2, <1>4, <1>6, <1>7, <2>1, <3>1, <3>3
    <3>4. QED
      BY <3>2, <3>3
  <2>2. QED
    BY <2>1 DEF LinksOwn
<1>10. HeadsOwn(own2)'
  <2>1. ASSUME NEW g \in Files, Head(g)' # EOF
        PROVE  Head(g)' \in Live' /\ own2[Head(g)'] = g
    <3>1. CASE g = f /\ o.prev = None
      BY <1>4, <1>5, <1>6, <2>1, <3>1
    <3>2. CASE g # f \/ o.prev # None
      <4>1. Head(g)' = Head(g)
        BY <1>5, <3>2
      <4>2. QED
        BY <1>4, <1>6, <1>8, <2>1, <3>2, <4>1
    <3>3. QED
      BY <3>1, <3>2
  <2>2. QED
    BY <2>1 DEF HeadsOwn
<1>11. TurboOwn(own2)'
  <2>1. ASSUME NEW g \in Files
        PROVE  /\ hash'[g].TurboFATCluster # None =>
                    hash'[g].TurboFATCluster \in Live' /\ own2[hash'[g].TurboFATCluster] = g
               /\ hash'[g].TurboFATCluster # EOF
               /\ hash'[g].TurboFATCluster # None => TurboFat
               /\ call'[g].op = "truncate" => hash'[g].TurboFATCluster = None
    <3>1. CASE g = f
      BY <1>0, <3>1 DEF Owned, TurboOwn
    <3>2. CASE g # f
      BY <1>1, <1>4, <1>6, <3>2 DEF Owned, TurboOwn
    <3>3. QED
      BY <3>1, <3>2
  <2>2. QED
    BY <2>1 DEF TurboOwn
<1>12. CallsOwn(own2)'
  <2>1. CallOwn(own2, f)'
    BY <1>0, <1>1, <1>3, <1>6 DEF CallOwn, Live
  <2>2. ASSUME NEW g \in Files \ {f} PROVE CallOwn(own2, g)'
    <3>1. call'[g] = call[g] /\ hash'[g] = hash[g] /\ CallOwn(own, g)
      BY DEF Owned, CallsOwn
    <3>2. \A z \in Live : own[z] = g => z \in Live' /\ own2[z] = g
      BY <1>1, <1>4, <1>6
    <3>3. \A z \in Clusters \ Free : z \in Live /\ z \in Clusters \ Free'
      BY <1>3 DEF Live
    <3>4. \A z \in Clusters \ Free : own[z] = g => FAT'[z].FATCluster = FAT[z].FATCluster
      BY <1>0, <1>1, <1>2
    <3>5. QED
      BY <3>1, <3>2, <3>3, <3>4 DEF CallOwn, vindex
  <2>3. QED
    BY <2>1, <2>2 DEF CallsOwn
<1>13. ASSUME NEW d \in Clusters \ Free, d # o.prev, FAT'[d].FATCluster # EOF
       PROVE  FAT'[d].FATCluster = FAT[d].FATCluster /\ FAT'[d].FATCluster # y
  BY <1>2, <1>6, <1>7, <1>13
<1>14. LinksApart'
  <2>1. ASSUME NEW d \in Clusters \ Free', NEW e \in Clusters \ Free',
               FAT'[d].FATCluster = FAT'[e].FATCluster, FAT'[d].FATCluster # EOF, d # e
        PROVE  FALSE
    <3>0. d \in Clusters \ Free /\ e \in Clusters \ Free
      BY <1>3
    <3>1. CASE d = o.prev
      BY <1>0, <1>2, <1>13, <2>1, <3>0, <3>1
    <3>2. CASE e = o.prev
      BY <1>0, <1>2, <1>13, <2>1, <3>0, <3>2
    <3>3. CASE d # o.prev /\ e # o.prev
      BY <1>2, <2>1, <3>0, <3>3 DEF Apart, LinksApart
    <3>4. QED
      BY <3>1, <3>2, <3>3
  <2>2. QED
    BY <2>1 DEF LinksApart
<1>15. HeadsApart'
  <2>1. ASSUME NEW d \in Clusters \ Free', NEW g \in Files,
               FAT'[d].FATCluster = Head(g)', Head(g)' # EOF
        PROVE  FALSE
    <3>0. d \in Clusters \ Free
      BY <1>3
    <3>1. CASE g = f /\ o.prev = None
      BY <1>0, <1>5, <1>13, <2>1, <3>0, <3>1
    <3>2. CASE g # f \/ o.prev # None
      <4>1. Head(g)' = Head(g) /\ Head(g) \in Live
        BY <1>5, <1>8, <2>1, <3>2
      <4>2. d # o.prev
        BY <1>0, <1>2, <1>6, <2>1, <4>1
      <4>3. FAT[d].FATCluster = Head(g)
        BY <1>13, <2>1, <3>0, <4>1, <4>2
      <4>4. QED
        BY <2>1, <3>0, <4>1, <4>3 DEF Apart, HeadsApart
    <3>3. QED
      BY <3>1, <3>2
  <2>2. QED
    BY <2>1 DEF HeadsApart
<1>16. CutsApart'
  <2>1. ASSUME NEW g \in Files, call'[g].step = "free"
        PROVE  /\ \A d \in Clusters : FAT'[d].FATCluster # call'[g].chain
               /\ Head(g)' # call'[g].chain
    <3>1. CASE g = f
      <4>1. call'[g].chain = o.chain /\ o.chain \in Clusters
        BY <1>0, <2>1, <3>1
      <4>2. ASSUME NEW d \in Clusters PROVE FAT'[d].FATCluster # o.chain
        <5>1. CASE d \in Free
          BY <1>0, <1>3, <4>1, <5>1 DEF Free
        <5>2. CASE d = o.prev
          BY <1>0, <1>1, <1>2, <5>2
        <5>3. CASE d \notin Free /\ d # o.prev
          BY <1>1, <1>2, <1>7, <5>3
        <5>4. QED
          BY <5>1, <5>2, <5>3
      <4>3. Head(f)' # o.chain
        BY <1>1, <1>5, <1>8
      <4>4. QED
        BY <3>1, <4>1, <4>2, <4>3
    <3>2. CASE g # f
      <4>1. call'[g] = call[g]
        BY <3>2
      <4>2. call[g].chain \in Live
        BY <2>1, <4>1 DEF Owned, CallsOwn, CallOwn, Live
      <4>3. /\ \A d \in Clusters : FAT[d].FATCluster # call[g].chain
            /\ Head(g) # call[g].chain
        BY <2>1, <4>1 DEF Apart, CutsApart
      <4>4. ASSUME NEW d \in Clusters PROVE FAT'[d].FATCluster # call[g].chain
        <5>1. CASE d = o.prev
          BY <1>0, <1>2, <1>6, <4>2, <5>1
        <5>2. CASE d # o.prev
          BY <1>2, <4>3, <5>2
        <5>3. QED
          BY <5>1, <5>2
      <4>5. QED
        BY <1>5, <3>2, <4>1, <4>3, <4>4
    <3>3. QED
      BY <3>1, <3>2
  <2>2. QED
    BY <2>1 DEF CutsApart
<1>17. NothingLost'
  <2>1. ASSUME NEW z \in Clusters \ Free'
        PROVE  \/ \E d \in Clusters \ Free' : FAT'[d].FATCluster = z
               \/ \E g \in Files : Head(g)' = z
               \/ \E g \in Files : Cut(g, z)'
    <3>1. CASE z = o.chain
      BY <1>0, <3>1 DEF Cut
    <3>2. CASE z # o.chain
      <4>1. z \in Clusters \ Free
        BY <1>3
      <4>2. CASE \E d \in Clusters \ Free : FAT[d].FATCluster = z
        <5>1. PICK d \in Clusters \ Free : FAT[d].FATCluster = z
          BY <4>2
        <5>2. d # o.prev
          BY <1>0, <1>1, <3>2, <5>1
        <5>3. QED
          BY <1>2, <1>3, <5>1, <5>2
      <4>3. CASE \E g \in Files : Head(g) = z
        BY <1>1, <1>5, <3>2, <4>3
      <4>4. CASE \E g \in Files : Cut(g, z)
        <5>1. PICK g \in Files : Cut(g, z)
          BY <4>4
        <5>2. g # f
          BY <5>1 DEF Cut
        <5>3. QED
          BY <5>1, <5>2 DEF Cut
      <4>5. QED
        BY <4>1, <4>2, <4>3, <4>4 DEF Apart, NothingLost
    <3>3. QED
      BY <3>1, <3>2
  <2>2. QED
    BY <2>1 DEF NothingLost
<1>18. QED
  BY <1>9, <1>10, <1>11, <1>12, <1>14, <1>15, <1>16, <1>17 DEF Apart, Owned, own2

\* The chain is cut behind the cluster where a truncate is: what follows is
\* freed, or, when it is a record, forgotten.
LEMMA DetachAfter ==
  ASSUME TypeOK, TypeOK', NEW own \in [Places -> Owners], Apart, Owned(own), NEW f \in Files,
         NEW c \in Clusters \ Free, own[c] = f,
         call[f].op = "truncate", call'[f].op = "truncate",
         call'[f].head = call[f].head,
         \/ call[f].step = "walk" /\ c = call[f].chain
            /\ FAT' = [FAT EXCEPT ![c].FATCluster = EOF]
            /\ inUse' = inUse
         \/ call[f].step = "free" /\ c = call[f].chain
            /\ FAT' = [FAT EXCEPT ![c] = [FATIndex |-> 0, FATCluster |-> None]]
            /\ inUse' = inUse \ {FAT[c].FATCluster},
         \/ FAT[c].FATCluster \in Clusters /\ call'[f].step = "free"
            /\ call'[f].chain = FAT[c].FATCluster
         \/ FAT[c].FATCluster \notin Clusters /\ call'[f].step = "return",
         \A g \in Files \ {f} : call'[g] = call[g],
         hash' = hash
  PROVE  Apart' /\ Owned(own)'
<1> DEFINE next == FAT[c].FATCluster
<1>0. /\ hash \in [Files -> HASH] /\ call \in [Files -> Calls]
      /\ FAT \in [Clusters -> FAT_ENTRY] /\ inUse \subseteq Records
      /\ EOF \notin Places /\ None \notin Places /\ None # EOF
      /\ Clusters \subseteq Places /\ Records \subseteq Places /\ Clusters \intersect Records = {}
      /\ \A z \in Live : z \in Places
      /\ \A z \in Places : z # None /\ z # EOF
      /\ c \in Live /\ next # None
  BY Constants DEF TypeOK, Live, Places, Free
<1>1. /\ next # EOF => next \in Live /\ own[next] = f
      /\ next \in Clusters => next \in Clusters \ Free
  BY <1>0 DEF Owned, LinksOwn, Live
<1>2. /\ FAT'[c].FATCluster \in {EOF, None}
      /\ call[f].step = "walk" => FAT'[c].FATCluster = EOF
      /\ call[f].step = "free" => FAT'[c].FATCluster = None
      /\ \A d \in Clusters : d # c => FAT'[d].FATCluster = FAT[d].FATCluster
  BY <1>0 DEF FAT_ENTRY
<1>3. Free' = IF call[f].step = "free" THEN Free \union {c} ELSE Free
  <2>1. ASSUME NEW d \in Clusters
        PROVE  FAT'[d].FATCluster = None <=>
                 FAT[d].FATCluster = None \/ (d = c /\ call[f].step = "free")
    BY <1>0, <1>2
  <2>2. QED
    BY <1>0, <2>1 DEF Free
<1>4. \A z \in Live : z \in Live' \/ z \in {c, next}
  BY <1>0, <1>3 DEF Live
<1>5. \A g \in Files : Head(g)' = Head(g)
  BY DEF Head
<1>6. call[f].step = "free" =>
        /\ \A d \in Clusters : FAT[d].FATCluster # c
        /\ \A g \in Files : Head(g) # c
  <2>1. ASSUME call[f].step = "free", NEW g \in Files, Head(g) = c
        PROVE  g = f
    BY <1>0, <2>1 DEF Owned, HeadsOwn
  <2>2. QED
    BY <2>1 DEF Apart, CutsApart
<1>7. ASSUME NEW d \in Clusters \ Free, d # c, FAT[d].FATCluster # EOF
      PROVE  FAT[d].FATCluster \in Live /\ own[FAT[d].FATCluster] = own[d]
             /\ FAT[d].FATCluster # next
  BY <1>7 DEF Owned, LinksOwn, Apart, LinksApart
<1>8. ASSUME NEW g \in Files, Head(g) # EOF
      PROVE  Head(g) \in Live /\ own[Head(g)] = g /\ Head(g) # next
  BY <1>0, <1>8 DEF Owned, HeadsOwn, Apart, HeadsApart
<1>9. \A d \in Clusters \ Free' : d \in Clusters \ Free /\ (d = c => call[f].step = "walk")
  BY <1>0, <1>3
<1>10. LinksOwn(own)'
  <2>1. ASSUME NEW d \in Clusters \ Free', FAT'[d].FATCluster # EOF
        PROVE  FAT'[d].FATCluster \in Live' /\ own[FAT'[d].FATCluster] = own[d]
    <3>1. d # c /\ d \in Clusters \ Free
      BY <1>2, <1>9, <2>1
    <3>2. FAT'[d].FATCluster \in Live /\ own[FAT'[d].FATCluster] = own[d] /\ FAT'[d].FATCluster # next
      BY <1>2, <1>7, <2>1, <3>1
    <3>3. call[f].step = "free" => FAT'[d].FATCluster # c
      BY <1>2, <1>6, <3>1
    <3>4. call[f].step # "free" => Live' = Live
      BY <1>3 DEF Live
    <3>5. QED
      BY <1>4, <3>2, <3>3, <3>4
  <2>2. QED
    BY <2>1 DEF LinksOwn
<1>11. HeadsOwn(own)'
  <2>1. ASSUME NEW g \in Files, Head(g)' # EOF
        PROVE  Head(g)' \in Live' /\ own[Head(g)'] = g
    <3>1. Head(g) \in Live /\ own[Head(g)] = g /\ Head(g) # next /\ Head(g)' = Head(g)
      BY <1>5, <1>8, <2>1
    <3>2. call[f].step = "free" => Head(g) # c
      BY <1>6
    <3>3. call[f].step # "free" => Live' = Live
      BY <1>3 DEF Live
    <3>4. QED
      BY <1>4, <3>1, <3>2, <3>3
  <2>2. QED
    BY <2>1 DEF HeadsOwn
<1>12. \A z \in Live : own[z] # f => z \in Live'
  <2>1. next \in Live => own[next] = f
    BY <1>0, <1>1
  <2>2. QED
    BY <1>4, <2>1
<1>13. TurboOwn(own)'
  BY <1>12 DEF Owned, TurboOwn
<1>14. CallsOwn(own)'
  <2>1. CallOwn(own, f)'
    <3>1. next \in Clusters => next \in Clusters \ Free'
      <4>1. ASSUME next = c, call[f].step = "free" PROVE FALSE
        BY <1>6, <4>1
      <4>2. QED
        BY <1>1, <1>3, <4>1
    <3>2. CASE call'[f].step = "free"
      <4>1. call'[f].chain = next /\ next \in Clusters \ Free' /\ own[next] = f
        BY <1>0, <1>1, <3>1, <3>2
      <4>2. QED
        BY <3>2, <4>1 DEF CallOwn
    <3>3. CASE call'[f].step = "return"
      BY <3>3 DEF CallOwn
    <3>4. QED
      BY <3>2, <3>3
  <2>2. ASSUME NEW g \in Files \ {f} PROVE CallOwn(own, g)'
    <3>1. call'[g] = call[g] /\ hash'[g] = hash[g] /\ CallOwn(own, g)
      BY DEF Owned, CallsOwn
    <3>2. \A z \in Live : own[z] = g => z \in Live'
      BY <1>12
    <3>3. \A z \in Clusters \ Free : own[z] = g => z \in Live /\ z \in Clusters \ Free'
                                                   /\ FAT'[z].FATCluster = FAT[z].FATCluster
      BY <1>2, <1>3 DEF Live
    <3>4. QED
      BY <3>1, <3>2, <3>3 DEF CallOwn, vindex
  <2>3. QED
    BY <2>1, <2>2 DEF CallsOwn
<1>15. LinksApart'
  <2>1. \A d \in Clusters \ Free' : FAT'[d].FATCluster # EOF =>
          d \in Clusters \ Free /\ FAT'[d].FATCluster = FAT[d].FATCluster
    BY <1>2, <1>9
  <2>2. QED
    BY <2>1 DEF Apart, LinksApart
<1>16. HeadsApart'
  <2>1. \A d \in Clusters \ Free' : FAT'[d].FATCluster # EOF =>
          d \in Clusters \ Free /\ FAT'[d].FATCluster = FAT[d].FATCluster
    BY <1>2, <1>9
  <2>2. QED
    BY <1>5, <2>1 DEF Apart, HeadsApart
<1>17. CutsApart'
  <2>1. ASSUME NEW g \in Files, call'[g].step = "free"
        PROVE  /\ \A d \in Clusters : FAT'[d].FATCluster # call'[g].chain
               /\ Head(g)' # call'[g].chain
    <3>1. CASE g = f
      <4>1. call'[f].chain = next /\ next \in Clusters \ Free
        BY <1>1, <2>1, <3>1
      <4>2. ASSUME NEW d \in Clusters PROVE FAT'[d].FATCluster # next
        <5>1. CASE d \in Free
          BY <1>0, <1>2, <5>1 DEF Free
        <5>2. CASE d = c
          BY <1>0, <1>2, <4>1, <5>2
        <5>3. CASE d \notin Free /\ d # c
          BY <1>0, <1>2, <1>7, <4>1, <5>3
        <5>4. QED
          BY <5>1, <5>2, <5>3
      <4>3. Head(f) # next
        BY <1>0, <1>8, <4>1
      <4>4. QED
        BY <1>5, <3>1, <4>1, <4>2, <4>3
    <3>2. CASE g # f
      <4>1. call'[g] = call[g] /\ call[g].chain \in Live
        BY <2>1, <3>2 DEF Owned, CallsOwn, CallOwn, Live
      <4>2. /\ \A d \in Clusters : FAT[d].FATCluster # call[g].chain
            /\ Head(g) # call[g].chain
        BY <2>1, <4>1 DEF Apart, CutsApart
      <4>3. QED
        BY <1>0, <1>2, <1>5, <4>1, <4>2
    <3>3. QED
      BY <3>1, <3>2
  <2>2. QED
    BY <2>1 DEF CutsApart
<1>18. NothingLost'
  <2>1. ASSUME NEW z \in Clusters \ Free'
        PROVE  \/ \E d \in Clusters \ Free' : FAT'[d].FATCluster = z
               \/ \E g \in Files : Head(g)' = z
               \/ \E g \in Files : Cut(g, z)'
    <3>1. CASE z = next
      BY <3>1 DEF Cut
    <3>2. CASE z # next
      <4>1. z \in Clusters \ Free /\ (z = c => call[f].step = "walk")
        BY <1>9
      <4>2. CASE \E d \in Clusters \ Free : FAT[d].FATCluster = z
        <5>1. PICK d \in Clusters \ Free : FAT[d].FATCluster = z
          BY <4>2
        <5>2. d # c
          BY <3>2, <5>1
        <5>3. QED
          BY <1>2, <1>3, <5>1, <5>2
      <4>3. CASE \E g \in Files : Head(g) = z
        BY <1>5, <4>3
      <4>4. CASE \E g \in Files : Cut(g, z)
        <5>1. PICK g \in Files : Cut(g, z)
          BY <4>4
        <5>2. g # f
          BY <4>1, <5>1 DEF Cut
        <5>3. QED
          BY <5>1, <5>2 DEF Cut
      <4>5. QED
        BY <4>1, <4>2, <4>3, <4>4 DEF Apart, NothingLost
    <3>3. QED
      BY <3>1, <3>2
  <2>2. QED
    BY <2>1 DEF NothingLost
<1>19. QED
  BY <1>10, <1>11, <1>13, <1>14, <1>15, <1>16, <1>17, <1>18 DEF Apart, Owned

\* What the operations on a call leave alone
LEMMA ArriveFields ==
  ASSUME NEW o \in Calls, NEW x, NEW i
  PROVE  LET p == Arrive(o, x, i)
         IN  /\ p.chain = x /\ p.prev = o.prev /\ p.op = o.op /\ p.head = o.head
             /\ p.step \in {o.step, "return"} /\ p.pos = o.pos
BY DEF Arrive, Calls

LEMMA BumpFields ==
  ASSUME NEW o \in Calls
  PROVE  LET p == Bump(o)
         IN  /\ p.chain = FAT[o.chain].FATCluster /\ p.prev = o.chain
             /\ p.op = o.op /\ p.head = o.head /\ p.step \in {o.step, "return"}
BY DEF Bump, Arrive, Calls

LEMMA EndFields ==
  ASSUME NEW o \in Calls
  PROVE  /\ LET p == EndIfDone(o)
            IN  /\ p.chain = o.chain /\ p.prev = o.prev
                /\ p.op = o.op /\ p.head = o.head /\ p.step \in {o.step, "return"}
         /\ LET p == Finished(o)
            IN  /\ p.chain = o.chain /\ p.prev = o.prev
                /\ p.op = o.op /\ p.head = o.head /\ p.step = "return"
BY DEF EndIfDone, Finished, Calls

LEMMA MovedFields ==
  ASSUME NEW o \in Calls, NEW n \in Int
  PROVE  LET p == Moved(o, n)
         IN  /\ p.chain = o.chain /\ p.prev = o.prev
             /\ p.op = o.op /\ p.head = o.head /\ p.step = o.step
BY DEF Moved, Calls

LEMMA GotFields ==
  ASSUME NEW o \in Calls, NEW n \in Int, NEW x
  PROVE  /\ LET p == Got(o, x, n)
            IN  /\ p.chain = o.chain /\ p.prev = o.prev
                /\ p.op = o.op /\ p.head = o.head /\ p.step = o.step
         /\ LET p == Zeros(o, n)
            IN  /\ p.chain = o.chain /\ p.prev = o.prev
                /\ p.op = o.op /\ p.head = o.head /\ p.step = o.step
BY DEF Got, Zeros, Moved, Calls

LEMMA TurboFields ==
  ASSUME TypeOK, NEW f \in Files, NEW x, NEW i
  PROVE  LET h == SetTurbo(f, x, i)
         IN  /\ \A g \in Files \ {f} : h[g] = hash[g]
             /\ h[f].FirstBlock = hash[f].FirstBlock
             /\ \/ h[f].TurboFATCluster = hash[f].TurboFATCluster
                \/ TurboFat /\ h[f].TurboFATCluster = x
             /\ TurboFat /\ call[f].op # "map" => h[f].TurboFATCluster = x
BY DEF TypeOK, SetTurbo, HASH

\* A call that is over, or about to be, is nowhere.
LEMMA Returned ==
  ASSUME NEW own, NEW f \in Files, call'[f].step \in {"idle", "return"},
         call'[f].op = "read" => call'[f].head = hash'[f].FirstBlock
  PROVE  CallOwn(own, f)'
BY DEF CallOwn

\* A call that goes to the next link stays in its chain.
LEMMA Bumped ==
  ASSUME TypeOK, NEW own \in [Places -> Owners], Owned(own), NEW f \in Files,
         call[f].step = "walk", call[f].chain \in Clusters, call[f].op # "none",
         FAT' = FAT, inUse' = inUse,
         call'[f].prev = call[f].chain, call'[f].chain = FAT[call[f].chain].FATCluster,
         call'[f].op = call[f].op, call'[f].head = call[f].head,
         call'[f].step \in {"walk", "return"},
         hash'[f].FirstBlock = hash[f].FirstBlock
  PROVE  CallOwn(own, f)'
<1> DEFINE c == call[f].chain
<1>1. Free' = Free /\ Live' = Live /\ c # EOF /\ c # None /\ Clusters \intersect Records = {}
  BY Constants DEF Free, Live, Places
<1>2. c \in Live /\ own[c] = f
  BY <1>1 DEF Owned, CallsOwn, CallOwn
<1>3. c \in Clusters \ Free
  BY <1>1, <1>2 DEF Live, TypeOK
<1>4. FAT[c].FATCluster # EOF => FAT[c].FATCluster \in Live /\ own[FAT[c].FATCluster] = f
  BY <1>2, <1>3 DEF Owned, LinksOwn
<1>5. call[f].op = "read" => call[f].head = hash[f].FirstBlock
  BY DEF Owned, CallsOwn, CallOwn
<1>6. QED
  BY <1>1, <1>2, <1>3, <1>4, <1>5 DEF CallOwn

\* A call begins at the head, or at the context of its file.
LEMMA Begun ==
  ASSUME TypeOK, NEW own \in [Places -> Owners], Owned(own), NEW f \in Files,
         NEW o \in Calls, o.prev = None, o.op \in {"write", "map", "read"}, call[f].op = "none",
         FAT' = FAT, inUse' = inUse,
         call'[f] = Started(f, o), ~BeginsPast(Started(f, o)),
         hash'[f].FirstBlock = hash[f].FirstBlock
  PROVE  /\ CallOwn(own, f)' /\ Head(f)' = Head(f)
         /\ call'[f].step \in {"walk", "return"} /\ call'[f].op = o.op
         /\ call'[f].chain \in Clusters => call'[f].chain \in Live /\ own[call'[f].chain] = f
<1> DEFINE q == [[o EXCEPT !.head = hash[f].FirstBlock] EXCEPT !.step = "walk"]
           p == Started(f, o)
           h == hash[f]
<1>1. h.FirstBlock \in Links /\ h.TurboFATCluster \in Links \union {None} /\ h.TurboFATIndex \in Nat
  BY DEF TypeOK, HASH
<1>2. /\ q \in Calls /\ q.head = h.FirstBlock /\ q.step = "walk" /\ q.op = o.op
      /\ q.prev = None /\ q.pos = o.pos
  BY <1>1 DEF Calls
<1> HIDE DEF q
<1>3. \/ p = Arrive(q, h.FirstBlock, 0)
      \/ /\ p = Arrive(q, h.TurboFATCluster, h.TurboFATIndex)
         /\ h.TurboFATCluster # None /\ o.op # "map"
  <2>1. FromTurbo(f, q) => h.TurboFATCluster # None /\ o.op # "map"
    BY <1>2 DEF FromTurbo
  <2>2. p = IF FromTurbo(f, q)
            THEN Arrive(q, hash[f].TurboFATCluster, hash[f].TurboFATIndex)
            ELSE Arrive(q, hash[f].FirstBlock, 0)
    <3>1. [o EXCEPT !.head = hash[f].FirstBlock, !.step = "walk"] = q
      BY DEF q
    <3>2. FromTurbo(f, o) <=> FromTurbo(f, q)
      BY <1>2 DEF FromTurbo, vindex
    <3>3. QED
      BY <3>1, <3>2 DEF Started
  <2>3. QED
    BY <2>1, <2>2
<1>4. /\ p.head = h.FirstBlock /\ p.step \in {"walk", "return"} /\ p.op = o.op /\ p.prev = None
      /\ p.chain = h.FirstBlock \/ (p.chain = h.TurboFATCluster /\ p.chain # None /\ o.op # "map")
  BY <1>2, <1>3, ArriveFields
<1>5. p \in Calls
  BY StartTypes
<1>6. p.chain \in Clusters => p.index \in Nat /\ vindex(p) \in Nat
  BY <1>5, CallSizes DEF Calls
<1>7. h.FirstBlock = Head(f)
  BY DEF Head
<1>8. Free' = Free /\ Live' = Live
  BY DEF Free, Live
<1>9. /\ h.FirstBlock # EOF => h.FirstBlock \in Live /\ own[h.FirstBlock] = f
      /\ h.TurboFATCluster # EOF
      /\ h.TurboFATCluster # None => h.TurboFATCluster \in Live /\ own[h.TurboFATCluster] = f
  BY <1>7 DEF Owned, HeadsOwn, TurboOwn
<1> HIDE DEF p
<1>10. call'[f] = p
  BY DEF p
<1>11. p.chain \in Clusters => p.chain # EOF
  BY Constants DEF Places
<1>12. p.chain \in Clusters /\ p.chain # p.head => p.index <= vindex(p)
  BY <1>6 DEF BeginsPast, p
<1>13. Head(f)' = Head(f)
  BY <1>4, <1>7, <1>10 DEF Head
<1>14. CallOwn(own, f)'
  BY <1>4, <1>8, <1>9, <1>10, <1>12 DEF CallOwn, vindex
<1>15. QED
  BY <1>4, <1>9, <1>10, <1>11, <1>13, <1>14

\* Where a call is that walks.  Unless its context was behind what it wants, a
\* call that has passed no cluster and comes to a hole is at the head.
LEMMA Place ==
  ASSUME TypeOK, NEW own, Owned(own), NEW f \in Files, call[f].step = "walk"
  PROVE  /\ call[f] \in Calls /\ Clusters \intersect Records = {} /\ None # EOF
         /\ EOF \notin Clusters /\ EOF \notin Records
         /\ call[f].op # "none"
         /\ call[f].chain # EOF => call[f].chain \in Live /\ own[call[f].chain] = f
         /\ call[f].prev = None /\ call[f].chain # call[f].head =>
              /\ call[f].op \in {"write", "read"}
              /\ call[f].chain # EOF
              /\ call[f].chain \in Clusters => call[f].index <= vindex(call[f])
         /\ call[f].op = "read" => call[f].head = hash[f].FirstBlock
         /\ call[f].index \in Nat /\ vindex(call[f]) \in Nat /\ left(call[f]) \in Int
         /\ vsize(call[f]) \in Int
  BY CallSizes, Constants DEF TypeOK, Owned, CallsOwn, CallOwn, Calls, Places

LEMMA WriteChains ==
  ASSUME TypeOK, TypeOK', NEW own \in [Places -> Owners], Apart, Owned(own), NEW f \in Files,
         NWWriteFile(f), orphaned' = {}
  PROVE  Apart' /\ \E w \in [Places -> Owners] : Owned(w)' /\ Extends(own, w, f)
<1> DEFINE o == call[f]
<1>0. /\ o \in Calls /\ call \in [Files -> Calls] /\ hash \in [Files -> HASH]
      /\ \A c \in Free : /\ [own EXCEPT ![c] = f] \in [Places -> Owners]
                         /\ Extends(own, [own EXCEPT ![c] = f], f)
      /\ Extends(own, own, f)
  <2>1. ASSUME NEW c \in Free
        PROVE  c \in Places /\ c \notin Live /\ [own EXCEPT ![c] = f] \in [Places -> Owners]
    BY Constants DEF TypeOK, Free, Live, Places, Owners
  <2>2. QED
    BY <2>1 DEF TypeOK, Extends
<1>1. CASE StartWrite(f)
  <2>1. PICK op \in Writes, e \in Extents :
          LET q == Started(f, [NoCall EXCEPT !.op = op, !.from = e[1], !.to = e[1] + e[2],
                                             !.pos = e[1], !.number = calls + 1])
          IN  /\ Goto(f, q)
              /\ hash' = IF op = "write" /\ TurboFat /\ q.chain \in Clusters
                         THEN [hash EXCEPT ![f].TurboFATCluster = q.chain]
                         ELSE hash
              /\ orphaned' = Misled(f, BeginsPast(q))
    BY <1>1 DEF StartWrite
  <2> DEFINE r == [NoCall EXCEPT !.op = op, !.from = e[1], !.to = e[1] + e[2],
                                 !.pos = e[1], !.number = calls + 1]
             q == Started(f, r)
  <2>2. /\ e[1] \in 0 .. MaxUnits /\ e[2] \in 1 .. MaxUnits /\ e[1] + e[2] <= MaxUnits
        /\ calls + 1 \in 0 .. MaxCalls
    BY <1>1, FileConstants DEF StartWrite, TypeOK
  <2>3. e[1] + e[2] \in 0 .. MaxUnits /\ e[1] \in Nat
    BY <2>2, Constants
  <2>4. r \in Calls /\ r.prev = None /\ r.op \in {"write", "map"}
    BY <2>2, <2>3, NoCallType DEF Calls, Writes, Versions, NoCall
  <2> HIDE DEF r
  <2>5. ~BeginsPast(q)
    BY <2>1 DEF Misled, r
  <2>6. call' = [call EXCEPT ![f] = q] /\ call[f].op = "none" /\ FAT' = FAT /\ inUse' = inUse
    BY <1>1, <2>1 DEF Goto, r, StartWrite
  <2>7. /\ \A g \in Files \ {f} : hash'[g] = hash[g]
        /\ hash'[f].FirstBlock = hash[f].FirstBlock
        /\ \/ hash'[f].TurboFATCluster = hash[f].TurboFATCluster
           \/ TurboFat /\ q.chain \in Clusters /\ hash'[f].TurboFATCluster = q.chain
    BY <1>0, <2>1 DEF HASH, r
  <2> HIDE DEF q
  <2>8. call'[f] = q
    BY <1>0, <2>6
  <2>9. /\ CallOwn(own, f)' /\ Head(f)' = Head(f)
        /\ call'[f].step \in {"walk", "return"} /\ call'[f].op = r.op
        /\ call'[f].chain \in Clusters => call'[f].chain \in Live /\ own[call'[f].chain] = f
    BY <2>4, <2>5, <2>6, <2>7, <2>8, Begun DEF q
  <2>10. call[f].step # "free"
    BY <2>6 DEF Owned, CallsOwn, CallOwn
  <2>11. Apart' /\ Owned(own)'
    BY <1>0, <2>4, <2>6, <2>7, <2>8, <2>9, <2>10, Stay
  <2>12. QED
    BY <1>0, <2>11
<1>2. CASE WriteHole(f)
  <2>1. PICK c \in Free :
          /\ FAT' = Relinked([FAT EXCEPT ![c] = [FATIndex   |-> vindex(o),
                                                 FATCluster |-> o.chain]], o, c)
          /\ Goto(f, [Moved(Headed(o, c), vsize(o)) EXCEPT !.prev = c])
          /\ hash' = SetTurbo(f, c, vindex(o))
    BY <1>2 DEF WriteHole
  <2>2. o.step = "walk" /\ o.op \in Writes /\ o.chain \in Clusters /\ vindex(o) < o.index
        /\ inUse' = inUse
    BY <1>2 DEF WriteHole, OnCluster, At
  <2>3. o.prev = None => o.chain = o.head
    BY <2>2, Place
  <2> DEFINE p == [Moved(Headed(o, c), vsize(o)) EXCEPT !.prev = c]
  <2>4. /\ p.head = Headed(o, c).head /\ p.op = o.op /\ p.step = "walk" /\ p.prev = c
        /\ p.chain = o.chain
    BY <1>0, <2>2 DEF Moved, Headed, Calls
  <2>5. /\ call'[f] = p /\ \A g \in Files \ {f} : call'[g] = call[g] /\ hash'[g] = hash[g]
        /\ \/ hash'[f].TurboFATCluster = hash[f].TurboFATCluster
           \/ TurboFat /\ hash'[f].TurboFATCluster = c
    BY <1>0, <2>1, TurboFields DEF Goto
  <2> HIDE DEF p
  <2>6. o.chain \in Links /\ vindex(o) \in Nat
    BY <2>2, Place DEF Links
  <2>7. Apart' /\ Owned([own EXCEPT ![c] = f])'
    BY <2>1, <2>2, <2>3, <2>4, <2>5, <2>6, Insert
  <2>8. QED
    BY <1>0, <2>7
<1>3. CASE WriteHit(f)
  <2> DEFINE q == Moved(o, vsize(o))
             p == AfterCluster(q)
  <2>1. o.step = "walk" /\ o.op \in Writes /\ o.chain \in Clusters
        /\ inUse' = inUse /\ FAT' = FAT
    BY <1>3 DEF WriteHit, OnCluster, At
  <2>2. q \in Calls /\ q.chain = o.chain /\ q.op = o.op /\ q.head = o.head /\ q.step = "walk"
    <3>1. vsize(o) \in Int /\ o.pos + vsize(o) \in Nat
      BY <1>0, CallSizes
    <3>2. QED
      BY <1>0, <2>1, <3>1, MovedFields, CallTypes
  <2> HIDE DEF q
  <2>3. Bump(q) \in Calls
    BY <2>1, <2>2, BumpType
  <2>4. /\ p.prev = o.chain /\ p.chain = FAT[o.chain].FATCluster /\ p.op = o.op
        /\ p.head = o.head /\ p.step \in {"walk", "return"}
    BY <2>2, <2>3, BumpFields, EndFields DEF AfterCluster
  <2> HIDE DEF p
  <2>5. /\ call' = [call EXCEPT ![f] = p]
        /\ \/ hash' = SetTurbo(f, o.chain, vindex(o))
           \/ p.chain \in Clusters /\ hash' = SetTurbo(f, p.chain, vindex(o) + 1)
    BY <1>3 DEF WriteHit, Goto, p, q
  <2>6. /\ call'[f] = p /\ \A g \in Files \ {f} : call'[g] = call[g] /\ hash'[g] = hash[g]
        /\ hash'[f].FirstBlock = hash[f].FirstBlock
        /\ \/ hash'[f].TurboFATCluster = hash[f].TurboFATCluster
           \/ TurboFat /\ hash'[f].TurboFATCluster = o.chain
           \/ TurboFat /\ p.chain \in Clusters /\ hash'[f].TurboFATCluster = p.chain
    BY <1>0, <2>5, TurboFields
  <2>7. CallOwn(own, f)'
    BY <2>1, <2>4, <2>6, Place, Bumped
  <2>8. o.chain \in Live /\ own[o.chain] = f
        /\ (p.chain \in Clusters => p.chain \in Live /\ own[p.chain] = f)
    <3>1. o.chain \in Live /\ own[o.chain] = f /\ o.chain \in Clusters \ Free
      BY <2>1, Place DEF Live, TypeOK
    <3>2. EOF \notin Clusters
      BY Constants DEF Places
    <3>3. QED
      BY <2>4, <3>1, <3>2 DEF Owned, LinksOwn
  <2>9. Head(f)' = Head(f)
    BY <2>1, <2>4, <2>6 DEF Head, Writes
  <2>10. Apart' /\ Owned(own)'
    BY <2>1, <2>4, <2>6, <2>7, <2>8, <2>9, Stay DEF Writes
  <2>11. QED
    BY <1>0, <2>10
<1>4. CASE WriteSkip(f)
  <2> DEFINE p == AfterCluster(o)
  <2>1. o.step = "walk" /\ o.op \in Writes /\ o.chain \in Clusters
        /\ inUse' = inUse /\ FAT' = FAT
    BY <1>4 DEF WriteSkip, OnCluster, At
  <2>2. Bump(o) \in Calls
    BY <1>0, <2>1, BumpType
  <2>3. /\ p.prev = o.chain /\ p.chain = FAT[o.chain].FATCluster /\ p.op = o.op
        /\ p.head = o.head /\ p.step \in {"walk", "return"}
    BY <1>0, <2>1, <2>2, BumpFields, EndFields DEF AfterCluster
  <2> HIDE DEF p
  <2>4. /\ call' = [call EXCEPT ![f] = p]
        /\ \/ hash' = hash
           \/ p.chain \in Clusters /\ \E i : hash' = SetTurbo(f, p.chain, i)
    BY <1>4 DEF WriteSkip, Goto, p
  <2>5. /\ call'[f] = p /\ \A g \in Files \ {f} : call'[g] = call[g] /\ hash'[g] = hash[g]
        /\ hash'[f].FirstBlock = hash[f].FirstBlock
        /\ \/ hash'[f].TurboFATCluster = hash[f].TurboFATCluster
           \/ TurboFat /\ p.chain \in Clusters /\ hash'[f].TurboFATCluster = p.chain
    BY <1>0, <2>4, TurboFields
  <2>6. CallOwn(own, f)'
    BY <2>1, <2>3, <2>5, Place, Bumped
  <2>7. p.chain \in Clusters => p.chain \in Live /\ own[p.chain] = f
    <3>1. own[o.chain] = f /\ o.chain \in Clusters \ Free
      BY <2>1, Place DEF Live, TypeOK
    <3>2. EOF \notin Clusters
      BY Constants DEF Places
    <3>3. QED
      BY <2>3, <3>1, <3>2 DEF Owned, LinksOwn
  <2>8. Head(f)' = Head(f)
    BY <2>1, <2>3, <2>5 DEF Head, Writes
  <2>9. Apart' /\ Owned(own)'
    BY <2>1, <2>3, <2>5, <2>6, <2>7, <2>8, Stay DEF Writes
  <2>10. QED
    BY <1>0, <2>9
<1>5. CASE WriteExtend(f)
  <2>1. PICK c \in Free :
          /\ FAT' = Relinked([FAT EXCEPT ![c] = [FATIndex   |-> vindex(o),
                                                 FATCluster |-> EOF]], o, c)
          /\ Goto(f, EndIfDone([Moved(Headed(o, c), vsize(o)) EXCEPT !.prev = c]))
          /\ hash' = SetTurbo(f, c, vindex(o))
    BY <1>5 DEF WriteExtend
  <2>2. o.step = "walk" /\ o.op \in Writes /\ o.chain = EOF /\ inUse' = inUse
    BY <1>5 DEF WriteExtend, OnEOF, At
  <2>3. o.prev = None => o.chain = o.head
    BY <2>2, Place
  <2> DEFINE q == [Moved(Headed(o, c), vsize(o)) EXCEPT !.prev = c]
             p == EndIfDone(q)
  <2>4. q.head = Headed(o, c).head /\ q.op = o.op /\ q.step = "walk" /\ q.prev = c /\ q.chain = EOF
    BY <1>0, <2>2 DEF Moved, Headed, Calls
  <2>5. q \in Calls
    <3>1. c \in Clusters /\ c \in Links
      BY DEF Free, Links
    <3>2. Headed(o, c) \in Calls /\ Headed(o, c).pos = o.pos
      BY <1>0, <3>1, CallTypes DEF Headed, Calls
    <3>3. vsize(o) \in Int /\ o.pos + vsize(o) \in Nat
      BY <1>0, CallSizes
    <3>4. Moved(Headed(o, c), vsize(o)) \in Calls
      BY <3>2, <3>3, CallTypes
    <3>5. QED
      BY <3>1, <3>4, CallTypes
  <2> HIDE DEF q
  <2>6. /\ p.head = Headed(o, c).head /\ p.op = o.op /\ p.step \in {"walk", "return"}
        /\ p.prev = c /\ p.chain = EOF
    BY <2>4, <2>5, EndFields
  <2>7. call' = [call EXCEPT ![f] = p]
    BY <2>1 DEF Goto, q
  <2> HIDE DEF p
  <2>8. /\ call'[f] = p /\ \A g \in Files \ {f} : call'[g] = call[g] /\ hash'[g] = hash[g]
        /\ \/ hash'[f].TurboFATCluster = hash[f].TurboFATCluster
           \/ TurboFat /\ hash'[f].TurboFATCluster = c
    BY <1>0, <2>1, <2>7, TurboFields
  <2>9. EOF \in Links /\ vindex(o) \in Nat
    BY <2>2, Place DEF Links
  <2>10. Apart' /\ Owned([own EXCEPT ![c] = f])'
    BY <2>1, <2>2, <2>3, <2>6, <2>8, <2>9, Insert
  <2>11. QED
    BY <1>0, <2>10
<1>6. CASE WriteTail(f) \/ WriteFails(f)
  <2>1. /\ FAT' = FAT /\ inUse' = inUse /\ hash' = hash /\ o.step = "walk" /\ o.op \in Writes
        /\ \/ call' = [call EXCEPT ![f] = Finished(Moved(o, left(o)))]
           \/ call' = [call EXCEPT ![f] = Failed(o)]
    BY <1>6 DEF WriteTail, WriteFails, OnRecord, OnCluster, OnEOF, At, Goto
  <2>2. /\ call'[f].step = "return" /\ call'[f].op = o.op /\ call'[f].head = o.head
        /\ \A g \in Files \ {f} : call'[g] = call[g]
    <3>1. CASE call' = [call EXCEPT ![f] = Failed(o)]
      BY <1>0, <3>1 DEF Failed, Calls
    <3>2. CASE call' = [call EXCEPT ![f] = Finished(Moved(o, left(o)))]
      BY <1>0, <3>2 DEF Finished, Moved, Calls
    <3>3. QED
      BY <2>1, <3>1, <3>2
  <2>3. CallOwn(own, f)' /\ Head(f)' = Head(f)
    BY <2>1, <2>2, Returned DEF Writes, Head
  <2>4. Apart' /\ Owned(own)'
    BY <2>1, <2>2, <2>3, Stay DEF Writes
  <2>5. QED
    BY <1>0, <2>4
<1>7. CASE WriteConvert(f)
  <2> DEFINE n == IF vindex(o) = o.index THEN vsize(o) ELSE 0
  <2>1. PICK c \in Free :
          /\ FAT' = Relinked([FAT EXCEPT ![c] = [FATIndex   |-> o.index,
                                                 FATCluster |-> EOF]], o, c)
          /\ Goto(f, EndIfDone([Moved(Headed(o, c), n) EXCEPT !.prev = c, !.chain = EOF]))
          /\ hash' = SetTurbo(f, c, o.index)
    BY <1>7 DEF WriteConvert
  <2>2. o.step = "walk" /\ o.op \in Writes /\ o.chain \in Records /\ inUse' = inUse \ {o.chain}
    BY <1>7 DEF WriteConvert, OnRecord, At
  <2>3. ~LosesChain(f, o)
    BY <1>7 DEF WriteConvert, Misled
  <2> DEFINE q == [Moved(Headed(o, c), n) EXCEPT !.prev = c, !.chain = EOF]
             p == EndIfDone(q)
  <2>4. q.head = Headed(o, c).head /\ q.op = o.op /\ q.step = "walk" /\ q.prev = c /\ q.chain = EOF
    BY <1>0, <2>2 DEF Moved, Headed, Calls
  <2>5. q \in Calls
    <3>1. c \in Clusters /\ c \in Links /\ EOF \in Links
      BY DEF Free, Links
    <3>2. Headed(o, c) \in Calls /\ Headed(o, c).pos = o.pos
      BY <1>0, <3>1, CallTypes DEF Headed, Calls
    <3>3. n \in Int /\ o.pos + n \in Nat
      BY <1>0, CallSizes DEF Calls
    <3>4. Moved(Headed(o, c), n) \in Calls
      BY <3>2, <3>3, CallTypes
    <3> DEFINE m == Moved(Headed(o, c), n)
    <3>5. [m EXCEPT !.prev = c] \in Calls
      BY <3>1, <3>4, CallTypes
    <3>6. [[m EXCEPT !.prev = c] EXCEPT !.chain = EOF] \in Calls
      BY <3>1, <3>5, CallTypes
    <3>7. QED
      BY <3>6
  <2> HIDE DEF q
  <2>6. /\ p.head = Headed(o, c).head /\ p.op = o.op /\ p.step \in {"walk", "return"}
        /\ p.prev = c /\ p.chain = EOF
    BY <2>4, <2>5, EndFields
  <2>7. call' = [call EXCEPT ![f] = p]
    BY <2>1 DEF Goto, q
  <2> HIDE DEF p
  <2>8. /\ call'[f] = p /\ \A g \in Files \ {f} : call'[g] = call[g] /\ hash'[g] = hash[g]
        /\ \/ hash'[f].TurboFATCluster = hash[f].TurboFATCluster
           \/ TurboFat /\ hash'[f].TurboFATCluster = c
        /\ TurboFat /\ o.op # "map" => hash'[f].TurboFATCluster = c
    BY <1>0, <2>1, <2>7, TurboFields
  <2>9. EOF \in Links /\ o.index \in Nat /\ o.chain # None /\ o.chain # c
    BY <2>2, Place, Constants DEF Links, Places, Free
  <2>10. hash'[f].TurboFATCluster # o.chain
    <3>1. CASE hash'[f].TurboFATCluster = c
      BY <2>9, <3>1
    <3>2. CASE hash'[f].TurboFATCluster = hash[f].TurboFATCluster /\ o.op = "map"
      BY <2>3, <3>2 DEF LosesChain
    <3>3. CASE hash'[f].TurboFATCluster = hash[f].TurboFATCluster /\ ~TurboFat
      BY <2>9, <3>3 DEF Owned, TurboOwn
    <3>4. QED
      BY <2>8, <3>1, <3>2, <3>3
  <2>11. Apart' /\ Owned([own EXCEPT ![c] = f])'
    BY <2>1, <2>2, <2>3, <2>6, <2>8, <2>9, <2>10, Insert DEF LosesChain
  <2>12. QED
    BY <1>0, <2>11
<1>8. CASE WriteReturn(f)
  <2>1. /\ FAT' = FAT /\ inUse' = inUse /\ o.step = "return" /\ o.op \in Writes
        /\ call' = [call EXCEPT ![f] = NoCall] /\ hash' = Update(f, o)
        /\ o.error => o.head = hash[f].FirstBlock
    BY <1>8 DEF WriteReturn, At, Goto, Misled
  <2>2. /\ call'[f] = NoCall /\ NoCall.step = "idle" /\ NoCall.op = "none"
        /\ \A g \in Files \ {f} : call'[g] = call[g] /\ hash'[g] = hash[g]
        /\ hash'[f].TurboFATCluster = hash[f].TurboFATCluster
        /\ hash'[f].FirstBlock = o.head
    BY <1>0, <2>1 DEF NoCall, Update, HASH
  <2>3. CallOwn(own, f)' /\ Head(f)' = Head(f)
    BY <2>1, <2>2, Returned DEF Writes, Head
  <2>4. Apart' /\ Owned(own)'
    BY <2>1, <2>2, <2>3, Stay DEF Writes
  <2>5. QED
    BY <1>0, <2>4
<1>9. QED
  BY <1>1, <1>2, <1>3, <1>4, <1>5, <1>6, <1>7, <1>8 DEF NWWriteFile

LEMMA ReadChains ==
  ASSUME TypeOK, TypeOK', NEW own \in [Places -> Owners], Apart, Owned(own), NEW f \in Files,
         NWReadFile(f), orphaned' = {}
  PROVE  Apart' /\ Owned(own)'
<1> DEFINE o == call[f]
<1>0. o \in Calls /\ call \in [Files -> Calls] /\ hash \in [Files -> HASH]
  BY DEF TypeOK
<1>1. CASE StartRead(f)
  <2>1. PICK e \in Extents :
          LET size == hash[f].FileSize
              q    == Started(f, [NoCall EXCEPT
                        !.op = "read", !.from = e[1], !.pos = e[1],
                        !.to = IF e[1] + e[2] > size THEN size ELSE e[1] + e[2]])
          IN  /\ Goto(f, q)
              /\ hash' = IF q.chain \in Clusters THEN SetTurbo(f, q.chain, q.index) ELSE hash
              /\ orphaned' = Misled(f, BeginsPast(q))
    BY <1>1 DEF StartRead
  <2> DEFINE size == hash[f].FileSize
             r == [NoCall EXCEPT
                     !.op = "read", !.from = e[1], !.pos = e[1],
                     !.to = IF e[1] + e[2] > size THEN size ELSE e[1] + e[2]]
             q == Started(f, r)
  <2>2. /\ e[1] \in 0 .. MaxUnits /\ e[2] \in 1 .. MaxUnits /\ e[1] + e[2] <= MaxUnits
        /\ size \in 0 .. MaxUnits
    BY <1>0, FileConstants DEF HASH
  <2>3. e[1] + e[2] \in 0 .. MaxUnits /\ e[1] \in Nat
    BY <2>2, Constants
  <2>4. r \in Calls /\ r.prev = None /\ r.op = "read"
    BY <2>2, <2>3, NoCallType DEF Calls, NoCall
  <2> HIDE DEF r, size
  <2>5. ~BeginsPast(q)
    BY <2>1 DEF Misled, r, size
  <2>6. call' = [call EXCEPT ![f] = q] /\ call[f].op = "none" /\ FAT' = FAT /\ inUse' = inUse
    BY <1>1, <2>1 DEF Goto, r, size, StartRead
  <2>7. hash' = hash \/ (q.chain \in Clusters /\ hash' = SetTurbo(f, q.chain, q.index))
    BY <2>1 DEF r, size
  <2> HIDE DEF q
  <2>8. /\ \A g \in Files \ {f} : hash'[g] = hash[g]
        /\ hash'[f].FirstBlock = hash[f].FirstBlock
        /\ \/ hash'[f].TurboFATCluster = hash[f].TurboFATCluster
           \/ TurboFat /\ q.chain \in Clusters /\ hash'[f].TurboFATCluster = q.chain
    BY <2>7, TurboFields
  <2>9. call'[f] = q
    BY <1>0, <2>6
  <2>10. /\ CallOwn(own, f)' /\ Head(f)' = Head(f)
         /\ call'[f].step \in {"walk", "return"} /\ call'[f].op = "read"
         /\ call'[f].chain \in Clusters => call'[f].chain \in Live /\ own[call'[f].chain] = f
    BY <2>4, <2>5, <2>6, <2>8, <2>9, Begun DEF q
  <2>11. call[f].step # "free"
    BY <2>6 DEF Owned, CallsOwn, CallOwn
  <2>12. QED
    BY <1>0, <2>6, <2>8, <2>9, <2>10, <2>11, Stay
<1>2. CASE ReadHole(f)
  <2>1. /\ o.step = "walk" /\ o.op = "read" /\ o.chain \in Clusters /\ vindex(o) < o.index
        /\ call' = [call EXCEPT ![f] = Zeros(o, vsize(o))]
        /\ hash' = hash /\ FAT' = FAT /\ inUse' = inUse
    BY <1>2 DEF ReadHole, OnCluster, At, Goto
  <2>2. o.prev = None => o.chain = o.head
    BY <2>1, Place
  <2>3. /\ call'[f].step = "walk" /\ call'[f].op = "read" /\ call'[f].head = o.head
        /\ call'[f].prev = o.prev /\ call'[f].chain = o.chain
        /\ \A g \in Files \ {f} : call'[g] = call[g]
    <3>1. vsize(o) \in Int
      BY <1>0, CallSizes
    <3>2. QED
      BY <1>0, <2>1, <3>1, GotFields
  <2>4. CallOwn(own, f)
    BY DEF Owned, CallsOwn
  <2>5. CallOwn(own, f)'
    <3>1. Free' = Free /\ Live' = Live
      BY <2>1 DEF Free, Live
    <3>2. QED
      BY <2>1, <2>2, <2>3, <2>4, <3>1 DEF CallOwn
  <2>6. Head(f)' = Head(f)
    BY <2>1, <2>3 DEF Head
  <2>7. QED
    BY <2>1, <2>3, <2>5, <2>6, Stay
<1>3. CASE ReadCluster(f)
  <2> DEFINE q == IF left(o) > 0 /\ vindex(o) = o.index THEN Got(o, o.chain, vsize(o)) ELSE o
             p == EndIfDone(Bump(q))
  <2>1. o.step = "walk" /\ o.op = "read" /\ o.chain \in Clusters
        /\ inUse' = inUse /\ FAT' = FAT
    BY <1>3 DEF ReadCluster, OnCluster, At
  <2>2. vsize(o) \in Int /\ vsize(o) <= left(o) /\ o.pos + vsize(o) \in Nat
    BY <1>0, CallSizes
  <2>3. q \in Calls
    BY <1>0, <2>1, <2>2, GotType DEF Places
  <2>4. q.chain = o.chain /\ q.op = o.op /\ q.head = o.head /\ q.step = "walk"
    BY <1>0, <2>1, <2>2, GotFields
  <2> HIDE DEF q
  <2>5. Bump(q) \in Calls
    BY <2>1, <2>3, <2>4, BumpType
  <2>6. /\ p.prev = o.chain /\ p.chain = FAT[o.chain].FATCluster /\ p.op = o.op
        /\ p.head = o.head /\ p.step \in {"walk", "return"}
    BY <2>3, <2>4, <2>5, BumpFields, EndFields
  <2>7. /\ call' = [call EXCEPT ![f] = p]
        /\ hash' = hash \/ (p.chain \in Clusters /\ hash' = SetTurbo(f, p.chain, p.index))
    BY <1>3 DEF ReadCluster, Goto, q
  <2> HIDE DEF p
  <2>8. /\ call'[f] = p /\ \A g \in Files \ {f} : call'[g] = call[g] /\ hash'[g] = hash[g]
        /\ hash'[f].FirstBlock = hash[f].FirstBlock
        /\ \/ hash'[f].TurboFATCluster = hash[f].TurboFATCluster
           \/ TurboFat /\ p.chain \in Clusters /\ hash'[f].TurboFATCluster = p.chain
    BY <1>0, <2>7, TurboFields
  <2>9. CallOwn(own, f)'
    BY <2>1, <2>6, <2>8, Place, Bumped
  <2>10. p.chain \in Clusters => p.chain \in Live /\ own[p.chain] = f
    <3>1. own[o.chain] = f /\ o.chain \in Clusters \ Free
      BY <2>1, Place DEF Live, TypeOK
    <3>2. EOF \notin Clusters
      BY Constants DEF Places
    <3>3. QED
      BY <2>6, <3>1, <3>2 DEF Owned, LinksOwn
  <2>11. Head(f)' = Head(f)
    BY <2>1, <2>6, <2>8 DEF Head
  <2>12. QED
    BY <2>1, <2>6, <2>8, <2>9, <2>10, <2>11, Stay
<1>4. CASE ReadEOF(f) \/ ReadRecord(f)
  <2>1. /\ o.step = "walk" /\ o.op = "read" /\ inUse' = inUse /\ FAT' = FAT
        /\ \/ o.chain = EOF /\ \E i : hash' = SetTurbo(f, o.prev, i)
           \/ o.chain \in Records /\ (hash' = hash \/ hash' = SetTurbo(f, o.chain, o.index))
    BY <1>4 DEF ReadEOF, ReadRecord, OnEOF, OnRecord, At
  <2>2. /\ call'[f].step = "return" /\ call'[f].op = "read" /\ call'[f].head = o.head
        /\ \A g \in Files \ {f} : call'[g] = call[g]
    <3>1. \A n : /\ Zeros(o, n).op = "read" /\ Zeros(o, n).head = o.head
                 /\ Finished(Zeros(o, n)).step = "return"
                 /\ Finished(Zeros(o, n)).op = "read" /\ Finished(Zeros(o, n)).head = o.head
      BY <1>0, <2>1 DEF Zeros, Moved, Finished, Calls
    <3>2. \A n, m : LET p == Got(o, o.chain, m)
                    IN  /\ Finished(Zeros(p, n)).step = "return"
                        /\ Finished(Zeros(p, n)).op = "read" /\ Finished(Zeros(p, n)).head = o.head
      BY <1>0, <2>1 DEF Got, Zeros, Moved, Finished, Calls
    <3>3. \/ \E n : call' = [call EXCEPT ![f] = Finished(Zeros(o, n))]
          \/ \E n, m : call' = [call EXCEPT ![f] = Finished(Zeros(Got(o, o.chain, m), n))]
      <4>1. CASE ReadEOF(f)
        BY <4>1 DEF ReadEOF, Goto
      <4>2. CASE ReadRecord(f)
        BY <4>2 DEF ReadRecord, Goto
      <4>3. QED
        BY <1>4, <4>1, <4>2
    <3>4. QED
      BY <1>0, <3>1, <3>2, <3>3
  <2>3. /\ \A g \in Files \ {f} : hash'[g] = hash[g]
        /\ hash'[f].FirstBlock = hash[f].FirstBlock
        /\ \/ hash'[f].TurboFATCluster = hash[f].TurboFATCluster
           \/ TurboFat /\ o.chain = EOF /\ hash'[f].TurboFATCluster = o.prev
           \/ TurboFat /\ o.chain \in Records /\ hash'[f].TurboFATCluster = o.chain
    BY <2>1, TurboFields
  <2>4. /\ o.prev # None => o.prev \in Live /\ own[o.prev] = f
        /\ o.chain \in Records => o.chain \in Live /\ own[o.chain] = f
    BY <2>1, Constants DEF Owned, CallsOwn, CallOwn, Live, Places
  <2>5. o.head = hash[f].FirstBlock
    BY <2>1, Place
  <2>6. CallOwn(own, f)' /\ Head(f)' = Head(f)
    BY <2>1, <2>2, <2>3, <2>5, Returned DEF Head
  <2>7. QED
    BY <2>1, <2>2, <2>3, <2>4, <2>6, Stay
<1>5. CASE ReadReturn(f)
  <2>1. /\ FAT' = FAT /\ inUse' = inUse /\ o.step = "return" /\ o.op = "read"
        /\ call' = [call EXCEPT ![f] = NoCall] /\ hash' = hash
    BY <1>5 DEF ReadReturn, At, Goto
  <2>2. /\ call'[f] = NoCall /\ NoCall.step = "idle" /\ NoCall.op = "none"
        /\ \A g \in Files \ {f} : call'[g] = call[g]
    BY <1>0, <2>1 DEF NoCall
  <2>3. o.head = hash[f].FirstBlock
    BY <2>1 DEF Owned, CallsOwn, CallOwn
  <2>4. CallOwn(own, f)' /\ Head(f)' = Head(f)
    BY <2>1, <2>2, <2>3, Returned DEF Head
  <2>5. QED
    BY <2>1, <2>2, <2>4, Stay
<1>6. QED
  BY <1>1, <1>2, <1>3, <1>4, <1>5 DEF NWReadFile

\* A truncate begins at the head, and without a context.
LEMMA TruncateBegun ==
  ASSUME TypeOK, NEW own \in [Places -> Owners], Apart, Owned(own), NEW f \in Files,
         TypeOK',
         NEW units, NEW ragged, TruncateTo(f, units, ragged), call[f].op = "none",
         FAT' = FAT, inUse' = inUse,
         \A g \in Files \ {f} : hash'[g] = hash[g],
         hash'[f].FirstBlock = hash[f].FirstBlock,
         hash'[f].TurboFATCluster = None
  PROVE  Apart' /\ Owned(own)'
<1> DEFINE head == hash[f].FirstBlock
<1>1. PICK pos : LET o == [NoCall EXCEPT !.op = "truncate", !.step = "walk", !.head = head,
                                         !.to = units, !.pos = pos]
                 IN  call' = [call EXCEPT ![f] = IF head = EOF THEN Finished(o)
                                                 ELSE Arrive(o, head, 0)]
  BY DEF TruncateTo, Goto
<1> DEFINE o == [NoCall EXCEPT !.op = "truncate", !.step = "walk", !.head = head,
                               !.to = units, !.pos = pos]
<1>2. o.op = "truncate" /\ o.step = "walk" /\ o.head = head /\ o.prev = None
  BY DEF NoCall
<1>3. LET p == Arrive(o, head, 0)
      IN  p.op = "truncate" /\ p.step \in {"walk", "return"} /\ p.head = head /\ p.prev = None
          /\ p.chain = head
  BY DEF NoCall, Arrive
<1>4. Finished(o).op = "truncate" /\ Finished(o).step = "return" /\ Finished(o).head = head
  BY DEF NoCall, Finished
<1> HIDE DEF o
<1>5. /\ call'[f].op = "truncate" /\ call'[f].head = head /\ call'[f].step \in {"walk", "return"}
      /\ call'[f].step = "walk" => call'[f].prev = None /\ call'[f].chain = head
      /\ \A g \in Files \ {f} : call'[g] = call[g]
  <2>1. call' = [call EXCEPT ![f] = IF head = EOF THEN Finished(o) ELSE Arrive(o, head, 0)]
    BY <1>1 DEF o
  <2>2. QED
    BY <1>3, <1>4, <2>1 DEF TypeOK
<1>6. Head(f) = head /\ Head(f)' = head
  BY <1>5 DEF Head
<1>7. Free' = Free /\ Live' = Live
  BY DEF Free, Live
<1>8. head # EOF => head \in Live /\ own[head] = f
  BY <1>6 DEF Owned, HeadsOwn
<1>9. CallOwn(own, f)'
  BY <1>5, <1>7, <1>8 DEF CallOwn
<1>10. call[f].step # "free"
  BY DEF Owned, CallsOwn, CallOwn
<1>11. QED
  BY <1>5, <1>6, <1>9, <1>10, Stay

LEMMA TruncateChains ==
  ASSUME TypeOK, TypeOK', NEW own \in [Places -> Owners], Apart, Owned(own), NEW f \in Files,
         TruncateClusterChain(f)
  PROVE  Apart' /\ \E w \in [Places -> Owners] : Owned(w)' /\ Extends(own, w, f)
<1> DEFINE o == call[f]
<1>0. /\ o \in Calls /\ call \in [Files -> Calls] /\ hash \in [Files -> HASH]
      /\ \A x : [own EXCEPT ![x] = f] \in [Places -> Owners]
      /\ \A x \in {EOF} \union (Records \ inUse) : Extends(own, [own EXCEPT ![x] = f], f)
      /\ Extends(own, own, f)
      /\ inUse \subseteq Records /\ EOF \notin Places /\ EOF \notin Records /\ EOF \notin Clusters
      /\ Clusters \intersect Records = {}
      /\ Clusters \subseteq Places /\ Records \subseteq Places
  <2>1. ASSUME NEW x \in {EOF} \union (Records \ inUse) PROVE x \notin Places \/ x \notin Live
    BY Constants DEF Live, Places
  <2>2. QED
    BY <2>1, Constants DEF TypeOK, Places, Owners, Extends
<1>1. CASE Close(f)
  <2>1. /\ call[f].op = "none" /\ FAT' = FAT /\ inUse' = inUse
        /\ hash' = [hash EXCEPT ![f] = ResetTurbo([hash[f] EXCEPT !.Modified = FALSE])]
        /\ \E ragged : TruncateTo(f, hash[f].FileSize, ragged)
    BY <1>1 DEF Close
  <2>2. /\ \A g \in Files \ {f} : hash'[g] = hash[g]
        /\ hash'[f].FirstBlock = hash[f].FirstBlock
        /\ hash'[f].TurboFATCluster = None
    BY <1>0, <2>1 DEF ResetTurbo, HASH
  <2>3. Apart' /\ Owned(own)'
    BY <2>1, <2>2, TruncateBegun
  <2>4. QED
    BY <1>0, <2>3
<1>2. CASE Truncate(f)
  <2>1. /\ call[f].op = "none" /\ FAT' = FAT /\ inUse' = inUse
        /\ hash' = [hash EXCEPT ![f] = ResetTurbo(hash[f])]
        /\ \E s : TruncateTo(f, s[1], s[2])
    BY <1>2 DEF Truncate
  <2>2. /\ \A g \in Files \ {f} : hash'[g] = hash[g]
        /\ hash'[f].FirstBlock = hash[f].FirstBlock
        /\ hash'[f].TurboFATCluster = None
    BY <1>0, <2>1 DEF ResetTurbo, HASH
  <2>3. PICK s : TruncateTo(f, s[1], s[2])
    BY <2>1
  <2>4. Apart' /\ Owned(own)'
    BY <2>1, <2>2, <2>3, TruncateBegun
  <2>5. QED
    BY <1>0, <2>4
<1>3. CASE TruncateCut(f)
  <2>1. /\ o.step = "walk" /\ o.op = "truncate" /\ o.chain \in Clusters
        /\ FAT' = Relinked(FAT, o, EOF) /\ inUse' = inUse /\ hash' = hash
        /\ call' = [call EXCEPT ![f] = [Headed(o, EOF) EXCEPT !.step = "free"]]
    BY <1>3 DEF TruncateCut, OnCluster, At, Goto, Truncates
  <2>2. /\ call'[f].head = Headed(o, EOF).head /\ call'[f].op = "truncate"
        /\ call'[f].step = "free" /\ call'[f].chain = o.chain
        /\ \A g \in Files \ {f} : call'[g] = call[g]
    BY <1>0, <2>1 DEF Headed, Calls
  <2>3. inUse' = (inUse \union (IF EOF = EOF THEN {} ELSE {EOF})) \ {o.chain}
    BY <1>0, <2>1
  <2>4. Apart' /\ Owned([own EXCEPT ![EOF] = f])'
    BY <1>0, <2>1, <2>2, <2>3, Detach
  <2>5. QED
    BY <1>0, <2>4
<1>4. CASE TruncateToRecord(f)
  <2>1. PICK r \in Records \ inUse :
          /\ inUse' = inUse \union {r}
          /\ FAT' = Relinked(FAT, o, r)
          /\ call' = [call EXCEPT ![f] = [Headed(o, r) EXCEPT !.step = "free"]]
    BY <1>4 DEF TruncateToRecord, Goto
  <2>2. o.step = "walk" /\ o.op = "truncate" /\ o.chain \in Clusters /\ hash' = hash
    BY <1>4 DEF TruncateToRecord, OnCluster, At, Truncates
  <2>3. /\ call'[f].head = Headed(o, r).head /\ call'[f].op = "truncate"
        /\ call'[f].step = "free" /\ call'[f].chain = o.chain
        /\ \A g \in Files \ {f} : call'[g] = call[g]
    BY <1>0, <2>1, <2>2 DEF Headed, Calls
  <2>4. inUse' = (inUse \union (IF r = EOF THEN {} ELSE {r})) \ {o.chain}
    BY <1>0, <2>1, <2>2
  <2>5. Apart' /\ Owned([own EXCEPT ![r] = f])'
    BY <1>0, <2>1, <2>2, <2>3, <2>4, Detach
  <2>6. QED
    BY <1>0, <2>5
<1>5. CASE TruncateAfter(f)
  <2> DEFINE next == FAT[o.chain].FATCluster
  <2>1. /\ o.step = "walk" /\ o.op = "truncate" /\ o.chain \in Clusters
        /\ FAT' = [FAT EXCEPT ![o.chain].FATCluster = EOF] /\ inUse' = inUse /\ hash' = hash
        /\ call' = [call EXCEPT ![f] = IF next \in Clusters
                                       THEN [o EXCEPT !.chain = next, !.step = "free"]
                                       ELSE Finished(o)]
    BY <1>5 DEF TruncateAfter, OnCluster, At, Goto, Truncates
  <2>2. /\ call'[f].head = o.head /\ call'[f].op = "truncate"
        /\ \/ next \in Clusters /\ call'[f].step = "free" /\ call'[f].chain = next
           \/ next \notin Clusters /\ call'[f].step = "return"
        /\ \A g \in Files \ {f} : call'[g] = call[g]
    BY <1>0, <2>1 DEF Finished, Calls
  <2>3. o.chain \in Clusters \ Free /\ own[o.chain] = f
    <3>1. o.chain # EOF
      BY <1>0, <2>1
    <3>2. o.chain \in Live /\ own[o.chain] = f
      BY <2>1, <3>1, Place
    <3>3. QED
      BY <1>0, <2>1, <3>2 DEF Live
  <2>4. Apart' /\ Owned(own)'
    BY <2>1, <2>2, <2>3, DetachAfter
  <2>5. QED
    BY <1>0, <2>4
<1>6. CASE TruncateSkip(f)
  <2> DEFINE p == Bump(o)
  <2>1. /\ o.step = "walk" /\ o.op = "truncate" /\ o.chain \in Clusters
        /\ FAT' = FAT /\ inUse' = inUse /\ hash' = hash
        /\ call' \in {[call EXCEPT ![f] = p], [call EXCEPT ![f] = Finished(p)]}
    BY <1>6 DEF TruncateSkip, OnCluster, At, Goto, Truncates
  <2>2. p \in Calls
    BY <1>0, <2>1, BumpType
  <2>3. /\ p.prev = o.chain /\ p.chain = FAT[o.chain].FATCluster /\ p.op = o.op
        /\ p.head = o.head /\ p.step \in {"walk", "return"}
    BY <1>0, <2>1, BumpFields
  <2> HIDE DEF p
  <2>4. /\ call'[f].prev = o.chain /\ call'[f].chain = FAT[o.chain].FATCluster
        /\ call'[f].op = "truncate" /\ call'[f].head = o.head
        /\ call'[f].step \in {"walk", "return"}
        /\ \A g \in Files \ {f} : call'[g] = call[g]
    BY <1>0, <2>1, <2>2, <2>3, EndFields
  <2>5. CallOwn(own, f)'
    BY <2>1, <2>4, Bumped
  <2>6. Head(f)' = Head(f)
    BY <2>1, <2>4 DEF Head
  <2>7. hash[f].TurboFATCluster = None
    BY <2>1 DEF Owned, TurboOwn
  <2>8. Apart' /\ Owned(own)'
    BY <2>1, <2>4, <2>5, <2>6, <2>7, Stay
  <2>9. QED
    BY <1>0, <2>8
<1>7. CASE TruncateRecord(f)
  <2>1. o.step = "walk" /\ o.op = "truncate" /\ o.chain \in Records /\ hash' = hash
    BY <1>7 DEF TruncateRecord, OnRecord, At, Truncates
  <2>2. ASSUME NEW y \in {EOF} \union (Records \ inUse),
               inUse' = (inUse \union (IF y = EOF THEN {} ELSE {y})) \ {o.chain},
               FAT' = Relinked(FAT, o, y), Goto(f, Finished(Headed(o, y)))
        PROVE  Apart' /\ \E w \in [Places -> Owners] : Owned(w)' /\ Extends(own, w, f)
    <3>1. /\ call'[f].head = Headed(o, y).head /\ call'[f].op = "truncate"
          /\ call'[f].step = "return"
          /\ \A g \in Files \ {f} : call'[g] = call[g]
      BY <1>0, <2>1, <2>2 DEF Goto, Finished, Headed, Calls
    <3>2. Apart' /\ Owned([own EXCEPT ![y] = f])'
      BY <1>0, <2>1, <2>2, <3>1, Detach
    <3>3. QED
      BY <1>0, <3>2
  <2>3. CASE \E r \in Records \ inUse :
               /\ inUse' = (inUse \union {r}) \ {o.chain}
               /\ FAT' = Relinked(FAT, o, r)
               /\ Goto(f, Finished(Headed(o, r)))
    BY <1>0, <2>2, <2>3
  <2>4. CASE /\ inUse' = inUse \ {o.chain}
             /\ FAT' = Relinked(FAT, o, EOF)
             /\ Goto(f, Finished(Headed(o, EOF)))
    BY <1>0, <2>2, <2>4
  <2>5. CASE Goto(f, Finished(o)) /\ UNCHANGED <<FAT, inUse>>
    <3>1. /\ call'[f].op = "truncate" /\ call'[f].head = o.head /\ call'[f].step = "return"
          /\ \A g \in Files \ {f} : call'[g] = call[g]
      BY <1>0, <2>1, <2>5, EndFields DEF Goto
    <3>2. CallOwn(own, f)' /\ Head(f)' = Head(f)
      BY <2>1, <3>1, Returned DEF Head
    <3>3. hash[f].TurboFATCluster = None
      BY <2>1 DEF Owned, TurboOwn
    <3>4. Apart' /\ Owned(own)'
      BY <2>1, <2>5, <3>1, <3>2, <3>3, Stay
    <3>5. QED
      BY <1>0, <3>4
  <2>6. QED
    BY <1>7, <2>3, <2>4, <2>5 DEF TruncateRecord
<1>8. CASE FreeChain(f)
  <2> DEFINE next == FAT[o.chain].FATCluster
  <2>1. /\ o.step = "free" /\ o.op = "truncate" /\ hash' = hash
        /\ FAT' = [FAT EXCEPT ![o.chain] = [FATIndex |-> 0, FATCluster |-> None]]
        /\ inUse' = inUse \ {next}
        /\ call' = [call EXCEPT ![f] = IF next \in Clusters \ Free
                                       THEN [o EXCEPT !.chain = next] ELSE Finished(o)]
    BY <1>8 DEF FreeChain, At, Goto, Truncates
  <2>2. o.chain \in Clusters \ Free /\ own[o.chain] = f
    BY <2>1 DEF Owned, CallsOwn, CallOwn
  <2>3. next \in Clusters => next \notin Free
    BY <1>0, <2>2 DEF Owned, LinksOwn, Live
  <2>4. /\ call'[f].head = o.head /\ call'[f].op = "truncate"
        /\ \/ next \in Clusters /\ call'[f].step = "free" /\ call'[f].chain = next
           \/ next \notin Clusters /\ call'[f].step = "return"
        /\ \A g \in Files \ {f} : call'[g] = call[g]
    BY <1>0, <2>1, <2>3 DEF Finished, Calls
  <2>5. Apart' /\ Owned(own)'
    BY <2>1, <2>2, <2>4, DetachAfter
  <2>6. QED
    BY <1>0, <2>5
<1>9. CASE TruncateReturn(f)
  <2>1. /\ FAT' = FAT /\ inUse' = inUse /\ o.step = "return" /\ o.op = "truncate"
        /\ call' = [call EXCEPT ![f] = NoCall]
        /\ hash' = [hash EXCEPT ![f].FirstBlock = o.head, ![f].FileSize = o.to]
    BY <1>9 DEF TruncateReturn, At, Goto, Truncates
  <2>2. /\ call'[f] = NoCall /\ NoCall.step = "idle" /\ NoCall.op = "none"
        /\ \A g \in Files \ {f} : call'[g] = call[g] /\ hash'[g] = hash[g]
        /\ hash'[f].TurboFATCluster = hash[f].TurboFATCluster
        /\ hash'[f].FirstBlock = o.head
    BY <1>0, <2>1 DEF NoCall, HASH
  <2>3. CallOwn(own, f)' /\ Head(f)' = Head(f)
    BY <2>1, <2>2, Returned DEF Head
  <2>4. Apart' /\ Owned(own)'
    BY <2>1, <2>2, <2>3, Stay
  <2>5. QED
    BY <1>0, <2>4
<1>10. QED
  BY <1>1, <1>2, <1>3, <1>4, <1>5, <1>6, <1>7, <1>8, <1>9 DEF TruncateClusterChain

\* What happened to a file is not forgotten.
LEMMA OrphansStay ==
  ASSUME [Next]_vars
  PROVE  orphaned \subseteq orphaned'
<1>1. ASSUME NEW f \in Files, NWWriteFile(f)
      PROVE  orphaned \subseteq orphaned'
  BY <1>1 DEF NWWriteFile, StartWrite, WriteHole, WriteHit, WriteSkip, WriteExtend, WriteTail,
              WriteConvert, WriteFails, WriteReturn, Misled
<1>2. ASSUME NEW f \in Files, NWReadFile(f)
      PROVE  orphaned \subseteq orphaned'
  BY <1>2 DEF NWReadFile, StartRead, ReadHole, ReadCluster, ReadEOF, ReadRecord, ReadReturn, Misled
<1>3. ASSUME NEW f \in Files, TruncateClusterChain(f)
      PROVE  orphaned \subseteq orphaned'
  BY <1>3 DEF TruncateClusterChain, Close, Truncate, TruncateCut, TruncateToRecord, TruncateAfter,
              TruncateSkip, TruncateRecord, FreeChain, TruncateReturn
<1>4. CASE UNCHANGED vars
  BY <1>4 DEF vars
<1>5. QED
  BY <1>1, <1>2, <1>3, <1>4 DEF Next

LEMMA ChainStep == TypeOK /\ ChainInv /\ [Next]_vars => ChainInv'
<1> SUFFICES ASSUME TypeOK, ChainInv, [Next]_vars, orphaned' = {}
             PROVE  Apart' /\ \E own \in [Places -> Owners] : Owned(own)'
  BY DEF ChainInv
<1>1. Apart /\ \E own \in [Places -> Owners] : Owned(own)
  BY OrphansStay DEF ChainInv
<1>2. PICK own \in [Places -> Owners] : Owned(own)
  BY <1>1
<1>3. TypeOK'
  BY TypeStep
<1>4. CASE \E f \in Files : NWWriteFile(f)
  BY <1>1, <1>2, <1>3, <1>4, WriteChains
<1>5. CASE \E f \in Files : NWReadFile(f)
  BY <1>1, <1>2, <1>3, <1>5, ReadChains
<1>6. CASE \E f \in Files : TruncateClusterChain(f)
  BY <1>1, <1>2, <1>3, <1>6, TruncateChains
<1>7. CASE UNCHANGED vars
  <2>1. Apart'
    BY <1>1, <1>7 DEF vars, Apart, LinksApart, HeadsApart, CutsApart, NothingLost, Free, Head, Cut
  <2>2. Owned(own)'
    BY <1>2, <1>7 DEF vars, Owned, LinksOwn, HeadsOwn, TurboOwn, CallsOwn, CallOwn, Free, Live,
                      Head, vindex
  <2>3. QED
    BY <2>1, <2>2
<1>8. QED
  BY <1>4, <1>5, <1>6, <1>7 DEF Next

LEMMA ChainInit == Init => ChainInv
<1> SUFFICES ASSUME Init PROVE Apart /\ \E own \in [Places -> Owners] : Owned(own)
  BY DEF ChainInv
<1>1. /\ Free = Clusters /\ \A f \in Files : Head(f) = EOF
      /\ \A f \in Files : call[f].step = "idle" /\ call[f].op = "none" /\ hash[f].TurboFATCluster = None
  BY DEF Init, Free, Head, NoCall
<1>2. Apart
  BY <1>1 DEF Apart, LinksApart, HeadsApart, CutsApart, NothingLost
<1>3. \A own : Owned(own)
  BY <1>1, Constants DEF Owned, LinksOwn, HeadsOwn, TurboOwn, CallsOwn, CallOwn
<1>4. [x \in Places |-> None] \in [Places -> Owners]
  BY DEF Owners
<1>5. QED
  BY <1>2, <1>3, <1>4

LEMMA ChainInvariant == Spec => [](TypeOK /\ ChainInv)
<1>1. Init => TypeOK /\ ChainInv
  BY TypeInit, ChainInit
<1>2. (TypeOK /\ ChainInv) /\ [Next]_vars => (TypeOK /\ ChainInv)'
  BY TypeStep, ChainStep
<1>3. QED
  BY <1>1, <1>2, PTL DEF Spec

LEMMA ApartNames ==
  ASSUME TypeOK, Apart, NEW own \in [Places -> Owners], Owned(own)
  PROVE  /\ \A c \in Free : Names(c) = {}
         /\ \A x \in Places : Names(x) # {} => x \in Live /\ NamedOnce(x)
         /\ \A c \in Clusters \ Free : Names(c) # {}
<1>0. EOF \notin Places /\ None \notin Places /\ Clusters \subseteq Places /\ Clusters \intersect Records = {}
  BY Constants DEF Places
<1>1. ASSUME NEW x \in Places, NEW n \in Names(x)
      PROVE  \/ \E c \in Clusters \ Free : n = <<"link", c>> /\ FAT[c].FATCluster = x /\ x \in Live
             \/ \E f \in Files : n = <<"head", f>> /\ Head(f) = x /\ x \in Live
             \/ \E f \in Files : n = <<"cut", f>> /\ Cut(f, x) /\ x \in Live
  BY <1>0, <1>1 DEF Names, Cut, Free, Live, Owned, LinksOwn, HeadsOwn, CallsOwn, CallOwn
<1>2. ASSUME NEW x \in Places, NEW n \in Names(x), NEW m \in Names(x)
      PROVE  n = m
  <2>1. CASE \E c \in Clusters \ Free : n = <<"link", c>> /\ FAT[c].FATCluster = x
    BY <1>0, <1>1, <2>1 DEF Apart, LinksApart, HeadsApart, CutsApart, Cut
  <2>2. CASE \E f \in Files : n = <<"head", f>> /\ Head(f) = x
    <3>1. PICK f \in Files : n = <<"head", f>> /\ Head(f) = x
      BY <2>2
    <3>2. own[x] = f
      BY <1>0, <3>1 DEF Owned, HeadsOwn
    <3>3. \A c \in Clusters \ Free : FAT[c].FATCluster # x
      BY <1>0, <3>1 DEF Apart, HeadsApart
    <3>4. \A g \in Files : ~Cut(g, x)
      BY <3>1, <3>2 DEF Cut, Apart, CutsApart, Owned, CallsOwn, CallOwn
    <3>5. \A g \in Files : Head(g) = x => g = f
      BY <1>0, <3>2 DEF Owned, HeadsOwn
    <3>6. QED
      BY <1>1, <3>1, <3>3, <3>4, <3>5
  <2>3. CASE \E f \in Files : n = <<"cut", f>> /\ Cut(f, x)
    <3>1. PICK f \in Files : n = <<"cut", f>> /\ Cut(f, x)
      BY <2>3
    <3>2. own[x] = f
      BY <3>1 DEF Owned, CallsOwn, CallOwn, Cut
    <3>3. \A c \in Clusters \ Free : FAT[c].FATCluster # x
      BY <3>1 DEF Apart, CutsApart, Cut
    <3>4. \A g \in Files : Cut(g, x) => g = f
      BY <3>2 DEF Cut, Owned, CallsOwn, CallOwn
    <3>5. \A g \in Files : Head(g) # x
      BY <1>0, <3>1, <3>2 DEF Owned, HeadsOwn, Apart, CutsApart, Cut
    <3>6. QED
      BY <1>1, <3>1, <3>3, <3>4, <3>5
  <2>4. QED
    BY <1>1, <2>1, <2>2, <2>3
<1>3. ASSUME NEW c \in Clusters \ Free PROVE Names(c) # {}
  <2>1. CASE \E d \in Clusters \ Free : FAT[d].FATCluster = c
    <3>1. PICK d \in Clusters \ Free : FAT[d].FATCluster = c
      BY <2>1
    <3>2. <<"link", d>> \in Names(c)
      BY <3>1 DEF Names, Free
    <3>3. QED
      BY <3>2
  <2>2. CASE \E f \in Files : Head(f) = c
    <3>1. PICK f \in Files : Head(f) = c
      BY <2>2
    <3>2. <<"head", f>> \in Names(c)
      BY <3>1 DEF Names
    <3>3. QED
      BY <3>2
  <2>3. CASE \E f \in Files : Cut(f, c)
    <3>1. PICK f \in Files : Cut(f, c)
      BY <2>3
    <3>2. <<"cut", f>> \in Names(c)
      BY <3>1 DEF Names, Cut
    <3>3. QED
      BY <3>2
  <2>4. QED
    BY <2>1, <2>2, <2>3 DEF Apart, NothingLost
<1>4. ASSUME NEW c \in Free PROVE Names(c) = {}
  <2>1. c \in Places /\ c \notin Live
    BY <1>0 DEF Free, Live, TypeOK
  <2>2. QED
    BY <1>1, <2>1
<1>5. ASSUME NEW x \in Places, Names(x) # {} PROVE x \in Live /\ NamedOnce(x)
  <2>1. PICK n : n \in Names(x)
    BY <1>5
  <2>2. Names(x) = {n}
    BY <1>2, <2>1
  <2>3. x \in Live
    BY <1>1, <2>1
  <2>4. QED
    BY <2>1, <2>2, <2>3 DEF NamedOnce
<1>6. QED
  BY <1>3, <1>4, <1>5

\* An allocated cluster is named once, by the cluster before it, by the head of
\* its file or by the truncate that has cut it off, and a free one is not: writes,
\* reads and truncates of any number of files, interleaved at every cluster,
\* neither share nor lose a cluster, nor use it after they freed it.
THEOREM ChainsStayApart == Spec => []ClustersInOneChain
<1>1. TypeOK /\ ChainInv => ClustersInOneChain
  <2>1. ASSUME TypeOK, ChainInv, orphaned = {}
        PROVE  /\ \A c \in Free : Names(c) = {}
               /\ \A c \in Clusters \ Free : NamedOnce(c)
    BY <2>1, ApartNames DEF ChainInv, Places
  <2>2. QED
    BY <2>1 DEF ClustersInOneChain
<1>2. QED
  BY <1>1, ChainInvariant, PTL

\* A suballocation record that ends a chain is in use and ends no other chain.
THEOREM RecordsHaveOneOwner == Spec => []RecordsOwned
<1>1. TypeOK /\ ChainInv => RecordsOwned
  <2>1. ASSUME TypeOK, ChainInv, orphaned = {}, NEW r \in Records, Names(r) # {}
        PROVE  r \in inUse /\ NamedOnce(r)
    <3>1. r \in Live /\ NamedOnce(r)
      BY <2>1, ApartNames DEF ChainInv, Places
    <3>2. QED
      BY <3>1, Constants DEF Live
  <2>2. QED
    BY <2>1 DEF RecordsOwned
<1>2. QED
  BY <1>1, ChainInvariant, PTL

-----------------------------------------------------------------------------
(***************************************************************************)
(* The clusters of a chain are in the order of the file.  A write puts its *)
(* new cluster between the cluster before it and the one it has come to,   *)
(* so the invariant says where it stands: the cluster before it lies       *)
(* before what it wants, and the index it has read is that of the cluster  *)
(* it has come to.  That no other call changes them follows from the       *)
(* assignment of places to files.                                          *)
(***************************************************************************)
\* A write that has come to a cluster knows its index.
Here(o) == o.chain \in Clusters => o.index = FAT[o.chain].FATIndex

\* The cluster it came from lies before what it wants, and before the record it
\* has come to.
Before(o) ==
  o.prev # None =>
    /\ left(o) > 0 => FAT[o.prev].FATIndex < vindex(o)
    /\ o.chain \in Records => FAT[o.prev].FATIndex < o.index

\* It does not go on past the last cluster for nothing.
Wants(o) == left(o) >= 0 /\ (o.chain \notin Clusters => left(o) > 0)

Writing(o) == o.step = "walk" /\ o.op \in Writes
Placed(o)  == Writing(o) => Here(o) /\ Before(o) /\ Wants(o)

AllPlaced == \A f \in Files : Placed(call[f])

Rising ==
  \A c, d \in Clusters :
    FAT[c].FATCluster = d /\ d \notin Free => FAT[c].FATIndex < FAT[d].FATIndex

OrderInv == orphaned = {} => Rising /\ AllPlaced

LEMMA Division ==
  ASSUME NEW a \in Nat, NEW s \in Nat, s > 0
  PROVE  /\ a \div s \in Nat /\ a % s \in Nat /\ a % s < s
         /\ a = s * (a \div s) + (a % s)
<1>1. a \div s \in Nat /\ a % s \in Nat
  OBVIOUS
<1>2. a % s < s
  OBVIOUS
<1>3. a = s * (a \div s) + (a % s)
  OBVIOUS
<1>4. QED
  BY <1>1, <1>2, <1>3

LEMMA Multiples ==
  ASSUME NEW s \in Nat, NEW i \in Nat, NEW k \in Nat
  PROVE  /\ s * i \in Nat
         /\ s * (i + 1) = s * i + s
         /\ i <= k => s * i <= s * k
<1>1. s * i \in Nat
  OBVIOUS
<1>2. s * (i + 1) = s * i + s
  OBVIOUS
<1>3. ASSUME i <= k PROVE s * i <= s * k
  BY <1>3
<1>4. QED
  BY <1>1, <1>2, <1>3

\* Moving to the end of a cluster goes to the next one.
LEMMA ClusterEnd ==
  ASSUME NEW a \in Nat, NEW z \in Nat, NEW s \in Nat, s > 0, z = a + (s - (a % s))
  PROVE  a \div s < z \div s
<1> DEFINE i == a \div s
           k == z \div s
<1>1. i \in Nat /\ a % s \in Nat /\ a = s * i + (a % s)
  BY Division
<1>2. k \in Nat /\ z % s \in Nat /\ z % s < s /\ z = s * k + (z % s)
  BY Division
<1> HIDE DEF i, k
<1>3. ASSUME k <= i PROVE FALSE
  <2>1. s * k \in Nat /\ s * i \in Nat /\ s * k <= s * i
    BY <1>1, <1>2, <1>3, Multiples
  <2> DEFINE sk == s * k
             si == s * i
             r  == a % s
             t  == z % s
  <2>2. /\ sk \in Nat /\ si \in Nat /\ sk <= si /\ r \in Nat /\ t \in Nat /\ t < s
        /\ a = si + r /\ z = sk + t
    BY <1>1, <1>2, <2>1
  <2>4. z = a + (s - r)
    OBVIOUS
  <2> HIDE DEF sk, si, r, t
  <2>3. QED
    BY <2>2, <2>4
<1>4. QED
  BY <1>1, <1>2, <1>3 DEF i, k

\* A call that has moved over what it wants of a cluster, and wants more, wants
\* it of a later one.
LEMMA NextCluster ==
  ASSUME NEW o \in Calls, NEW p \in Calls, left(o) > 0,
         p.pos = o.pos + vsize(o), p.to = o.to, left(p) > 0
  PROVE  vindex(o) < vindex(p)
<1>1. o.pos \in Nat /\ p.pos \in Nat /\ o.to \in Nat /\ ClusterSize \in Nat /\ ClusterSize > 0
  BY Constants DEF Calls
<1>2. vsize(o) # left(o) /\ vsize(o) = ClusterSize - voffset(o)
  <2>1. left(p) = o.to - (o.pos + vsize(o)) /\ left(o) = o.to - o.pos /\ vsize(o) \in Int
    BY CallSizes DEF left
  <2>2. vsize(o) # left(o)
    BY <1>1, <2>1
  <2>3. QED
    BY <2>2 DEF vsize
<1>3. p.pos = o.pos + (ClusterSize - (o.pos % ClusterSize))
  BY <1>2 DEF voffset
<1>4. o.pos \div ClusterSize < p.pos \div ClusterSize
  <2> DEFINE a == o.pos
             z == p.pos
             s == ClusterSize
  <2>1. a \in Nat /\ z \in Nat /\ s \in Nat /\ s > 0 /\ z = a + (s - (a % s))
    BY <1>1, <1>3
  <2> HIDE DEF a, z, s
  <2>2. a \div s < z \div s
    BY <2>1, ClusterEnd
  <2>3. QED
    BY <2>2 DEF a, z, s
<1>5. QED
  BY <1>4 DEF vindex

\* What another call does to its file moves nothing of this one.
LEMMA OthersPlaced ==
  ASSUME TypeOK, NEW own \in [Places -> Owners], Owned(own),
         NEW g \in Files, Placed(call[g]), call'[g] = call[g],
         \A x \in Clusters \ Free : own[x] = g => FAT'[x].FATIndex = FAT[x].FATIndex
  PROVE  Placed(call[g])'
<1> DEFINE o == call[g]
<1> SUFFICES ASSUME Writing(o) PROVE (Here(o) /\ Before(o) /\ Wants(o))'
  BY DEF Placed, Writing
<1>1. Here(o) /\ Before(o) /\ Wants(o) /\ CallOwn(own, g) /\ o.step = "walk"
  BY DEF Placed, Writing, Owned, CallsOwn
<1>2. o.chain \in Clusters => FAT'[o.chain].FATIndex = FAT[o.chain].FATIndex
  <2>1. EOF \notin Clusters /\ (o.chain \in Clusters /\ o.chain \in Live => o.chain \in Clusters \ Free)
    BY Constants DEF Places, Live, TypeOK
  <2>2. QED
    BY <1>1, <2>1 DEF CallOwn
<1>3. o.prev # None => FAT'[o.prev].FATIndex = FAT[o.prev].FATIndex
  BY <1>1 DEF CallOwn
<1>4. Here(o)'
  BY <1>1, <1>2 DEF Here
<1>5. Before(o)'
  BY <1>1, <1>3 DEF Before, left, vindex
<1>6. Wants(o)'
  BY <1>1 DEF Wants, left
<1>7. QED
  BY <1>4, <1>5, <1>6

\* A call cuts its chain, frees a cluster of it, or leaves it as it is.
LEMMA OrderKept ==
  ASSUME TypeOK, NEW own \in [Places -> Owners], Owned(own), NEW f \in Files,
         Rising, AllPlaced,
         \A c \in Clusters : FAT'[c] = FAT[c] \/ FAT'[c].FATCluster \notin Clusters,
         \A c \in Clusters \ Free' : c \notin Free /\ FAT'[c].FATIndex = FAT[c].FATIndex,
         \A c \in Clusters \ Free : own[c] # f => FAT'[c].FATIndex = FAT[c].FATIndex,
         \A g \in Files \ {f} : call'[g] = call[g],
         Placed(call[f])'
  PROVE  Rising' /\ AllPlaced'
<1>1. ASSUME NEW c \in Clusters, NEW d \in Clusters, FAT'[c].FATCluster = d, d \notin Free'
      PROVE  FAT'[c].FATIndex < FAT'[d].FATIndex
  BY <1>1 DEF Rising
<1>2. ASSUME NEW g \in Files \ {f} PROVE Placed(call[g])'
  BY OthersPlaced, <1>2 DEF AllPlaced
<1>3. QED
  BY <1>1, <1>2 DEF Rising, AllPlaced

\* A call that no longer writes stands nowhere that matters.
LEMMA NotWriting ==
  ASSUME NEW f \in Files, call'[f].step # "walk" \/ call'[f].op \notin Writes
  PROVE  Placed(call[f])'
BY DEF Placed, Writing

\* A call that works at a place of its file, and where it may be.
LEMMA Standing ==
  ASSUME TypeOK, NEW own \in [Places -> Owners], Owned(own), AllPlaced,
         NEW f \in Files, Writing(call[f])
  PROVE  /\ Here(call[f]) /\ Before(call[f]) /\ Wants(call[f])
         /\ call[f] \in Calls /\ call[f].step = "walk"
         /\ call[f].chain \in Clusters =>
              call[f].chain \notin Free /\ call[f].index = FAT[call[f].chain].FATIndex
         /\ call[f].prev \in Clusters \union {None}
         /\ call[f].index \in Nat /\ vindex(call[f]) \in Nat
<1>1. Placed(call[f]) /\ call[f] \in Calls /\ CallOwn(own, f)
  BY DEF AllPlaced, TypeOK, Owned, CallsOwn
<1>2. call[f].chain \in Clusters => call[f].chain \notin Free
  BY <1>1, Constants DEF CallOwn, Writing, Live, TypeOK, Places
<1>3. QED
  BY <1>1, <1>2, CallSizes DEF Placed, Writing, Here, Calls

\* A write has put cluster c into the chain and moved on by n units.
LEMMA MovedHeaded ==
  ASSUME NEW o \in Calls, NEW c \in Free
  PROVE  /\ [Moved(Headed(o, c), vsize(o)) EXCEPT !.prev = c] \in Calls
         /\ [Moved(Headed(o, c), vsize(o)) EXCEPT !.prev = c, !.chain = EOF] \in Calls
         /\ [Moved(Headed(o, c), 0) EXCEPT !.prev = c, !.chain = EOF] \in Calls
<1>1. c \in Clusters /\ c \in Links /\ EOF \in Links
  BY DEF Free, Links
<1>2. Headed(o, c) \in Calls /\ Headed(o, c).pos = o.pos
  BY <1>1, CallTypes DEF Headed, Calls
<1>3. vsize(o) \in Int /\ o.pos + vsize(o) \in Nat /\ o.pos + 0 \in Nat
  BY CallSizes DEF Calls
<1>4. ASSUME NEW m \in Calls
      PROVE  [m EXCEPT !.prev = c] \in Calls /\ [m EXCEPT !.prev = c, !.chain = EOF] \in Calls
  <2>1. [m EXCEPT !.prev = c] \in Calls
    BY <1>1, CallTypes
  <2>2. [[m EXCEPT !.prev = c] EXCEPT !.chain = EOF] \in Calls
    BY <1>1, <2>1, CallTypes
  <2>3. QED
    BY <2>1, <2>2
<1>5. Moved(Headed(o, c), vsize(o)) \in Calls /\ Moved(Headed(o, c), 0) \in Calls
  <2> DEFINE h == Headed(o, c)
  <2>1. h \in Calls /\ h.pos + vsize(o) \in Nat /\ h.pos + 0 \in Nat
    BY <1>2, <1>3
  <2> HIDE DEF h
  <2>2. Moved(h, vsize(o)) \in Calls
    BY <1>3, <2>1, CallTypes
  <2>3. Moved(h, 0) \in Calls
    <3>1. 0 \in Int
      OBVIOUS
    <3>2. QED
      BY <2>1, <3>1, CallTypes
  <2>4. QED
    BY <2>2, <2>3 DEF h
<1>6. QED
  BY <1>4, <1>5

\* A call goes to the next link with something left, past what it has done.
LEMMA BumpPlaced ==
  ASSUME TypeOK, NEW f \in Files, NEW o \in Calls, o.chain \in Clusters,
         o.index = FAT[o.chain].FATIndex, left(o) > 0 => o.index < vindex(o),
         left(o) >= 0, call'[f] = AfterCluster(o), FAT' = FAT
  PROVE  Placed(call[f])'
<1> DEFINE q == Bump(o)
           p == EndIfDone(q)
           x == FAT[o.chain].FATCluster
<1>1. /\ q.prev = o.chain /\ q.chain = x /\ q.pos = o.pos /\ q.to = o.to
      /\ q.index = IF x \in Clusters THEN FAT[x].FATIndex ELSE o.index + 1
  BY DEF Bump, Arrive, Calls
<1>2. q \in Calls
  BY BumpType
<1> HIDE DEF q
<1>3. /\ p.prev = q.prev /\ p.chain = q.chain /\ p.pos = q.pos /\ p.to = q.to /\ p.index = q.index
      /\ p.step = "walk" => left(q) # 0
  BY <1>2 DEF EndIfDone, Finished, Calls
<1>4. call'[f] = p
  BY DEF AfterCluster, q
<1> HIDE DEF p
<1>5. /\ left(p) = left(o) /\ left(q) = left(o) /\ vindex(p) = vindex(o) /\ o.index \in Nat
  BY <1>1, <1>3 DEF left, vindex, Calls
<1>6. ASSUME p.step = "walk" PROVE left(o) > 0
  BY <1>3, <1>5, <1>6, CallSizes
<1>7. ASSUME p.step = "walk"
      PROVE  /\ p.chain \in Clusters => p.index = FAT[p.chain].FATIndex
             /\ FAT[p.prev].FATIndex < vindex(p)
             /\ p.chain \in Records => FAT[p.prev].FATIndex < p.index
             /\ left(p) > 0
  <2>1. p.chain \in Clusters => p.index = FAT[p.chain].FATIndex
    BY <1>1, <1>3
  <2>2. FAT[p.prev].FATIndex < vindex(p)
    BY <1>1, <1>3, <1>5, <1>6, <1>7
  <2>3. p.chain \in Records => FAT[p.prev].FATIndex < p.index
    BY <1>1, <1>3, <1>5, Constants
  <2>4. left(p) > 0
    BY <1>5, <1>6, <1>7
  <2>5. QED
    BY <2>1, <2>2, <2>3, <2>4
<1>8. left(p) = p.to - p.pos /\ vindex(p) = p.pos \div ClusterSize
  BY DEF left, vindex
<1>9. left(p) \in Int
  BY <1>2, <1>5, CallSizes
<1>10. QED
  BY <1>4, <1>7, <1>8, <1>9 DEF Placed, Writing, Here, Before, Wants, left, vindex

\* A write puts cluster c, of index i, between the cluster before it and x.
LEMMA OrderInserted ==
  ASSUME TypeOK, NEW own \in [Places -> Owners], Owned(own), NEW f \in Files,
         Rising, AllPlaced, Writing(call[f]),
         NEW c \in Free, NEW x \in Clusters \union {EOF}, NEW i \in Nat, NEW p \in Calls,
         FAT' = Relinked([FAT EXCEPT ![c] = [FATIndex |-> i, FATCluster |-> x]], call[f], c),
         x \in Clusters => x \notin Free /\ i < FAT[x].FATIndex,
         call[f].prev # None => FAT[call[f].prev].FATIndex < i,
         \A g \in Files \ {f} : call'[g] = call[g],
         call'[f] = p, p.prev = c, p.chain = x,
         x \in Clusters => p.index = FAT[x].FATIndex,
         p.step = "walk" => /\ left(p) >= 0
                            /\ left(p) > 0 => i < vindex(p)
                            /\ x = EOF => left(p) > 0
  PROVE  Rising' /\ AllPlaced'
<1> DEFINE o == call[f]
<1>0. /\ c \in Clusters /\ FAT \in [Clusters -> FAT_ENTRY] /\ o.prev \in Clusters \union {None}
      /\ None \notin Clusters /\ EOF \notin Clusters /\ x # None /\ c # None
      /\ o.prev # None => o.prev \in Clusters \ Free
      /\ i \in Nat /\ x \in Links
      /\ \A d \in Clusters : FAT[d].FATIndex \in Nat
  BY Constants DEF TypeOK, FAT_ENTRY, Free, Places, Links, Calls, Owned, CallsOwn, CallOwn, Writing
<1>1. /\ FAT'[c].FATIndex = i /\ FAT'[c].FATCluster = x
      /\ \A d \in Clusters \ {c} : FAT'[d].FATIndex = FAT[d].FATIndex
      /\ \A d \in Clusters \ {c} : FAT'[d].FATCluster = FAT[d].FATCluster
                                   \/ (d = o.prev /\ FAT'[d].FATCluster = c)
  <2> DEFINE new == [FAT EXCEPT ![c] = [FATIndex |-> i, FATCluster |-> x]]
  <2>1. /\ new[c].FATIndex = i /\ new[c].FATCluster = x
        /\ \A d \in Clusters \ {c} : new[d] = FAT[d]
        /\ new \in [Clusters -> FAT_ENTRY]
    BY <1>0 DEF FAT_ENTRY
  <2>2. FAT' = Relinked(new, o, c)
    OBVIOUS
  <2> HIDE DEF new
  <2>3. CASE o.prev = None
    BY <1>0, <2>1, <2>2, <2>3 DEF Relinked
  <2>4. CASE o.prev # None
    <3>1. FAT' = [new EXCEPT ![o.prev].FATCluster = c] /\ o.prev \in Clusters /\ o.prev # c
      BY <1>0, <2>2, <2>4 DEF Relinked, Free
    <3>2. /\ \A d \in Clusters \ {o.prev} : FAT'[d] = new[d]
          /\ FAT'[o.prev] = [new[o.prev] EXCEPT !.FATCluster = c]
      BY <2>1, <3>1
    <3>3. new[o.prev] \in FAT_ENTRY
      BY <2>1, <3>1
    <3>4. FAT'[o.prev].FATIndex = new[o.prev].FATIndex /\ FAT'[o.prev].FATCluster = c
      BY <3>2, <3>3 DEF FAT_ENTRY
    <3>5. FAT'[c].FATIndex = i /\ FAT'[c].FATCluster = x
      BY <1>0, <2>1, <3>1, <3>2
    <3>6. ASSUME NEW d \in Clusters \ {c}
          PROVE  /\ FAT'[d].FATIndex = FAT[d].FATIndex
                 /\ FAT'[d].FATCluster = FAT[d].FATCluster
                    \/ (d = o.prev /\ FAT'[d].FATCluster = c)
      <4>1. CASE d = o.prev
        BY <2>1, <3>1, <3>4, <4>1
      <4>2. CASE d # o.prev
        BY <2>1, <3>2, <3>6, <4>2
      <4>3. QED
        BY <4>1, <4>2
    <3>7. QED
      BY <3>5, <3>6
  <2>5. QED
    BY <2>3, <2>4
<1>2. \A d \in Clusters : FAT[d].FATCluster # c
  <2>1. ASSUME NEW d \in Clusters \ Free PROVE FAT[d].FATCluster # c
    BY <1>0, Constants DEF Owned, LinksOwn, Live, TypeOK, Places
  <2>2. QED
    BY <1>0, <2>1 DEF Free
<1>3. ASSUME NEW b \in Clusters, NEW d \in Clusters, FAT'[b].FATCluster = d, d \notin Free'
      PROVE  FAT'[b].FATIndex < FAT'[d].FATIndex
  <2>1. CASE b = c
    <3>1. d = x /\ d # c
      BY <1>1, <1>3, <2>1
    <3>2. FAT'[d].FATIndex = FAT[d].FATIndex /\ FAT'[b].FATIndex = i
      BY <1>1, <2>1, <3>1
    <3>3. QED
      BY <3>1, <3>2
  <2>2. CASE b # c /\ FAT'[b].FATCluster = FAT[b].FATCluster
    <3>1. d # c /\ FAT[b].FATCluster = d
      BY <1>2, <1>3, <2>2
    <3>2. d \notin Free
      <4>1. CASE d = o.prev
        BY <1>0, <4>1
      <4>2. CASE d # o.prev
        BY <1>1, <1>3, <3>1, <4>2 DEF Free
      <4>3. QED
        BY <4>1, <4>2
    <3>3. FAT[b].FATIndex < FAT[d].FATIndex
      BY <3>1, <3>2 DEF Rising
    <3>4. FAT'[b].FATIndex = FAT[b].FATIndex /\ FAT'[d].FATIndex = FAT[d].FATIndex
      BY <1>1, <2>2, <3>1
    <3>5. QED
      BY <3>3, <3>4
  <2>3. CASE b # c /\ b = o.prev /\ FAT'[b].FATCluster = c
    <3>1. FAT[b].FATIndex < i
      BY <1>0, <2>3
    <3>2. FAT'[b].FATIndex = FAT[b].FATIndex /\ FAT'[d].FATIndex = i
      BY <1>1, <1>3, <2>3
    <3>3. QED
      BY <3>1, <3>2
  <2>4. QED
    BY <1>1, <2>1, <2>2, <2>3
<1>4. ASSUME NEW g \in Files \ {f} PROVE Placed(call[g])'
  <2>1. \A d \in Clusters \ Free : FAT'[d].FATIndex = FAT[d].FATIndex
    BY <1>1
  <2>2. QED
    BY <2>1, OthersPlaced, <1>4 DEF AllPlaced
<1>5. Placed(call[f])'
  <2>1. left(p) = p.to - p.pos /\ vindex(p) = p.pos \div ClusterSize
    BY DEF left, vindex
  <2>2. x \in Clusters => FAT'[x].FATIndex = FAT[x].FATIndex
    BY <1>0, <1>1
  <2>3. x \notin Records
    BY Constants DEF Places
  <2>4. QED
    BY <1>1, <2>1, <2>2, <2>3 DEF Placed, Writing, Here, Before, Wants, left, vindex
<1>6. QED
  BY <1>3, <1>4, <1>5 DEF Rising, AllPlaced

-----------------------------------------------------------------------------
(* The steps *)

LEMMA WriteOrder ==
  ASSUME TypeOK, NEW own \in [Places -> Owners], Apart, Owned(own), Rising, AllPlaced,
         NEW f \in Files, NWWriteFile(f), orphaned' = {}
  PROVE  Rising' /\ AllPlaced'
<1> DEFINE o == call[f]
<1>0. o \in Calls /\ call \in [Files -> Calls] /\ FAT \in [Clusters -> FAT_ENTRY]
  BY DEF TypeOK
<1>1. CASE StartWrite(f)
  <2>1. PICK op \in Writes, e \in Extents :
          Goto(f, Started(f, [NoCall EXCEPT !.op = op, !.from = e[1], !.to = e[1] + e[2],
                                            !.pos = e[1], !.number = calls + 1]))
    BY <1>1 DEF StartWrite
  <2> DEFINE r == [NoCall EXCEPT !.op = op, !.from = e[1], !.to = e[1] + e[2],
                                 !.pos = e[1], !.number = calls + 1]
             p == Started(f, r)
  <2>2. e[1] \in Nat /\ e[2] \in Nat /\ e[2] > 0
    BY FileConstants
  <2>3. /\ p.prev = None /\ p.pos = e[1] /\ p.to = e[1] + e[2]
        /\ p.chain \in Clusters => p.index = FAT[p.chain].FATIndex
    BY DEF Started, Arrive, NoCall
  <2>4. call' = [call EXCEPT ![f] = p] /\ FAT' = FAT
    BY <1>1, <2>1 DEF Goto, StartWrite
  <2> HIDE DEF p
  <2>5. call'[f] = p /\ \A g \in Files \ {f} : call'[g] = call[g]
    BY <1>0, <2>4
  <2>6. Placed(call[f])'
    BY <2>2, <2>3, <2>4, <2>5 DEF Placed, Writing, Here, Before, Wants, left
  <2>7. QED
    BY <2>4, <2>5, <2>6, OrderKept DEF Free
<1>2. CASE WriteHole(f)
  <2>1. PICK c \in Free :
          /\ FAT' = Relinked([FAT EXCEPT ![c] = [FATIndex   |-> vindex(o),
                                                 FATCluster |-> o.chain]], o, c)
          /\ Goto(f, [Moved(Headed(o, c), vsize(o)) EXCEPT !.prev = c])
    BY <1>2 DEF WriteHole
  <2>2. Writing(o) /\ o.chain \in Clusters /\ vindex(o) < o.index /\ left(o) > 0
    BY <1>2 DEF WriteHole, OnCluster, At, Writing
  <2>3. /\ Before(o) /\ o.chain \notin Free /\ o.index = FAT[o.chain].FATIndex /\ vindex(o) \in Nat
        /\ o.step = "walk"
    BY <2>2, Standing
  <2> DEFINE p == [Moved(Headed(o, c), vsize(o)) EXCEPT !.prev = c]
  <2>4. /\ p.prev = c /\ p.chain = o.chain /\ p.index = o.index
        /\ p.pos = o.pos + vsize(o) /\ p.to = o.to
    BY <1>0 DEF Moved, Headed, Calls
  <2>5. p \in Calls
    BY <1>0, MovedHeaded
  <2>6. call'[f] = p /\ \A g \in Files \ {f} : call'[g] = call[g]
    BY <1>0, <2>1 DEF Goto
  <2> HIDE DEF p
  <2>7. left(p) >= 0
    BY <1>0, <2>4, CallSizes DEF left, Calls
  <2>8. left(p) > 0 => vindex(o) < vindex(p)
    BY <1>0, <2>2, <2>4, <2>5, NextCluster
  <2>9. o.prev # None => FAT[o.prev].FATIndex < vindex(o)
    BY <2>2, <2>3 DEF Before
  <2>10. o.chain # EOF
    BY <2>2, Constants DEF Places
  <2>11. QED
    BY <2>1, <2>2, <2>3, <2>4, <2>5, <2>6, <2>7, <2>8, <2>9, <2>10, OrderInserted
<1>3. CASE WriteHit(f)
  <2> DEFINE q == Moved(o, vsize(o))
  <2>1. /\ Writing(o) /\ o.chain \in Clusters /\ vindex(o) = o.index /\ left(o) > 0
        /\ FAT' = FAT /\ call' = [call EXCEPT ![f] = AfterCluster(q)]
    BY <1>3 DEF WriteHit, OnCluster, At, Writing, Goto
  <2>2. o.index = FAT[o.chain].FATIndex
    BY <2>1, Standing
  <2>3. vsize(o) \in Int /\ o.pos + vsize(o) \in Nat /\ vsize(o) <= left(o)
    BY <1>0, CallSizes
  <2>4. /\ q \in Calls /\ q.chain = o.chain /\ q.index = o.index
        /\ q.pos = o.pos + vsize(o) /\ q.to = o.to
    BY <1>0, <2>3, CallTypes DEF Moved, Calls
  <2> HIDE DEF q
  <2>5. left(q) >= 0
    BY <1>0, <2>4, CallSizes DEF left, Calls
  <2>6. left(q) > 0 => q.index < vindex(q)
    BY <1>0, <2>1, <2>4, NextCluster
  <2>7. call'[f] = AfterCluster(q) /\ \A g \in Files \ {f} : call'[g] = call[g]
    BY <1>0, <2>1
  <2>8. Placed(call[f])'
    BY <2>1, <2>2, <2>4, <2>5, <2>6, <2>7, BumpPlaced
  <2>9. QED
    BY <2>1, <2>7, <2>8, OrderKept DEF Free
<1>4. CASE WriteSkip(f)
  <2>1. /\ Writing(o) /\ o.chain \in Clusters /\ (left(o) = 0 \/ vindex(o) > o.index)
        /\ FAT' = FAT /\ call' = [call EXCEPT ![f] = AfterCluster(o)]
    BY <1>4 DEF WriteSkip, OnCluster, At, Writing, Goto
  <2>2. o.index = FAT[o.chain].FATIndex /\ Wants(o) /\ o.index \in Nat /\ vindex(o) \in Nat
    BY <2>1, Standing
  <2>3. left(o) >= 0 /\ (left(o) > 0 => o.index < vindex(o))
    BY <2>1, <2>2 DEF Wants
  <2>4. call'[f] = AfterCluster(o) /\ \A g \in Files \ {f} : call'[g] = call[g]
    BY <1>0, <2>1
  <2>5. Placed(call[f])'
    BY <1>0, <2>1, <2>2, <2>3, <2>4, BumpPlaced
  <2>6. QED
    BY <2>1, <2>4, <2>5, OrderKept DEF Free
<1>5. CASE WriteExtend(f)
  <2>1. PICK c \in Free :
          /\ FAT' = Relinked([FAT EXCEPT ![c] = [FATIndex   |-> vindex(o),
                                                 FATCluster |-> EOF]], o, c)
          /\ Goto(f, EndIfDone([Moved(Headed(o, c), vsize(o)) EXCEPT !.prev = c]))
    BY <1>5 DEF WriteExtend
  <2>2. Writing(o) /\ o.chain = EOF
    BY <1>5 DEF WriteExtend, OnEOF, At, Writing
  <2>3. /\ Before(o) /\ Wants(o) /\ vindex(o) \in Nat /\ EOF \notin Clusters
    BY <2>2, Standing, Constants DEF Places
  <2>4. left(o) > 0
    BY <2>2, <2>3 DEF Wants
  <2> DEFINE m == [Moved(Headed(o, c), vsize(o)) EXCEPT !.prev = c]
             p == EndIfDone(m)
  <2>5. m \in Calls
    BY <1>0, MovedHeaded
  <2>6. m.prev = c /\ m.chain = EOF /\ m.pos = o.pos + vsize(o) /\ m.to = o.to
    BY <1>0, <2>2 DEF Moved, Headed, Calls
  <2>7. call' = [call EXCEPT ![f] = p]
    BY <2>1 DEF Goto
  <2> HIDE DEF m
  <2>8. p \in Calls
    BY <2>5, CallTypes
  <2>9. /\ p.prev = c /\ p.chain = EOF /\ p.pos = m.pos /\ p.to = o.to
        /\ p.step = "walk" => left(m) # 0
    BY <2>5, <2>6 DEF EndIfDone, Finished, Calls
  <2> HIDE DEF p
  <2>10. call'[f] = p /\ \A g \in Files \ {f} : call'[g] = call[g]
    BY <1>0, <2>7
  <2>11. left(p) >= 0 /\ left(m) = left(p)
    BY <1>0, <2>6, <2>9, CallSizes DEF left, Calls
  <2>12. left(p) > 0 => vindex(o) < vindex(p)
    BY <1>0, <2>4, <2>6, <2>8, <2>9, NextCluster
  <2>13. p.step = "walk" => left(p) > 0
    BY <2>8, <2>9, <2>11, CallSizes
  <2>14. o.prev # None => FAT[o.prev].FATIndex < vindex(o)
    BY <2>3, <2>4 DEF Before
  <2>15. QED
    BY <2>1, <2>2, <2>3, <2>8, <2>9, <2>10, <2>11, <2>12, <2>13, <2>14, OrderInserted
<1>6. CASE WriteTail(f) \/ WriteFails(f)
  <2>1. /\ FAT' = FAT
        /\ \/ call' = [call EXCEPT ![f] = Finished(Moved(o, left(o)))]
           \/ call' = [call EXCEPT ![f] = Failed(o)]
    BY <1>6 DEF WriteTail, WriteFails, Goto
  <2>2. call'[f].step = "return" /\ \A g \in Files \ {f} : call'[g] = call[g]
    <3>1. CASE call' = [call EXCEPT ![f] = Failed(o)]
      BY <1>0, <3>1 DEF Failed, Calls
    <3>2. CASE call' = [call EXCEPT ![f] = Finished(Moved(o, left(o)))]
      BY <1>0, <3>2 DEF Finished, Moved, Calls
    <3>3. QED
      BY <2>1, <3>1, <3>2
  <2>3. Placed(call[f])'
    BY <2>2, NotWriting
  <2>4. QED
    BY <2>1, <2>2, <2>3, OrderKept DEF Free
<1>7. CASE WriteConvert(f)
  <2> DEFINE n == IF vindex(o) = o.index THEN vsize(o) ELSE 0
  <2>1. PICK c \in Free :
          /\ FAT' = Relinked([FAT EXCEPT ![c] = [FATIndex   |-> o.index,
                                                 FATCluster |-> EOF]], o, c)
          /\ Goto(f, EndIfDone([Moved(Headed(o, c), n) EXCEPT !.prev = c, !.chain = EOF]))
    BY <1>7 DEF WriteConvert
  <2>2. Writing(o) /\ o.chain \in Records /\ vindex(o) >= o.index
    BY <1>7 DEF WriteConvert, OnRecord, At, Writing
  <2>3. /\ Before(o) /\ Wants(o) /\ vindex(o) \in Nat /\ o.index \in Nat /\ o.chain \notin Clusters
    BY <2>2, Standing, Constants
  <2>4. left(o) > 0
    BY <2>3 DEF Wants
  <2> DEFINE m == [Moved(Headed(o, c), n) EXCEPT !.prev = c, !.chain = EOF]
             p == EndIfDone(m)
  <2>5. m \in Calls
    BY <1>0, MovedHeaded
  <2>6. m.prev = c /\ m.chain = EOF /\ m.pos = o.pos + n /\ m.to = o.to
    BY <1>0, <2>2 DEF Moved, Headed, Calls
  <2>7. call' = [call EXCEPT ![f] = p]
    BY <2>1 DEF Goto
  <2> HIDE DEF m
  <2>8. p \in Calls
    BY <2>5, CallTypes
  <2>9. /\ p.prev = c /\ p.chain = EOF /\ p.pos = m.pos /\ p.to = o.to
        /\ p.step = "walk" => left(m) # 0
    BY <2>5, <2>6 DEF EndIfDone, Finished, Calls
  <2> HIDE DEF p
  <2>10. call'[f] = p /\ \A g \in Files \ {f} : call'[g] = call[g]
    BY <1>0, <2>7
  <2>11. left(p) >= 0 /\ left(m) = left(p)
    BY <1>0, <2>4, <2>6, <2>9, CallSizes DEF left, Calls
  <2>12. left(p) > 0 => o.index < vindex(p)
    <3>1. CASE vindex(o) = o.index
      BY <1>0, <2>4, <2>6, <2>8, <2>9, <3>1, NextCluster
    <3>2. CASE vindex(o) # o.index
      <4>1. p.pos = o.pos
        BY <1>0, <2>6, <2>9, <3>2 DEF Calls
      <4>2. vindex(p) = vindex(o)
        BY <4>1 DEF vindex
      <4>3. QED
        BY <2>2, <2>3, <3>2, <4>2
    <3>3. QED
      BY <3>1, <3>2
  <2>13. p.step = "walk" => left(p) > 0
    BY <2>8, <2>9, <2>11, CallSizes
  <2>14. o.prev # None => FAT[o.prev].FATIndex < o.index
    BY <2>2, <2>3 DEF Before
  <2>15. EOF \notin Clusters
    BY Constants DEF Places
  <2>16. QED
    BY <2>1, <2>2, <2>3, <2>8, <2>9, <2>10, <2>11, <2>12, <2>13, <2>14, <2>15, OrderInserted
<1>8. CASE WriteReturn(f)
  <2>1. FAT' = FAT /\ call' = [call EXCEPT ![f] = NoCall]
    BY <1>8 DEF WriteReturn, Goto
  <2>2. call'[f].step = "idle" /\ \A g \in Files \ {f} : call'[g] = call[g]
    BY <1>0, <2>1 DEF NoCall
  <2>3. Placed(call[f])'
    BY <2>2, NotWriting
  <2>4. QED
    BY <2>1, <2>2, <2>3, OrderKept DEF Free
<1>9. QED
  BY <1>1, <1>2, <1>3, <1>4, <1>5, <1>6, <1>7, <1>8 DEF NWWriteFile

\* Reads and truncates add no cluster.
LEMMA ReadOrder ==
  ASSUME TypeOK, NEW own \in [Places -> Owners], Owned(own), Rising, AllPlaced,
         NEW f \in Files, NWReadFile(f)
  PROVE  Rising' /\ AllPlaced'
<1>0. call \in [Files -> Calls] /\ call[f] \in Calls
  BY DEF TypeOK
<1>1. FAT' = FAT /\ \E p : call' = [call EXCEPT ![f] = p]
  BY DEF NWReadFile, StartRead, ReadHole, ReadCluster, ReadEOF, ReadRecord, ReadReturn, Goto
<1>2. call'[f].op \notin Writes
  <2>1. CASE StartRead(f)
    <3>1. PICK e \in Extents :
            Goto(f, Started(f, [NoCall EXCEPT
                      !.op = "read", !.from = e[1], !.pos = e[1],
                      !.to = IF e[1] + e[2] > hash[f].FileSize THEN hash[f].FileSize
                             ELSE e[1] + e[2]]))
      BY <2>1 DEF StartRead
    <3> DEFINE o == [NoCall EXCEPT
                      !.op = "read", !.from = e[1], !.pos = e[1],
                      !.to = IF e[1] + e[2] > hash[f].FileSize THEN hash[f].FileSize
                             ELSE e[1] + e[2]]
    <3>3. Started(f, o).op = "read"
      BY DEF Started, Arrive, NoCall
    <3>4. call' = [call EXCEPT ![f] = Started(f, o)]
      BY <3>1 DEF Goto
    <3>2. QED
      BY <1>0, <3>3, <3>4 DEF Writes
  <2>2. CASE ReadReturn(f)
    BY <1>0, <2>2 DEF ReadReturn, Goto, NoCall, Writes
  <2>3. ASSUME NEW p, call' = [call EXCEPT ![f] = p], p.op = call[f].op, call[f].op = "read"
        PROVE  call'[f].op \notin Writes
    BY <1>0, <2>3 DEF Writes
  <2>4. CASE ReadHole(f)
    BY <1>0, <2>3, <2>4 DEF ReadHole, Goto, OnCluster, At, Zeros, Moved, Calls
  <2>5. CASE ReadCluster(f)
    <3> DEFINE o == call[f]
               q == IF left(o) > 0 /\ vindex(o) = o.index THEN Got(o, o.chain, vsize(o)) ELSE o
    <3>1. call' = [call EXCEPT ![f] = EndIfDone(Bump(q))] /\ o.op = "read"
      BY <2>5 DEF ReadCluster, Goto, OnCluster, At
    <3>2. \A n, x : EndIfDone(Bump(Got(o, x, n))).op = o.op
      BY <1>0 DEF Got, Moved, Bump, Arrive, EndIfDone, Finished, Calls
    <3>3. EndIfDone(Bump(o)).op = o.op
      BY <1>0 DEF Bump, Arrive, EndIfDone, Finished, Calls
    <3>4. EndIfDone(Bump(q)).op = o.op
      BY <3>2, <3>3
    <3> HIDE DEF q
    <3>5. QED
      BY <2>3, <3>1, <3>4
  <2>6. CASE ReadEOF(f) \/ ReadRecord(f)
    <3> DEFINE o == call[f]
    <3>1. \A n : Finished(Zeros(o, n)).op = o.op
      BY <1>0 DEF Zeros, Moved, Finished, Calls
    <3>2. \A n, m : Finished(Zeros(Got(o, o.chain, m), n)).op = o.op
      BY <1>0 DEF Got, Zeros, Moved, Finished, Calls
    <3>3. o.op = "read"
      BY <2>6 DEF ReadEOF, ReadRecord, OnEOF, OnRecord, At
    <3>4. \/ \E n : call' = [call EXCEPT ![f] = Finished(Zeros(o, n))]
          \/ \E n, m : call' = [call EXCEPT ![f] = Finished(Zeros(Got(o, o.chain, m), n))]
      <4>1. CASE ReadEOF(f)
        BY <4>1 DEF ReadEOF, Goto
      <4>2. CASE ReadRecord(f)
        BY <4>2 DEF ReadRecord, Goto
      <4>3. QED
        BY <2>6, <4>1, <4>2
    <3>5. QED
      BY <2>3, <3>1, <3>2, <3>3, <3>4
  <2>7. QED
    BY <2>1, <2>2, <2>4, <2>5, <2>6 DEF NWReadFile
<1>3. Placed(call[f])' /\ \A g \in Files \ {f} : call'[g] = call[g]
  BY <1>0, <1>1, <1>2, NotWriting
<1>4. QED
  BY <1>1, <1>3, OrderKept DEF Free

\* A truncate that links what is before it to the end, or to a record.
LEMMA CutOrder ==
  ASSUME TypeOK, NEW own \in [Places -> Owners], Owned(own), Rising, AllPlaced,
         NEW f \in Files, call[f].step = "walk", NEW y \in Records \union {EOF},
         FAT' = Relinked(FAT, call[f], y),
         \A g \in Files \ {f} : call'[g] = call[g],
         Placed(call[f])'
  PROVE  Rising' /\ AllPlaced'
<1> DEFINE o == call[f]
<1>0. /\ FAT \in [Clusters -> FAT_ENTRY] /\ y \notin Clusters /\ y # None
      /\ o.prev # None => o.prev \in Clusters \ Free
  BY Constants DEF TypeOK, Places, Owned, CallsOwn, CallOwn
<1>1. CASE o.prev = None
  <2>1. FAT' = FAT
    BY <1>1 DEF Relinked
  <2>2. QED
    BY <2>1, OrderKept DEF Free
<1>2. CASE o.prev # None
  <2>1. FAT' = [FAT EXCEPT ![o.prev].FATCluster = y] /\ o.prev \in Clusters \ Free
    BY <1>0, <1>2 DEF Relinked
  <2>2. /\ \A c \in Clusters \ {o.prev} : FAT'[c] = FAT[c]
        /\ FAT'[o.prev].FATCluster = y /\ FAT'[o.prev].FATIndex = FAT[o.prev].FATIndex
    BY <1>0, <2>1 DEF FAT_ENTRY
  <2>3. \A c \in Clusters : FAT'[c] = FAT[c] \/ FAT'[c].FATCluster \notin Clusters
    BY <1>0, <2>2
  <2>4. \A c \in Clusters : FAT'[c].FATIndex = FAT[c].FATIndex
    BY <2>2
  <2>5. \A c \in Clusters \ Free' : c \notin Free
    BY <2>1, <2>2 DEF Free
  <2>6. QED
    BY <2>3, <2>4, <2>5, OrderKept DEF Free
<1>3. QED
  BY <1>1, <1>2

LEMMA TruncateOrder ==
  ASSUME TypeOK, NEW own \in [Places -> Owners], Owned(own), Rising, AllPlaced,
         NEW f \in Files, TruncateClusterChain(f)
  PROVE  Rising' /\ AllPlaced'
<1> DEFINE o == call[f]
<1>0. /\ o \in Calls /\ call \in [Files -> Calls] /\ FAT \in [Clusters -> FAT_ENTRY]
      /\ EOF \in Records \union {EOF} /\ EOF \notin Clusters /\ None \notin Clusters
  BY Constants DEF TypeOK, Places
<1>1. /\ \A g \in Files \ {f} : call'[g] = call[g]
      /\ Placed(call[f])'
  <2>1. \E p : call' = [call EXCEPT ![f] = p] /\ (p.op = "truncate" \/ p = NoCall)
    <3>1. CASE Close(f) \/ Truncate(f)
      <4>1. \E u, r : TruncateTo(f, u, r)
        BY <3>1 DEF Close, Truncate
      <4>2. PICK u, r : TruncateTo(f, u, r)
        BY <4>1
      <4> DEFINE pos == ((IF r THEN u - 1 ELSE u) \div ClusterSize) * ClusterSize
                 q == [NoCall EXCEPT !.op = "truncate", !.step = "walk",
                                     !.head = hash[f].FirstBlock, !.to = u, !.pos = pos]
      <4>3. Finished(q).op = "truncate" /\ Arrive(q, hash[f].FirstBlock, 0).op = "truncate"
        BY DEF NoCall, Finished, Arrive
      <4>4. call' = [call EXCEPT ![f] = IF hash[f].FirstBlock = EOF THEN Finished(q)
                                        ELSE Arrive(q, hash[f].FirstBlock, 0)]
        BY <4>2 DEF TruncateTo, Goto
      <4>5. QED
        BY <4>3, <4>4
    <3>2. CASE TruncateCut(f) \/ TruncateToRecord(f) \/ TruncateAfter(f)
      <4>1. \A x : [Headed(o, x) EXCEPT !.step = "free"].op = o.op
        BY <1>0 DEF Headed, Calls
      <4>2. /\ \A x : [o EXCEPT !.chain = x, !.step = "free"].op = o.op
            /\ Finished(o).op = o.op
        BY <1>0 DEF Finished, Calls
      <4>3. o.op = "truncate"
        BY <3>2 DEF TruncateCut, TruncateToRecord, TruncateAfter, OnCluster, At, Truncates
      <4>4. CASE TruncateCut(f)
        BY <4>1, <4>3, <4>4 DEF TruncateCut, Goto
      <4>5. CASE TruncateToRecord(f)
        <5>1. PICK r : call' = [call EXCEPT ![f] = [Headed(o, r) EXCEPT !.step = "free"]]
          BY <4>5 DEF TruncateToRecord, Goto
        <5>2. QED
          BY <4>1, <4>3, <5>1
      <4>6. CASE TruncateAfter(f)
        BY <4>2, <4>3, <4>6 DEF TruncateAfter, Goto
      <4>7. QED
        BY <3>2, <4>4, <4>5, <4>6
    <3>3. CASE TruncateSkip(f)
      <4>1. Bump(o).op = o.op /\ Finished(Bump(o)).op = o.op
        BY <1>0 DEF Bump, Arrive, Finished, Calls
      <4>2. QED
        BY <3>3, <4>1 DEF TruncateSkip, Goto, OnCluster, At, Truncates
    <3>4. CASE TruncateRecord(f)
      <4>1. Finished(o).op = o.op /\ \A y : Finished(Headed(o, y)).op = o.op
        BY <1>0 DEF Headed, Finished, Calls
      <4>2. QED
        BY <3>4, <4>1 DEF TruncateRecord, Goto, OnRecord, At, Truncates
    <3>5. CASE FreeChain(f) \/ TruncateReturn(f)
      BY <1>0, <3>5 DEF FreeChain, TruncateReturn, Goto, At, Truncates, Finished, Calls
    <3>6. QED
      BY <3>1, <3>2, <3>3, <3>4, <3>5 DEF TruncateClusterChain
  <2>2. call'[f].op \notin Writes /\ \A g \in Files \ {f} : call'[g] = call[g]
    BY <1>0, <2>1 DEF NoCall, Writes
  <2>3. QED
    BY <2>2, NotWriting
<1>2. CASE \/ Close(f) \/ Truncate(f) \/ TruncateSkip(f) \/ TruncateReturn(f)
  <2>1. FAT' = FAT
    BY <1>2 DEF Close, Truncate, TruncateSkip, TruncateReturn
  <2>2. QED
    BY <1>1, <2>1, OrderKept DEF Free
<1>3. CASE TruncateCut(f) \/ TruncateToRecord(f) \/ TruncateRecord(f)
  <2>1. o.step = "walk"
    BY <1>3 DEF TruncateCut, TruncateToRecord, TruncateRecord, OnCluster, OnRecord, At
  <2>2. FAT' = FAT \/ \E y \in Records \union {EOF} : FAT' = Relinked(FAT, o, y)
    BY <1>0, <1>3 DEF TruncateCut, TruncateToRecord, TruncateRecord
  <2>3. CASE FAT' = FAT
    BY <1>1, <2>3, OrderKept DEF Free
  <2>4. QED
    BY <1>1, <2>1, <2>2, <2>3, CutOrder
<1>4. CASE TruncateAfter(f)
  <2>1. FAT' = [FAT EXCEPT ![o.chain].FATCluster = EOF] /\ o.step = "walk" /\ o.chain \in Clusters
    BY <1>4 DEF TruncateAfter, OnCluster, At
  <2>2. o.chain \notin Free
    BY <1>0, <2>1, Place DEF Live, TypeOK
  <2>3. /\ \A c \in Clusters \ {o.chain} : FAT'[c] = FAT[c]
        /\ FAT'[o.chain].FATCluster = EOF /\ FAT'[o.chain].FATIndex = FAT[o.chain].FATIndex
    BY <1>0, <2>1 DEF FAT_ENTRY
  <2>4. \A c \in Clusters : FAT'[c] = FAT[c] \/ FAT'[c].FATCluster \notin Clusters
    BY <1>0, <2>3
  <2>5. \A c \in Clusters : FAT'[c].FATIndex = FAT[c].FATIndex
    BY <2>3
  <2>6. \A c \in Clusters \ Free' : c \notin Free
    BY <2>2, <2>3 DEF Free
  <2>7. QED
    BY <1>1, <2>4, <2>5, <2>6, OrderKept
<1>5. CASE FreeChain(f)
  <2>1. /\ FAT' = [FAT EXCEPT ![o.chain] = [FATIndex |-> 0, FATCluster |-> None]]
        /\ o.chain \in Clusters \ Free /\ own[o.chain] = f
    BY <1>5 DEF FreeChain, At, Owned, CallsOwn, CallOwn
  <2>2. /\ \A c \in Clusters \ {o.chain} : FAT'[c] = FAT[c]
        /\ FAT'[o.chain].FATCluster = None
    BY <1>0, <2>1
  <2>3. \A c \in Clusters : FAT'[c] = FAT[c] \/ FAT'[c].FATCluster \notin Clusters
    BY <1>0, <2>2
  <2>4. \A c \in Clusters \ Free' : c \notin Free /\ FAT'[c].FATIndex = FAT[c].FATIndex
    BY <2>1, <2>2 DEF Free
  <2>5. \A c \in Clusters \ Free : own[c] # f => FAT'[c].FATIndex = FAT[c].FATIndex
    BY <2>1, <2>2
  <2>6. QED
    BY <1>1, <2>3, <2>4, <2>5, OrderKept
<1>6. QED
  BY <1>2, <1>3, <1>4, <1>5 DEF TruncateClusterChain

LEMMA OrderStep == TypeOK /\ ChainInv /\ OrderInv /\ [Next]_vars => OrderInv'
<1> SUFFICES ASSUME TypeOK, ChainInv, OrderInv, [Next]_vars, orphaned' = {}
             PROVE  Rising' /\ AllPlaced'
  BY DEF OrderInv
<1>1. Rising /\ AllPlaced /\ Apart /\ \E own \in [Places -> Owners] : Owned(own)
  BY OrphansStay DEF ChainInv, OrderInv
<1>2. PICK own \in [Places -> Owners] : Owned(own)
  BY <1>1
<1>3. CASE \E f \in Files : NWWriteFile(f)
  BY <1>1, <1>2, <1>3, WriteOrder
<1>4. CASE \E f \in Files : NWReadFile(f)
  BY <1>1, <1>2, <1>4, ReadOrder
<1>5. CASE \E f \in Files : TruncateClusterChain(f)
  BY <1>1, <1>2, <1>5, TruncateOrder
<1>6. CASE UNCHANGED vars
  BY <1>1, <1>6 DEF vars, Rising, AllPlaced, Placed, Writing, Here, Before, Wants, Free, left, vindex
<1>7. QED
  BY <1>3, <1>4, <1>5, <1>6 DEF Next

LEMMA OrderInit == Init => OrderInv
<1> SUFFICES ASSUME Init PROVE Rising /\ AllPlaced
  BY DEF OrderInv
<1>1. Free = Clusters /\ \A f \in Files : call[f].step = "idle"
  BY DEF Init, Free, NoCall
<1>2. QED
  BY <1>1 DEF Rising, AllPlaced, Placed, Writing

\* The clusters of a chain are in the order of the file, so a chain ends, however
\* writes, mappings and truncates of any number of files interleave: a cluster that
\* fills a hole or extends a file is put where its index belongs.
THEOREM ChainsAscend == Spec => []IndexesRise
<1>1. Init => TypeOK /\ ChainInv /\ OrderInv
  BY TypeInit, ChainInit, OrderInit
<1>2. (TypeOK /\ ChainInv /\ OrderInv) /\ [Next]_vars => (TypeOK /\ ChainInv /\ OrderInv)'
  BY TypeStep, ChainStep, OrderStep
<1>3. OrderInv => IndexesRise
  BY DEF OrderInv, Rising, IndexesRise
<1>4. QED
  BY <1>1, <1>2, <1>3, PTL DEF Spec

-----------------------------------------------------------------------------
(***************************************************************************)
(* A read returns what was last written, for any sizes as well.            *)
(*                                                                         *)
(* That the clusters of a chain rise does not say that the chain has every *)
(* cluster of the file, and a read of a hole has to know that it has none  *)
(* there.  The invariant says so without reachability: no link of a file   *)
(* leads past a cluster of the same file.  With the assignment of places   *)
(* to files of the first half, the unit of a file is then where its index  *)
(* says, in one cluster or in the record at the end, and everything a      *)
(* write in progress has done, or a truncate will keep, is there.          *)
(***************************************************************************)

Index(c) == FAT[c].FATIndex

\* The clusters of a file, and those of them that a truncate has not cut off.
Mine(own, f)  == {c \in Clusters \ Free : own[c] = f}
CutOff(f, c)  == call[f].step = "free" /\ Index(call[f].chain) <= Index(c)
Kept(own, f)  == {c \in Mine(own, f) : ~CutOff(f, c)}

\* A file has one cluster at an index, and the link of a cluster leads past none.
Spaced(own, f) ==
  \A c, d \in Mine(own, f) :
    /\ Index(c) = Index(d) => c = d
    /\ Index(c) < Index(d) /\ (CutOff(f, d) => CutOff(f, c)) =>
         FAT[c].FATCluster \in Clusters /\ Index(FAT[c].FATCluster) <= Index(d)

\* The head is the first of them.
HeadFirst(own, f) ==
  \A d \in Kept(own, f) : Head(f) \in Clusters /\ Index(Head(f)) <= Index(d)

\* Record r ends the chain of f and is at index i of the file.
TailAt(own, f, r, i) ==
  \/ Head(f) = r /\ i = 0
  \/ \E c \in Kept(own, f) : FAT[c].FATCluster = r /\ i = Index(c) + 1

TurboTail(own, f) ==
  hash[f].TurboFATCluster \in Records =>
    TailAt(own, f, hash[f].TurboFATCluster, hash[f].TurboFATIndex)

\* A call knows where it is ...
Knows(own, f) ==
  LET o == call[f]
  IN  o.step = "walk" =>
        /\ o.chain \in Clusters => o.index = Index(o.chain)
        /\ o.chain \in Records => TailAt(own, f, o.chain, o.index)
        /\ o.prev # None /\ (left(o) > 0 \/ o.op = "truncate") => Index(o.prev) < vindex(o)
        /\ o.prev # None /\ o.op = "truncate" => o.last = Index(o.prev)
        /\ o.op = "read" /\ o.chain \in Records /\ left(o) > 0 => o.index <= vindex(o)

\* ... a write that succeeds has done all it was asked, and a truncate ends in
\* the cluster where its size does.
Ends(o) ==
  /\ o.op = "write" => o.from <= o.pos
  /\ o.op = "write" /\ o.step = "return" /\ ~o.error => left(o) <= 0
  /\ o.op = "truncate" =>
       \A u \in FileUnits :
         u < o.to => \/ u \div ClusterSize < vindex(o)
                     \/ u \div ClusterSize = vindex(o) /\ u % ClusterSize < left(o)

\* Unit u of the file is v.
Held(own, f, u, v) ==
  \/ \E c \in Kept(own, f) : Index(c) = u \div ClusterSize /\ data[c][u % ClusterSize] = v
  \/ \E r \in Records : /\ TailAt(own, f, r, u \div ClusterSize)
                        /\ u % ClusterSize < RecordSize[r]
                        /\ data[r][u % ClusterSize] = v

\* A write in progress has done the units before its place, and a truncate
\* keeps those before its size.
Asked(o, u) == o.op = "write" /\ u \in o.from .. o.to - 1
Owed(o, u) ==
  /\ Asked(o, u) => u < o.pos
  /\ o.op = "truncate" => u < o.to
Last(f, u) == IF Asked(call[f], u) THEN call[f].number ELSE written[f][u]

DataHeld(own, f) ==
  \A u \in FileUnits :
    Owed(call[f], u) /\ Last(f, u) # 0 => Held(own, f, u, Last(f, u))

GotLast(f) == \A g \in call[f].got : written[f][g[1]] \in {0, g[2]}

FileSound(own, f) ==
  /\ Spaced(own, f) /\ HeadFirst(own, f)
  /\ TurboTail(own, f) /\ Knows(own, f) /\ Ends(call[f])
  /\ DataHeld(own, f) /\ GotLast(f)

DataInv ==
  orphaned = {} =>
    \E own \in [Places -> Owners] : Owned(own) /\ \A f \in Files : FileSound(own, f)

-----------------------------------------------------------------------------
(* Where the data of a file is *)

LEMMA MineFacts ==
  ASSUME TypeOK, NEW own \in [Places -> Owners], Owned(own), NEW f \in Files
  PROVE  /\ \A c \in Mine(own, f) :
              /\ c \in Clusters /\ c \notin Free /\ c \in Live /\ own[c] = f /\ Index(c) \in Nat
              /\ FAT[c].FATCluster \in Links /\ FAT[c].FATCluster # None
              /\ FAT[c].FATCluster \in Clusters => FAT[c].FATCluster \in Mine(own, f)
              /\ FAT[c].FATCluster \in Records => FAT[c].FATCluster \in inUse /\ own[FAT[c].FATCluster] = f
         /\ Kept(own, f) \subseteq Mine(own, f)
         /\ Head(f) \in Links
         /\ Head(f) \in Clusters => Head(f) \in Mine(own, f)
         /\ Head(f) \in Records => Head(f) \in inUse /\ own[Head(f)] = f
         /\ call[f].step = "free" => call[f].chain \in Mine(own, f)
         /\ call[f].step # "free" => Kept(own, f) = Mine(own, f)
         /\ call[f].step = "walk" /\ call[f].chain \in Clusters => call[f].chain \in Mine(own, f)
         /\ call[f].step = "walk" /\ call[f].prev # None => call[f].prev \in Mine(own, f)
<1>0. /\ EOF \notin Clusters /\ EOF \notin Records /\ Clusters \intersect Records = {}
      /\ None \notin Clusters /\ None \notin Records /\ None # EOF
      /\ \A x : x \in Live /\ x \in Clusters => x \notin Free
      /\ \A x : x \in Live /\ x \in Records => x \in inUse
  BY Constants DEF Places, Live, TypeOK
<1>1. ASSUME NEW c \in Mine(own, f)
      PROVE  /\ c \in Clusters /\ c \notin Free /\ c \in Live /\ own[c] = f /\ Index(c) \in Nat
             /\ FAT[c].FATCluster \in Links /\ FAT[c].FATCluster # None
             /\ FAT[c].FATCluster \in Clusters => FAT[c].FATCluster \in Mine(own, f)
             /\ FAT[c].FATCluster \in Records => FAT[c].FATCluster \in inUse /\ own[FAT[c].FATCluster] = f
  <2>1. c \in Clusters /\ c \notin Free /\ c \in Live /\ own[c] = f
    BY DEF Mine, Live
  <2>2. Index(c) \in Nat /\ FAT[c].FATCluster \in Links \union {None} /\ FAT[c].FATCluster # None
    BY <2>1 DEF TypeOK, FAT_ENTRY, Index, Free
  <2>3. FAT[c].FATCluster # EOF => FAT[c].FATCluster \in Live /\ own[FAT[c].FATCluster] = f
    BY <2>1 DEF Owned, LinksOwn
  <2>4. QED
    BY <1>0, <2>1, <2>2, <2>3 DEF Mine
<1>2. Head(f) \in Links /\ (Head(f) # EOF => Head(f) \in Live /\ own[Head(f)] = f)
  BY DEF Owned, HeadsOwn, Head, TypeOK, HASH, Calls
<1>3. CallOwn(own, f)
  BY DEF Owned, CallsOwn
<1>4. call[f].step = "free" => call[f].chain \in Mine(own, f)
  BY <1>3 DEF CallOwn, Mine
<1>5. /\ call[f].step = "walk" /\ call[f].chain \in Clusters => call[f].chain \in Mine(own, f)
      /\ call[f].step = "walk" /\ call[f].prev # None => call[f].prev \in Mine(own, f)
  BY <1>0, <1>3 DEF CallOwn, Mine
<1>6. Kept(own, f) \subseteq Mine(own, f) /\ (call[f].step # "free" => Kept(own, f) = Mine(own, f))
  BY DEF Kept, CutOff
<1>7. /\ Head(f) \in Clusters => Head(f) \in Mine(own, f)
      /\ Head(f) \in Records => Head(f) \in inUse /\ own[Head(f)] = f
  BY <1>0, <1>2 DEF Mine
<1>8. QED
  BY <1>1, <1>2, <1>4, <1>5, <1>6, <1>7

\* The record at the end of a chain is in use and its file's, and follows the
\* clusters of the chain.
LEMMA TailFacts ==
  ASSUME TypeOK, NEW own \in [Places -> Owners], Owned(own), NEW f \in Files,
         Spaced(own, f), HeadFirst(own, f),
         NEW r \in Records, NEW i, TailAt(own, f, r, i)
  PROVE  /\ r \in inUse /\ own[r] = f /\ i \in Nat
         /\ \A c \in Kept(own, f) : Index(c) < i
<1>0. Clusters \intersect Records = {}
  BY Constants
<1>1. CASE Head(f) = r /\ i = 0
  <2>1. Kept(own, f) = {}
    BY <1>0, <1>1 DEF HeadFirst
  <2>2. QED
    BY <1>1, <2>1, MineFacts
<1>2. CASE \E d \in Kept(own, f) : FAT[d].FATCluster = r /\ i = Index(d) + 1
  <2>1. PICK d \in Kept(own, f) : FAT[d].FATCluster = r /\ i = Index(d) + 1
    BY <1>2
  <2>2. d \in Mine(own, f) /\ Index(d) \in Nat /\ r \in inUse /\ own[r] = f
    BY <2>1, MineFacts
  <2>3. ASSUME NEW c \in Kept(own, f) PROVE Index(c) < i
    <3>1. c \in Mine(own, f) /\ ~CutOff(f, c) /\ Index(c) \in Nat
      BY MineFacts DEF Kept
    <3>2. ~(Index(d) < Index(c))
      BY <1>0, <2>1, <2>2, <3>1 DEF Spaced
    <3>3. QED
      BY <2>1, <2>2, <3>1, <3>2
  <2>4. QED
    BY <2>1, <2>2, <2>3
<1>3. QED
  BY <1>1, <1>2 DEF TailAt

\* There is one such record, and it is at one index.
LEMMA TailOne ==
  ASSUME TypeOK, NEW own \in [Places -> Owners], Apart, Owned(own), NEW f \in Files,
         Spaced(own, f), HeadFirst(own, f),
         NEW r \in Records, NEW i, TailAt(own, f, r, i),
         NEW q \in Records, NEW j, TailAt(own, f, q, j)
  PROVE  r = q /\ i = j
<1>0. Clusters \intersect Records = {} /\ EOF \notin Records
  BY Constants DEF Places
<1>1. Head(f) = r \/ Head(f) = q => Kept(own, f) = {}
  BY <1>0 DEF HeadFirst
<1>2. CASE Kept(own, f) = {}
  BY <1>2 DEF TailAt
<1>3. CASE Kept(own, f) # {}
  <2>1. PICK c \in Kept(own, f) : FAT[c].FATCluster = r /\ i = Index(c) + 1
    BY <1>1, <1>3 DEF TailAt
  <2>2. PICK d \in Kept(own, f) : FAT[d].FATCluster = q /\ j = Index(d) + 1
    BY <1>1, <1>3 DEF TailAt
  <2>3. Index(c) < j /\ Index(d) < i
    BY TailFacts
  <2>4. c \in Mine(own, f) /\ d \in Mine(own, f) /\ Index(c) \in Nat /\ Index(d) \in Nat
    BY MineFacts
  <2>5. Index(c) = Index(d)
    BY <2>1, <2>2, <2>3, <2>4
  <2>6. c = d
    BY <2>4, <2>5 DEF Spaced
  <2>7. QED
    BY <2>1, <2>2, <2>6
<1>4. QED
  BY <1>2, <1>3

-----------------------------------------------------------------------------
(* What a step leaves alone *)

\* The clusters of file f and their links are as they were.
SameChain(own, w, f) ==
  /\ Mine(w, f)' = Mine(own, f)
  /\ \A c \in Mine(own, f) : FAT'[c] = FAT[c]
  /\ Head(f)' = Head(f)
  /\ call'[f].step = "free" <=> call[f].step = "free"
  /\ call'[f].step = "free" => call'[f].chain = call[f].chain

LEMMA ChainKept ==
  ASSUME TypeOK, NEW own \in [Places -> Owners], Owned(own), NEW w \in [Places -> Owners],
         NEW f \in Files, SameChain(own, w, f)
  PROVE  /\ Kept(w, f)' = Kept(own, f)
         /\ \A c \in Mine(own, f) : Index(c)' = Index(c)
         /\ \A r, i : TailAt(own, f, r, i) => TailAt(w, f, r, i)'
         /\ Spaced(own, f) => Spaced(w, f)'
         /\ HeadFirst(own, f) => HeadFirst(w, f)'
<1>1. \A c \in Mine(own, f) : Index(c)' = Index(c) /\ FAT'[c].FATCluster = FAT[c].FATCluster
  BY DEF SameChain, Index
<1>2. call[f].step = "free" => FAT'[call[f].chain] = FAT[call[f].chain]
  BY MineFacts DEF SameChain
<1>3. \A c \in Mine(own, f) : CutOff(f, c)' <=> CutOff(f, c)
  BY <1>2 DEF CutOff, SameChain, Index
<1>4. Kept(w, f)' = Kept(own, f)
  BY <1>3 DEF Kept, SameChain
<1>5. \A r, i : TailAt(own, f, r, i) => TailAt(w, f, r, i)'
  <2>1. ASSUME NEW r, NEW i, TailAt(own, f, r, i) PROVE TailAt(w, f, r, i)'
    <3>1. CASE Head(f) = r /\ i = 0
      BY <3>1 DEF TailAt, SameChain
    <3>2. CASE \E c \in Kept(own, f) : FAT[c].FATCluster = r /\ i = Index(c) + 1
      <4>1. PICK c \in Kept(own, f) : FAT[c].FATCluster = r /\ i = Index(c) + 1
        BY <3>2
      <4>2. c \in Kept(w, f)' /\ c \in Mine(own, f)
        BY <1>4, MineFacts
      <4>3. FAT'[c].FATCluster = r /\ i = Index(c)' + 1
        BY <1>1, <4>1, <4>2
      <4>4. QED
        BY <4>2, <4>3 DEF TailAt
    <3>3. QED
      BY <2>1, <3>1, <3>2 DEF TailAt
  <2>2. QED
    BY <2>1
<1>6. ASSUME Spaced(own, f) PROVE Spaced(w, f)'
  <2>1. ASSUME NEW c \in Mine(own, f), NEW d \in Mine(own, f)
        PROVE  /\ FAT'[c].FATIndex = FAT'[d].FATIndex => c = d
               /\ FAT'[c].FATIndex < FAT'[d].FATIndex /\ (CutOff(f, d)' => CutOff(f, c)') =>
                    /\ FAT'[c].FATCluster \in Clusters
                    /\ FAT'[FAT'[c].FATCluster].FATIndex <= FAT'[d].FATIndex
    <3>1. FAT[c].FATCluster \in Clusters => FAT'[FAT[c].FATCluster] = FAT[FAT[c].FATCluster]
      BY MineFacts DEF SameChain
    <3>2. FAT'[c] = FAT[c] /\ FAT'[d] = FAT[d]
      BY DEF SameChain
    <3>3. QED
      BY <1>3, <1>6, <3>1, <3>2 DEF Spaced, Index
  <2>2. Mine(w, f)' = Mine(own, f)
    BY DEF SameChain
  <2>3. QED
    BY <2>1, <2>2 DEF Spaced, Index
<1>7. ASSUME HeadFirst(own, f) PROVE HeadFirst(w, f)'
  <2>1. ASSUME NEW d \in Kept(own, f)
        PROVE  Head(f) \in Clusters /\ FAT'[Head(f)].FATIndex <= FAT'[d].FATIndex
    <3>1. Head(f) \in Clusters /\ FAT[Head(f)].FATIndex <= FAT[d].FATIndex
      BY <1>7 DEF HeadFirst, Index
    <3>2. Head(f) \in Mine(own, f) /\ d \in Mine(own, f)
      BY <3>1, MineFacts
    <3>3. QED
      BY <3>1, <3>2 DEF SameChain
  <2>2. Head(f)' = Head(f)
    BY DEF SameChain
  <2>3. QED
    BY <1>4, <2>1, <2>2 DEF HeadFirst, Index
<1>8. QED
  BY <1>1, <1>4, <1>5, <1>6, <1>7

\* A unit that is held stays so when the clusters and the record it may be in do.
LEMMA HeldStays ==
  ASSUME NEW own, NEW w, NEW f \in Files, NEW u, NEW v, Held(own, f, u, v),
         \A c \in Kept(own, f) :
           Index(c) = u \div ClusterSize =>
             /\ c \in Kept(w, f)' /\ Index(c)' = Index(c)
             /\ data'[c][u % ClusterSize] = data[c][u % ClusterSize],
         \A r \in Records :
           TailAt(own, f, r, u \div ClusterSize) /\ u % ClusterSize < RecordSize[r] =>
             /\ TailAt(w, f, r, u \div ClusterSize)'
             /\ data'[r][u % ClusterSize] = data[r][u % ClusterSize]
  PROVE  Held(w, f, u, v)'
<1>1. CASE \E c \in Kept(own, f) : Index(c) = u \div ClusterSize /\ data[c][u % ClusterSize] = v
  BY <1>1 DEF Held
<1>2. CASE \E r \in Records : /\ TailAt(own, f, r, u \div ClusterSize)
                              /\ u % ClusterSize < RecordSize[r]
                              /\ data[r][u % ClusterSize] = v
  BY <1>2 DEF Held
<1>3. QED
  BY <1>1, <1>2 DEF Held

\* Another file: nothing of it changes.
LEMMA OtherFile ==
  ASSUME TypeOK, NEW own \in [Places -> Owners], Owned(own), NEW w \in [Places -> Owners],
         NEW g \in Files, FileSound(own, g),
         Mine(w, g)' = Mine(own, g),
         \A c \in Mine(own, g) : FAT'[c] = FAT[c] /\ data'[c] = data[c],
         \A r \in inUse : own[r] = g => data'[r] = data[r],
         call'[g] = call[g], hash'[g] = hash[g], written'[g] = written[g]
  PROVE  FileSound(w, g)'
<1> DEFINE o == call[g]
<1>0. /\ Spaced(own, g) /\ HeadFirst(own, g) /\ TurboTail(own, g) /\ Knows(own, g) /\ Ends(o)
      /\ DataHeld(own, g) /\ GotLast(g)
  BY DEF FileSound
<1>1. SameChain(own, w, g)
  BY DEF SameChain, Head
<1>2. /\ Kept(w, g)' = Kept(own, g) /\ \A c \in Mine(own, g) : Index(c)' = Index(c)
      /\ \A r, i : TailAt(own, g, r, i) => TailAt(w, g, r, i)'
      /\ Spaced(w, g)' /\ HeadFirst(w, g)'
  BY <1>0, <1>1, ChainKept
<1>3. TurboTail(w, g)'
  BY <1>0, <1>2 DEF TurboTail
<1>4. Knows(w, g)'
  <2>1. SUFFICES ASSUME o.step = "walk" PROVE Knows(w, g)'
    BY DEF Knows
  <2>2. /\ o.chain \in Clusters => Index(o.chain)' = Index(o.chain)
        /\ o.prev # None => Index(o.prev)' = Index(o.prev)
    BY <1>2, <2>1, MineFacts
  <2>3. left(o)' = left(o) /\ vindex(o)' = vindex(o)
    BY DEF left, vindex
  <2>4. /\ o.chain \in Clusters => o.index = Index(o.chain)
        /\ o.chain \in Records => TailAt(own, g, o.chain, o.index)
        /\ o.prev # None /\ (left(o) > 0 \/ o.op = "truncate") => Index(o.prev) < vindex(o)
        /\ o.prev # None /\ o.op = "truncate" => o.last = Index(o.prev)
        /\ o.op = "read" /\ o.chain \in Records /\ left(o) > 0 => o.index <= vindex(o)
    BY <1>0, <2>1 DEF Knows
  <2>5. QED
    BY <1>2, <2>1, <2>2, <2>3, <2>4 DEF Knows, Index, left, vindex
<1>5. Ends(call[g])'
  BY <1>0 DEF Ends, left, vindex
<1>6. DataHeld(w, g)'
  <2>1. ASSUME NEW u \in FileUnits, NEW v, Held(own, g, u, v)
        PROVE  Held(w, g, u, v)'
    <3>1. \A c \in Kept(own, g) : c \in Kept(w, g)' /\ Index(c)' = Index(c) /\ data'[c] = data[c]
      BY <1>2, MineFacts
    <3>2. \A r \in Records : \A i : TailAt(own, g, r, i) => TailAt(w, g, r, i)' /\ data'[r] = data[r]
      BY <1>0, <1>2, TailFacts
    <3>3. QED
      BY <2>1, <3>1, <3>2, HeldStays
  <2>2. \A u : (Owed(call[g], u)' <=> Owed(call[g], u)) /\ Last(g, u)' = Last(g, u)
    BY DEF Owed, Last, Asked
  <2>3. QED
    BY <1>0, <2>1, <2>2 DEF DataHeld
<1>7. GotLast(g)'
  BY <1>0 DEF GotLast
<1>8. QED
  BY <1>2, <1>3, <1>4, <1>5, <1>6, <1>7 DEF FileSound

\* What another file's step does to the places of a file.
LEMMA MineStays ==
  ASSUME TypeOK, NEW own \in [Places -> Owners], NEW w \in [Places -> Owners], NEW f \in Files,
         Extends(own, w, f),
         \A c \in Free : c \notin Free' => w[c] = f,
         NEW g \in Files,
         \A c \in Clusters \ Free : own[c] = g => c \notin Free'
  PROVE  g # f \/ (\A c \in Free : c \in Free') => Mine(w, g)' = Mine(own, g)
<1>1. \A c \in Clusters \ Free : w[c] = own[c]
  BY DEF Extends, Places, Live
<1>2. QED
  BY <1>1 DEF Mine

\* A step of file f takes places for f and touches nothing of another file.
OthersKept(own, w, f) ==
  /\ \A c \in Free : c \notin Free' => w[c] = f
  /\ \A c \in Clusters \ Free :
       own[c] # f => c \notin Free' /\ FAT'[c] = FAT[c] /\ data'[c] = data[c]
  /\ \A r \in inUse : own[r] # f => data'[r] = data[r]
  /\ \A g \in Files \ {f} : call'[g] = call[g] /\ hash'[g] = hash[g] /\ written'[g] = written[g]

LEMMA OtherFiles ==
  ASSUME TypeOK, NEW own \in [Places -> Owners], Owned(own), NEW w \in [Places -> Owners],
         NEW f \in Files, Extends(own, w, f), \A g \in Files : FileSound(own, g),
         OthersKept(own, w, f), FileSound(w, f)'
  PROVE  \A g \in Files : FileSound(w, g)'
<1>1. ASSUME NEW g \in Files \ {f} PROVE FileSound(w, g)'
  <2>1. Mine(w, g)' = Mine(own, g)
    BY MineStays DEF OthersKept
  <2>2. \A c \in Mine(own, g) : FAT'[c] = FAT[c] /\ data'[c] = data[c]
    BY DEF Mine, OthersKept
  <2>3. QED
    BY <2>1, <2>2, OtherFile DEF OthersKept
<1>2. QED
  BY <1>1

-----------------------------------------------------------------------------
(* Units *)

\* Units a and b of a file with clusters of s units.
LEMMA SameCluster ==
  ASSUME NEW a \in Nat, NEW b \in Nat, NEW s \in Nat, s > 0
  PROVE  /\ a <= b => a \div s <= b \div s
         /\ a \div s = b \div s => b - a = (b % s) - (a % s)
         /\ a <= b /\ b - a < s - (a % s) => a \div s = b \div s
<1> DEFINE i == a \div s
           k == b \div s
           x == a % s
           y == b % s
<1>1. i \in Nat /\ x \in Nat /\ x < s /\ a = s * i + x
  BY Division
<1>2. k \in Nat /\ y \in Nat /\ y < s /\ b = s * k + y
  BY Division
<1> HIDE DEF i, k, x, y
<1> DEFINE m == s * i
           n == s * k
<1>3. m \in Nat /\ n \in Nat /\ (i = k => m = n) /\ a = m + x /\ b = n + y
  BY <1>1, <1>2, Multiples
<1>4. k < i => n + s <= m
  <2>1. ASSUME k < i PROVE n + s <= m
    <3>1. k + 1 \in Nat /\ k + 1 <= i
      BY <1>1, <1>2, <2>1
    <3>2. s * (k + 1) <= s * i /\ s * (k + 1) = s * k + s
      BY <1>1, <1>2, <3>1, Multiples
    <3>3. QED
      BY <3>2
  <2>2. QED
    BY <2>1
<1>5. i < k => m + s <= n
  <2>1. ASSUME i < k PROVE m + s <= n
    <3>1. i + 1 \in Nat /\ i + 1 <= k
      BY <1>1, <1>2, <2>1
    <3>2. s * (i + 1) <= s * k /\ s * (i + 1) = s * i + s
      BY <1>1, <1>2, <3>1, Multiples
    <3>3. QED
      BY <3>2
  <2>2. QED
    BY <2>1
<1> HIDE DEF m, n
<1>6. a <= b => i <= k
  BY <1>1, <1>2, <1>3, <1>4
<1>7. i = k => b - a = y - x
  BY <1>1, <1>2, <1>3
<1>8. a <= b /\ b - a < s - x => i = k
  BY <1>1, <1>2, <1>3, <1>4, <1>5
<1>9. QED
  BY <1>6, <1>7, <1>8 DEF i, k, x, y

\* The units of a call from its place on, and those of them that it moves over
\* when it moves over n units of the cluster it is at.
LEMMA CallUnits ==
  ASSUME NEW o \in Calls, NEW u \in Nat
  PROVE  /\ o.pos <= u => vindex(o) <= u \div ClusterSize
         /\ u \div ClusterSize \in Nat
         /\ u % ClusterSize \in Units
         /\ \A n \in Int : n <= ClusterSize - voffset(o) =>
              (u \in o.pos .. o.pos + n - 1 <=>
                 /\ u \div ClusterSize = vindex(o)
                 /\ u % ClusterSize \in voffset(o) .. voffset(o) + n - 1)
<1> DEFINE a == o.pos
           s == ClusterSize
<1>1. a \in Nat /\ s \in Nat /\ s > 0
  BY Constants DEF Calls
<1>2. /\ a \div s = vindex(o) /\ a % s = voffset(o)
      /\ a % s \in Nat /\ a % s < s /\ u % s \in Nat /\ u % s < s
      /\ a \div s \in Nat /\ u \div s \in Nat
  BY <1>1, Division DEF vindex, voffset
<1> HIDE DEF a, s
<1>3. /\ a <= u => a \div s <= u \div s
      /\ a \div s = u \div s => u - a = (u % s) - (a % s)
      /\ a <= u /\ u - a < s - (a % s) => a \div s = u \div s
  BY <1>1, SameCluster
<1>4. ASSUME NEW n \in Int, n <= s - (a % s)
      PROVE  u \in a .. a + n - 1 <=>
               u \div s = a \div s /\ u % s \in (a % s) .. (a % s) + n - 1
  <2> DEFINE x == a % s
             y == u % s
             i == a \div s
             k == u \div s
  <2>1. /\ x \in Nat /\ y \in Nat /\ i \in Nat /\ k \in Nat /\ n <= s - x
        /\ i = k => u - a = y - x
        /\ a <= u /\ u - a < s - x => i = k
    BY <1>2, <1>3, <1>4
  <2> HIDE DEF x, y, i, k
  <2>2. u \in a .. a + n - 1 <=> k = i /\ y \in x .. x + n - 1
    BY <1>1, <2>1
  <2>3. QED
    BY <2>2 DEF x, y, i, k
<1>5. u % s \in Units
  BY <1>1, <1>2 DEF Units, s
<1>6. QED
  BY <1>2, <1>3, <1>4, <1>5 DEF a, s

\* What a call moves over of a cluster is in the cluster.
LEMMA CallSize ==
  ASSUME NEW o \in Calls
  PROVE  /\ vsize(o) \in Int /\ vsize(o) <= ClusterSize - voffset(o) /\ vsize(o) <= left(o)
         /\ left(o) = o.to - o.pos
<1>1. left(o) \in Int /\ voffset(o) \in Int /\ ClusterSize \in Int
  BY CallSizes, Constants
<1>2. QED
  BY <1>1 DEF vsize, left

-----------------------------------------------------------------------------
(* Where a unit may be *)

\* Only the cluster of its index has it.
LEMMA AtCluster ==
  ASSUME TypeOK, NEW own \in [Places -> Owners], Owned(own), NEW f \in Files,
         Spaced(own, f), HeadFirst(own, f),
         NEW c \in Kept(own, f), NEW u, NEW v, u \div ClusterSize = Index(c), Held(own, f, u, v)
  PROVE  data[c][u % ClusterSize] = v
<1>1. Index(c) \in Nat /\ Kept(own, f) \subseteq Mine(own, f)
  BY MineFacts
<1>2. ~\E r \in Records : TailAt(own, f, r, u \div ClusterSize)
  BY <1>1, TailFacts
<1>3. \A d \in Kept(own, f) : Index(d) = Index(c) => d = c
  BY <1>1 DEF Spaced
<1>4. QED
  BY <1>2, <1>3 DEF Held

\* Only the record at its index has it, and nothing has the units past that.
LEMMA AtTail ==
  ASSUME TypeOK, NEW own \in [Places -> Owners], Apart, Owned(own), NEW f \in Files,
         Spaced(own, f), HeadFirst(own, f),
         NEW r \in Records, NEW i, TailAt(own, f, r, i),
         NEW u \in Nat, NEW v, i <= u \div ClusterSize, Held(own, f, u, v)
  PROVE  u \div ClusterSize = i /\ u % ClusterSize < RecordSize[r] /\ data[r][u % ClusterSize] = v
<1>1. i \in Nat /\ \A c \in Kept(own, f) : Index(c) < i /\ Index(c) \in Nat
  BY TailFacts, MineFacts
<1>2. u \div ClusterSize \in Nat
  BY Constants, Division
<1>3. ~\E c \in Kept(own, f) : Index(c) = u \div ClusterSize
  BY <1>1, <1>2
<1>4. PICK q \in Records : /\ TailAt(own, f, q, u \div ClusterSize)
                           /\ u % ClusterSize < RecordSize[q]
                           /\ data[q][u % ClusterSize] = v
  BY <1>3 DEF Held
<1>5. q = r /\ u \div ClusterSize = i
  BY <1>4, TailOne
<1>6. QED
  BY <1>4, <1>5

\* A call that has come to a cluster behind what it wants is in a hole.
LEMMA InHole ==
  ASSUME TypeOK, NEW own \in [Places -> Owners], Owned(own), NEW f \in Files,
         FileSound(own, f), call[f].step = "walk", call[f].chain \in Clusters,
         left(call[f]) > 0, vindex(call[f]) < call[f].index
  PROVE  /\ \A c \in Kept(own, f) : Index(c) # vindex(call[f])
         /\ \A r \in Records : ~TailAt(own, f, r, vindex(call[f]))
<1> DEFINE o == call[f]
<1>1. /\ Spaced(own, f) /\ HeadFirst(own, f) /\ o.index = Index(o.chain)
      /\ o.prev # None => Index(o.prev) < vindex(o)
  BY DEF FileSound, Knows
<1>2. o.prev = None => o.chain = Head(f)
  BY Place DEF Head
<1>3. /\ Kept(own, f) = Mine(own, f) /\ o.chain \in Mine(own, f)
      /\ o.prev # None => o.prev \in Mine(own, f) /\ FAT[o.prev].FATCluster = o.chain
      /\ \A c \in Mine(own, f) : Index(c) \in Nat /\ ~CutOff(f, c)
  BY MineFacts DEF Owned, CallsOwn, CallOwn, CutOff
<1>4. vindex(o) \in Nat
  BY Place
<1>5. ASSUME NEW c \in Kept(own, f), Index(c) = vindex(o) PROVE FALSE
  <2>1. CASE o.prev = None
    BY <1>1, <1>2, <1>3, <1>4, <1>5, <2>1 DEF HeadFirst
  <2>2. CASE o.prev # None
    <3>1. Index(o.prev) < Index(c) /\ c \in Mine(own, f) /\ o.prev \in Mine(own, f)
      BY <1>1, <1>3, <1>5, <2>2
    <3>2. Index(o.chain) <= Index(c)
      BY <1>1, <1>3, <2>2, <3>1 DEF Spaced
    <3>3. QED
      BY <1>1, <1>3, <1>4, <1>5, <3>2
  <2>3. QED
    BY <2>1, <2>2
<1>6. ASSUME NEW r \in Records, TailAt(own, f, r, vindex(o)) PROVE FALSE
  <2>1. Index(o.chain) < vindex(o)
    BY <1>1, <1>3, <1>6, TailFacts
  <2>2. QED
    BY <1>1, <1>3, <1>4, <2>1
<1>7. QED
  BY <1>5, <1>6

\* A call that has come to the end wants what is in no cluster.
LEMMA PastEnd ==
  ASSUME TypeOK, NEW own \in [Places -> Owners], Owned(own), NEW f \in Files,
         FileSound(own, f), call[f].step = "walk", call[f].chain = EOF, left(call[f]) > 0
  PROVE  /\ \A c \in Kept(own, f) : Index(c) < vindex(call[f])
         /\ \A r \in Records : \A i : ~TailAt(own, f, r, i)
<1> DEFINE o == call[f]
<1>0. EOF \notin Clusters /\ EOF \notin Records
  BY Constants DEF Places
<1>1. /\ Spaced(own, f) /\ HeadFirst(own, f)
      /\ o.prev # None => Index(o.prev) < vindex(o)
  BY DEF FileSound, Knows
<1>2. o.prev = None => EOF = Head(f)
  BY Place DEF Head
<1>3. /\ Kept(own, f) = Mine(own, f)
      /\ o.prev # None => o.prev \in Mine(own, f) /\ FAT[o.prev].FATCluster = EOF
      /\ \A c \in Mine(own, f) : Index(c) \in Nat /\ ~CutOff(f, c)
      /\ vindex(o) \in Nat
  BY MineFacts, Place DEF Owned, CallsOwn, CallOwn, CutOff
<1>4. CASE o.prev = None
  <2>1. Kept(own, f) = {}
    BY <1>0, <1>1, <1>2, <1>4 DEF HeadFirst
  <2>2. QED
    BY <1>0, <1>2, <1>4, <2>1 DEF TailAt
<1>5. CASE o.prev # None
  <2>1. ASSUME NEW c \in Kept(own, f) PROVE Index(c) <= Index(o.prev) /\ c \in Mine(own, f)
    BY <1>0, <1>1, <1>3, <1>5, <2>1 DEF Spaced
  <2>2. ASSUME NEW r \in Records, NEW i, TailAt(own, f, r, i) PROVE FALSE
    <3>1. Head(f) # r
      BY <1>0, <1>1, <1>3, <1>5, <2>2, Constants DEF HeadFirst
    <3>2. PICK d \in Kept(own, f) : FAT[d].FATCluster = r /\ i = Index(d) + 1
      BY <2>2, <3>1 DEF TailAt
    <3>3. Index(o.prev) < i
      BY <1>1, <1>3, <1>5, <2>2, TailFacts
    <3>4. Index(d) = Index(o.prev)
      BY <1>3, <1>5, <2>1, <3>2, <3>3
    <3>5. d = o.prev
      BY <1>1, <1>3, <1>5, <3>2, <3>4 DEF Spaced
    <3>6. QED
      BY <1>0, <1>3, <1>5, <3>2, <3>5
  <2>3. QED
    BY <1>1, <1>3, <1>5, <2>1, <2>2
<1>6. QED
  BY <1>4, <1>5

-----------------------------------------------------------------------------
(* Where a call is *)

\* What remains of a call that begins, and that it has come to something.
LEMMA Begins ==
  ASSUME TypeOK, NEW own \in [Places -> Owners], Owned(own), NEW f \in Files, FileSound(own, f),
         NEW w \in [Places -> Owners], SameChain(own, w, f), FAT' = FAT,
         call[f].op = "none", NEW r \in Calls, r.prev = None, r.op \in {"write", "map", "read"},
         call'[f] = Started(f, r), ~BeginsPast(Started(f, r))
  PROVE  /\ Knows(w, f)' /\ call'[f].step = "walk"
         /\ call'[f].op = r.op /\ call'[f].pos = r.pos /\ call'[f].from = r.from
         /\ call'[f].to = r.to /\ call'[f].number = r.number /\ call'[f].got = r.got
<1> DEFINE h == hash[f]
           q == [[r EXCEPT !.head = h.FirstBlock] EXCEPT !.step = "walk"]
           p == Started(f, r)
<1>1. h.FirstBlock \in Links /\ h.TurboFATCluster \in Links \union {None} /\ h.TurboFATIndex \in Nat
  BY DEF TypeOK, HASH
<1>2. /\ q \in Calls /\ q.step = "walk" /\ q.op = r.op /\ q.prev = None /\ q.pos = r.pos
      /\ q.from = r.from /\ q.to = r.to /\ q.number = r.number /\ q.got = r.got
  BY <1>1 DEF Calls
<1>3. /\ p = IF FromTurbo(f, q) THEN Arrive(q, h.TurboFATCluster, h.TurboFATIndex)
             ELSE Arrive(q, h.FirstBlock, 0)
  <2>1. [r EXCEPT !.head = hash[f].FirstBlock, !.step = "walk"] = q
    OBVIOUS
  <2> HIDE DEF q
  <2>2. FromTurbo(f, r) <=> FromTurbo(f, q)
    BY <1>2 DEF FromTurbo, vindex
  <2>3. QED
    BY <2>1, <2>2 DEF Started
<1> HIDE DEF q
<1>4. /\ Head(f) = h.FirstBlock /\ None \notin Live /\ EOF \notin Clusters \union Records
      /\ Clusters \intersect Records = {} /\ None \notin Clusters \union Records /\ None # EOF
  BY Constants DEF Head, Live, TypeOK, Places
<1>5. /\ h.FirstBlock \notin Free \union {None}
      /\ h.TurboFATCluster # None => h.TurboFATCluster \notin Free \union {None}
  <2>1. /\ h.FirstBlock # EOF => h.FirstBlock \in Live
        /\ h.TurboFATCluster # None => h.TurboFATCluster \in Live
    BY <1>4 DEF Owned, HeadsOwn, TurboOwn
  <2>2. \A x \in Live : x \notin Free
    BY <1>4 DEF Live, TypeOK, Free
  <2>3. QED
    BY <1>1, <1>4, <2>1, <2>2 DEF Free, Links
<1>6. PICK x, i :
        /\ p = Arrive(q, x, i) /\ x \notin Free \union {None}
        /\ x \in Records => TailAt(own, f, x, i) /\ i <= vindex(q)
  <2>1. CASE FromTurbo(f, q)
    <3>1. h.TurboFATIndex <= vindex(q) /\ h.TurboFATCluster # None
      BY <1>1, <1>2, <2>1, CallSizes DEF FromTurbo
    <3>2. h.TurboFATCluster \in Records => TailAt(own, f, h.TurboFATCluster, h.TurboFATIndex)
      BY DEF FileSound, TurboTail
    <3>3. QED
      BY <1>3, <1>5, <2>1, <3>1, <3>2
  <2>2. CASE ~FromTurbo(f, q)
    <3>1. 0 <= vindex(q) /\ TailAt(own, f, h.FirstBlock, 0)
      BY <1>2, <1>4, CallSizes DEF TailAt
    <3>2. QED
      BY <1>3, <1>5, <2>2, <3>1
  <2>3. QED
    BY <2>1, <2>2
<1>7. /\ p.chain = x /\ p.index = IF x \in Clusters THEN FAT[x].FATIndex ELSE i
      /\ p.step = "walk" /\ p.op = r.op /\ p.prev = None /\ p.pos = r.pos /\ p.from = r.from
      /\ p.to = r.to /\ p.number = r.number /\ p.got = r.got
  BY <1>2, <1>6 DEF Arrive, Calls
<1>8. vindex(p) = vindex(q)
  BY <1>2, <1>7 DEF vindex
<1> HIDE DEF p
<1>9. call'[f] = p
  BY DEF p
<1>10. x \in Records => TailAt(w, f, x, i)' /\ i <= vindex(q)
  <2>1. \A r1, i1 : TailAt(own, f, r1, i1) => TailAt(w, f, r1, i1)'
    BY ChainKept
  <2>2. QED
    BY <1>6, <2>1
<1>11. Knows(w, f)'
  <2>1. /\ call'[f].chain = x /\ call'[f].prev = None /\ call'[f].op # "truncate"
        /\ x \in Records => x \notin Clusters /\ call'[f].index = i
        /\ x \in Clusters => call'[f].index = FAT'[x].FATIndex
        /\ vindex(q) = call'[f].pos \div ClusterSize
    BY <1>2, <1>4, <1>7, <1>9 DEF vindex
  <2>2. QED
    BY <1>10, <2>1 DEF Knows, Index, vindex
<1>12. QED
  BY <1>7, <1>9, <1>11

\* A call that goes to the next link comes to something.
LEMMA BumpAll ==
  ASSUME TypeOK, NEW own \in [Places -> Owners], Owned(own), NEW f \in Files,
         NEW q \in Calls, q.chain \in Mine(own, f), q.step = "walk"
  PROVE  /\ LET p == Bump(q)
                x == FAT[q.chain].FATCluster
            IN  /\ p \in Calls /\ p.prev = q.chain /\ p.chain = x /\ p.last = q.index
                /\ p.index = IF x \in Clusters THEN FAT[x].FATIndex ELSE q.index + 1
                /\ p.pos = q.pos /\ p.to = q.to /\ p.from = q.from /\ p.op = q.op
                /\ p.number = q.number /\ p.got = q.got /\ p.step = "walk" /\ p.error = q.error
         /\ LET p == AfterCluster(q)
                x == FAT[q.chain].FATCluster
            IN  /\ p = EndIfDone(Bump(q))
                /\ p.prev = q.chain /\ p.chain = x /\ p.last = q.index
                /\ p.index = IF x \in Clusters THEN FAT[x].FATIndex ELSE q.index + 1
                /\ p.pos = q.pos /\ p.to = q.to /\ p.from = q.from /\ p.op = q.op
                /\ p.number = q.number /\ p.got = q.got /\ p.error = q.error
                /\ p.step = IF left(q) = 0 THEN "return" ELSE "walk"
<1> DEFINE x == FAT[q.chain].FATCluster
           p == Bump(q)
<1>1. q.chain \in Clusters /\ x # None /\ x \notin Free
  <2>1. x # None /\ (x \in Clusters => x \in Mine(own, f)) /\ q.chain \in Clusters
    BY MineFacts
  <2>2. QED
    BY <2>1, MineFacts DEF Free
<1>2. /\ p.prev = q.chain /\ p.chain = x /\ p.last = q.index
      /\ p.index = IF x \in Clusters THEN FAT[x].FATIndex ELSE q.index + 1
      /\ p.pos = q.pos /\ p.to = q.to /\ p.from = q.from /\ p.op = q.op
      /\ p.number = q.number /\ p.got = q.got /\ p.step = "walk" /\ p.error = q.error
  BY <1>1 DEF Bump, Arrive, Calls
<1>3. p \in Calls
  BY <1>1, BumpType
<1>4. left(p) = left(q)
  BY <1>2 DEF left
<1>5. AfterCluster(q) = EndIfDone(p)
  BY DEF AfterCluster
<1> HIDE DEF p
<1>6. LET e == EndIfDone(p)
      IN  /\ e.prev = p.prev /\ e.chain = p.chain /\ e.last = p.last /\ e.index = p.index
          /\ e.pos = p.pos /\ e.to = p.to /\ e.from = p.from /\ e.op = p.op
          /\ e.number = p.number /\ e.got = p.got /\ e.error = p.error
          /\ e.step = IF left(p) = 0 THEN "return" ELSE p.step
  BY <1>3 DEF EndIfDone, Finished, Calls
<1>7. QED
  BY <1>2, <1>3, <1>4, <1>5, <1>6 DEF p

LEMMA BumpKnows ==
  ASSUME TypeOK, NEW own \in [Places -> Owners], Owned(own), NEW f \in Files,
         NEW w \in [Places -> Owners], SameChain(own, w, f), FAT' = FAT,
         NEW q \in Calls, q.chain \in Kept(own, f), q.index = Index(q.chain),
         left(q) > 0 \/ q.op = "truncate" => q.index < vindex(q),
         LET p == call'[f]
             x == FAT[q.chain].FATCluster
         IN  /\ p.prev = q.chain /\ p.chain = x /\ p.last = q.index
             /\ p.index = IF x \in Clusters THEN FAT[x].FATIndex ELSE q.index + 1
             /\ p.pos = q.pos /\ p.to = q.to /\ p.op = q.op
  PROVE  Knows(w, f)'
<1> DEFINE p == call'[f]
           x == FAT[q.chain].FATCluster
<1>2. q.chain \in Mine(own, f) /\ Index(q.chain) \in Nat /\ vindex(q) \in Nat
  BY MineFacts, CallSizes
<1>3. Clusters \intersect Records = {}
  BY Constants
<1>4. x \in Records => TailAt(own, f, x, q.index + 1)
  BY <1>2 DEF TailAt
<1>5. \A r, i : TailAt(own, f, r, i) => TailAt(w, f, r, i)'
  BY ChainKept
<1>6. PICK y, j : y = x /\ j = q.index + 1
  OBVIOUS
<1>7. /\ p.chain = y /\ FAT'[p.prev].FATIndex = q.index /\ p.last = q.index
      /\ y \in Records => y \notin Clusters /\ p.index = j /\ TailAt(w, f, y, j)'
      /\ y \in Clusters => p.index = FAT'[y].FATIndex
      /\ p.pos \div ClusterSize = vindex(q) /\ p.to - p.pos = left(q) /\ p.op = q.op
  BY <1>3, <1>4, <1>5, <1>6 DEF Index, vindex, left
<1>8. j <= vindex(q) \/ ~(left(q) > 0 \/ q.op = "truncate")
  BY <1>2, <1>6
<1>9. QED
  BY <1>7, <1>8 DEF Knows, Index, left, vindex

\* The context of a file is as it was, or names a cluster, or the record at the
\* end of the file.
LEMMA ContextKept ==
  ASSUME TypeOK, NEW own \in [Places -> Owners], Owned(own), NEW f \in Files, FileSound(own, f),
         NEW w \in [Places -> Owners], SameChain(own, w, f),
         \/ hash'[f].TurboFATCluster \notin Records
         \/ /\ hash'[f].TurboFATCluster = hash[f].TurboFATCluster
            /\ hash'[f].TurboFATIndex = hash[f].TurboFATIndex
         \/ TailAt(own, f, hash'[f].TurboFATCluster, hash'[f].TurboFATIndex)
  PROVE  TurboTail(w, f)'
<1>1. hash'[f].TurboFATCluster \in Records =>
        TailAt(own, f, hash'[f].TurboFATCluster, hash'[f].TurboFATIndex)
  BY DEF FileSound, TurboTail
<1>2. \A r, i : TailAt(own, f, r, i) => TailAt(w, f, r, i)'
  BY ChainKept
<1>3. QED
  BY <1>1, <1>2 DEF TurboTail

LEMMA ContextSet ==
  ASSUME TypeOK, NEW f \in Files, NEW x, NEW i
  PROVE  LET h == SetTurbo(f, x, i)[f]
         IN  \/ h.TurboFATCluster = x /\ h.TurboFATIndex = i
             \/ /\ h.TurboFATCluster = hash[f].TurboFATCluster
                /\ h.TurboFATIndex = hash[f].TurboFATIndex
BY DEF TypeOK, SetTurbo, HASH

\* What is held stays where it is.
LEMMA HeldSame ==
  ASSUME TypeOK, NEW own \in [Places -> Owners], Owned(own), NEW f \in Files,
         NEW w \in [Places -> Owners], SameChain(own, w, f), data' = data,
         NEW u, NEW v, Held(own, f, u, v)
  PROVE  Held(w, f, u, v)'
<1>1. \A c \in Kept(own, f) : c \in Kept(w, f)' /\ Index(c)' = Index(c) /\ data'[c] = data[c]
  BY ChainKept, MineFacts
<1>2. \A r, i : TailAt(own, f, r, i) => TailAt(w, f, r, i)' /\ data'[r] = data[r]
  BY ChainKept
<1>3. QED
  BY <1>1, <1>2, HeldStays

\* A read moves nothing.
LEMMA ReadKeeps ==
  ASSUME TypeOK, NEW own \in [Places -> Owners], Owned(own), NEW f \in Files, FileSound(own, f),
         SameChain(own, own, f), data' = data, written' = written,
         call[f].op \in {"none", "read"}, call'[f].op \in {"none", "read"},
         TurboTail(own, f)', Knows(own, f)', GotLast(f)'
  PROVE  FileSound(own, f)'
<1>1. Spaced(own, f)' /\ HeadFirst(own, f)'
  BY ChainKept DEF FileSound
<1>2. Ends(call[f])'
  BY DEF Ends
<1>3. DataHeld(own, f)'
  <2>1. \A u : Owed(call[f], u) /\ Owed(call[f], u)' /\ Last(f, u) = written[f][u]
                 /\ Last(f, u)' = written[f][u]
    BY DEF Owed, Asked, Last
  <2>2. \A u \in FileUnits : written[f][u] # 0 => Held(own, f, u, written[f][u])
    BY <2>1 DEF FileSound, DataHeld
  <2>3. \A u \in FileUnits : \A v : Held(own, f, u, v) => Held(own, f, u, v)'
    BY HeldSame
  <2>4. \A u \in FileUnits : written[f][u] # 0 => Held(own, f, u, written[f][u])'
    BY <2>2, <2>3
  <2>5. QED
    BY <2>1, <2>4 DEF DataHeld
<1>4. QED
  BY <1>1, <1>2, <1>3 DEF FileSound

\* What a read is owed.
LEMMA ReadOwed ==
  ASSUME NEW own, NEW f \in Files, FileSound(own, f), call[f].op = "read",
         NEW u \in FileUnits, written[f][u] # 0
  PROVE  Held(own, f, u, written[f][u])
<1>1. Owed(call[f], u) /\ Last(f, u) = written[f][u]
  BY DEF Owed, Asked, Last
<1>2. QED
  BY <1>1 DEF FileSound, DataHeld

\* The units a call asks for are units of the file.
LEMMA AskedUnits ==
  ASSUME TypeOK, NEW f \in Files, NEW u \in call[f].pos .. call[f].to - 1
  PROVE  u \in FileUnits /\ u \in Nat /\ call[f].pos <= u
<1>1. call[f].pos \in Nat /\ call[f].to \in 0 .. MaxUnits /\ MaxUnits \in Nat
  BY Constants DEF TypeOK, Calls
<1>2. QED
  BY <1>1 DEF FileUnits

\* Zeros, where nothing is held.
LEMMA ZerosLast ==
  ASSUME TypeOK, NEW f \in Files, GotLast(f), NEW n \in Int, n <= left(call[f]) \/ n = 0,
         \A u \in call[f].pos .. call[f].pos + n - 1 : written[f][u] = 0
  PROVE  \A g \in Zeros(call[f], n).got : written[f][g[1]] \in {0, g[2]}
<1>1. Zeros(call[f], n).got = call[f].got \union
        {<<u, 0>> : u \in call[f].pos .. call[f].pos + n - 1}
  BY DEF Zeros, Moved, TypeOK, Calls
<1>2. QED
  BY <1>1 DEF GotLast

LEMMA ReadData ==
  ASSUME TypeOK, TypeOK', NEW own \in [Places -> Owners], Apart, Owned(own),
         \A g \in Files : FileSound(own, g), NEW f \in Files,
         NWReadFile(f), Owned(own)', orphaned' = {}
  PROVE  \A g \in Files : FileSound(own, g)'
<1> DEFINE o == call[f]
<1>0. /\ o \in Calls /\ call \in [Files -> Calls] /\ hash \in [Files -> HASH]
      /\ FileSound(own, f) /\ GotLast(f)
      /\ Clusters \intersect Records = {} /\ EOF \notin Clusters /\ EOF \notin Records
      /\ None \notin Records
  BY Constants DEF TypeOK, FileSound, Places
<1>1. /\ FAT' = FAT /\ inUse' = inUse /\ data' = data /\ written' = written
      /\ \A g \in Files \ {f} : call'[g] = call[g] /\ hash'[g] = hash[g]
      /\ hash'[f].FirstBlock = hash[f].FirstBlock
  <2>1. /\ FAT' = FAT /\ inUse' = inUse /\ data' = data /\ written' = written
        /\ \E p : call' = [call EXCEPT ![f] = p]
        /\ hash' = hash \/ \E x, i : hash' = SetTurbo(f, x, i)
    <3>1. CASE StartRead(f)
      BY <3>1 DEF StartRead, Goto
    <3>2. CASE ReadHole(f) \/ ReadCluster(f)
      BY <3>2 DEF ReadHole, ReadCluster, Goto
    <3>3. CASE ReadEOF(f) \/ ReadRecord(f) \/ ReadReturn(f)
      BY <3>3 DEF ReadEOF, ReadRecord, ReadReturn, Goto
    <3>4. QED
      BY <3>1, <3>2, <3>3 DEF NWReadFile
  <2>2. QED
    BY <1>0, <2>1, TurboFields
<1>2. Free' = Free /\ Mine(own, f)' = Mine(own, f)
  BY <1>1 DEF Free, Mine
<1>3. SUFFICES FileSound(own, f)'
  <2>1. Extends(own, own, f)
    BY DEF Extends
  <2>2. QED
    BY <1>0, <1>1, <1>2, <1>3, <2>1, OtherFiles DEF OthersKept
<1>4. ASSUME Head(f)' = Head(f), call[f].step # "free", call'[f].step # "free"
      PROVE  SameChain(own, own, f)
  BY <1>1, <1>2, <1>4 DEF SameChain
<1>5. CASE StartRead(f)
  <2>1. PICK e \in Extents :
          LET size == hash[f].FileSize
              q    == Started(f, [NoCall EXCEPT
                        !.op = "read", !.from = e[1], !.pos = e[1],
                        !.to = IF e[1] + e[2] > size THEN size ELSE e[1] + e[2]])
          IN  /\ Goto(f, q)
              /\ hash' = IF q.chain \in Clusters THEN SetTurbo(f, q.chain, q.index) ELSE hash
              /\ orphaned' = Misled(f, BeginsPast(q))
    BY <1>5 DEF StartRead
  <2> DEFINE size == hash[f].FileSize
             r == [NoCall EXCEPT
                     !.op = "read", !.from = e[1], !.pos = e[1],
                     !.to = IF e[1] + e[2] > size THEN size ELSE e[1] + e[2]]
             q == Started(f, r)
  <2>2. /\ e[1] \in 0 .. MaxUnits /\ e[2] \in 1 .. MaxUnits /\ e[1] + e[2] <= MaxUnits
        /\ size \in 0 .. MaxUnits
    BY <1>0, FileConstants DEF HASH
  <2>3. e[1] + e[2] \in 0 .. MaxUnits /\ e[1] \in Nat
    BY <2>2, Constants
  <2>4. r \in Calls /\ r.prev = None /\ r.op = "read" /\ r.got = {}
    BY <2>2, <2>3, NoCallType DEF Calls, NoCall
  <2> HIDE DEF r, size
  <2>5. ~BeginsPast(q)
    BY <2>1 DEF Misled, r, size
  <2>6. call' = [call EXCEPT ![f] = q] /\ call[f].op = "none"
    BY <1>5, <2>1 DEF Goto, r, size, StartRead
  <2>7. hash' = hash \/ (q.chain \in Clusters /\ hash' = SetTurbo(f, q.chain, q.index))
    BY <2>1 DEF r, size
  <2> HIDE DEF q
  <2>8. call'[f] = q
    BY <1>0, <2>6
  <2>9. CallOwn(own, f) /\ call[f].step # "free"
    BY <2>6 DEF Owned, CallsOwn, CallOwn
  <2>10. q.head = hash[f].FirstBlock /\ q.op = "read" /\ q.step # "free"
    BY <2>4 DEF q, Started, Arrive, Calls
  <2>11. SameChain(own, own, f)
    BY <1>1, <1>4, <2>6, <2>8, <2>9, <2>10 DEF Head
  <2>12. Knows(own, f)' /\ call'[f].got = {} /\ call'[f].op = "read"
    BY <1>0, <1>1, <2>4, <2>5, <2>6, <2>8, <2>11, Begins DEF q
  <2>13. TurboTail(own, f)'
    <3>1. \/ hash'[f].TurboFATCluster \in Clusters
          \/ /\ hash'[f].TurboFATCluster = hash[f].TurboFATCluster
             /\ hash'[f].TurboFATIndex = hash[f].TurboFATIndex
      BY <2>7, ContextSet
    <3>2. QED
      BY <1>0, <2>11, <3>1, ContextKept
  <2>14. GotLast(f)'
    BY <2>12 DEF GotLast
  <2>15. QED
    BY <1>0, <1>1, <2>6, <2>11, <2>12, <2>13, <2>14, ReadKeeps
<1>6. CASE ReadHole(f)
  <2> DEFINE n == vsize(o)
             p == Zeros(o, n)
  <2>1. /\ o.step = "walk" /\ o.op = "read" /\ o.chain \in Clusters /\ left(o) > 0
        /\ vindex(o) < o.index /\ call' = [call EXCEPT ![f] = p] /\ hash' = hash
    BY <1>6 DEF ReadHole, OnCluster, At, Goto
  <2>2. n \in Int /\ n <= ClusterSize - voffset(o) /\ n <= left(o) /\ n > 0 /\ o.pos + n \in Nat
        /\ left(o) = o.to - o.pos
    BY <1>0, <2>1, CallSize, CallSizes
  <2> HIDE DEF n
  <2>3. p \in Calls
    BY <1>0, <2>2, GotType
  <2>4. /\ p.step = o.step /\ p.op = o.op /\ p.head = o.head /\ p.prev = o.prev
        /\ p.chain = o.chain /\ p.index = o.index /\ p.pos = o.pos + n /\ p.to = o.to
    BY <1>0 DEF Zeros, Moved, Calls
  <2>5. ASSUME NEW u \in o.pos .. o.pos + n - 1 PROVE written[f][u] = 0
    <3>1. u \in o.pos .. o.to - 1
      BY <1>0, <2>2 DEF Calls
    <3>2. u \in FileUnits /\ u \in Nat
      BY <3>1, AskedUnits
    <3>3. u \div ClusterSize = vindex(o)
      BY <1>0, <2>2, <3>2, CallUnits
    <3>4. ~Held(own, f, u, written[f][u])
      BY <1>0, <2>1, <3>3, InHole DEF Held
    <3>5. QED
      BY <1>0, <2>1, <3>2, <3>4, ReadOwed
  <2>6. \A g \in p.got : written[f][g[1]] \in {0, g[2]}
    BY <1>0, <2>2, <2>5, ZerosLast
  <2> HIDE DEF p
  <2>7. call'[f] = p
    BY <1>0, <2>1
  <2>8. SameChain(own, own, f)
    BY <1>1, <1>4, <2>1, <2>4, <2>7 DEF Head
  <2>9. GotLast(f)'
    BY <1>1, <2>6, <2>7 DEF GotLast
  <2>10. TurboTail(own, f)'
    BY <1>0, <2>1, <2>8, ContextKept
  <2>11. Knows(own, f)'
    <3>2. vindex(o) <= vindex(p) /\ vindex(o) \in Nat /\ vindex(p) \in Nat
      <4>1. p.pos \in Nat /\ o.pos <= p.pos
        BY <1>0, <2>2, <2>4 DEF Calls
      <4>2. vindex(o) <= p.pos \div ClusterSize
        BY <1>0, <4>1, CallUnits
      <4>3. QED
        BY <1>0, <2>3, <4>2, CallSizes DEF vindex
    <3>3. o.prev # None => Index(o.prev) \in Nat
      BY <2>1, MineFacts
    <3>4. o.chain \in Clusters /\ o.index = Index(o.chain)
      BY <1>0, <2>1 DEF FileSound, Knows
    <3>5. o.prev # None => Index(o.prev) < vindex(p)
      BY <1>0, <2>1, <3>2, <3>3 DEF FileSound, Knows
    <3>6. /\ call'[f].chain = o.chain /\ call'[f].prev = o.prev /\ call'[f].index = o.index
          /\ call'[f].op = "read" /\ call'[f].pos \div ClusterSize = vindex(p)
      BY <2>1, <2>4, <2>7 DEF vindex
    <3>7. o.chain \notin Records
      BY <1>0, <2>1
    <3>8. QED
      BY <1>1, <3>4, <3>5, <3>6, <3>7 DEF Knows, Index, vindex
  <2>12. QED
    BY <1>0, <1>1, <2>1, <2>4, <2>7, <2>8, <2>9, <2>10, <2>11, ReadKeeps
<1>7. CASE ReadCluster(f)
  <2> DEFINE n == vsize(o)
             moves == left(o) > 0 /\ vindex(o) = o.index
             q == IF moves THEN Got(o, o.chain, n) ELSE o
             p == EndIfDone(Bump(q))
  <2>1. /\ o.step = "walk" /\ o.op = "read" /\ o.chain \in Clusters
        /\ left(o) = 0 \/ vindex(o) >= o.index
        /\ call' = [call EXCEPT ![f] = p]
        /\ hash' = hash \/ (p.chain \in Clusters /\ hash' = SetTurbo(f, p.chain, p.index))
    BY <1>7 DEF ReadCluster, OnCluster, At, Goto
  <2>2. n \in Int /\ n <= ClusterSize - voffset(o) /\ n <= left(o) /\ o.pos + n \in Nat
        /\ left(o) = o.to - o.pos /\ left(o) \in Int /\ vindex(o) \in Nat /\ o.index \in Nat
    BY <1>0, CallSize, CallSizes DEF Calls
  <2>3. o.chain \in Kept(own, f) /\ o.chain \in Mine(own, f) /\ o.index = Index(o.chain)
    BY <1>0, <2>1, MineFacts DEF FileSound, Knows
  <2>4. Got(o, o.chain, n) \in Calls /\ Got(o, o.chain, n).pos = o.pos + n
        /\ Got(o, o.chain, n).to = o.to /\ Got(o, o.chain, n).index = o.index
        /\ Got(o, o.chain, n).chain = o.chain /\ Got(o, o.chain, n).op = o.op
        /\ Got(o, o.chain, n).head = o.head /\ Got(o, o.chain, n).step = o.step
        /\ Got(o, o.chain, n).got = o.got \union
             {<<u, data[o.chain][u % ClusterSize]>> : u \in o.pos .. o.pos + n - 1}
    <3>1. Got(o, o.chain, n) \in Calls
      BY <1>0, <2>1, <2>2, GotType DEF Places
    <3>2. QED
      BY <1>0, <3>1 DEF Got, Moved, Calls
  <2>5. moves => \A u \in o.pos .. o.pos + n - 1 :
                   written[f][u] \in {0, data[o.chain][u % ClusterSize]}
    <3>1. ASSUME moves, NEW u \in o.pos .. o.pos + n - 1, written[f][u] # 0
          PROVE  data[o.chain][u % ClusterSize] = written[f][u]
      <4>1. u \in o.pos .. o.to - 1
        BY <1>0, <2>2 DEF Calls
      <4>2. u \in FileUnits /\ u \in Nat
        BY <4>1, AskedUnits
      <4>3. u \div ClusterSize = Index(o.chain)
        BY <1>0, <2>2, <2>3, <3>1, <4>2, CallUnits
      <4>4. Held(own, f, u, written[f][u])
        BY <1>0, <2>1, <3>1, <4>2, ReadOwed
      <4>5. QED
        BY <1>0, <2>3, <4>3, <4>4, AtCluster DEF FileSound
    <3>2. QED
      BY <3>1
  <2> HIDE DEF n
  <2>6. /\ q \in Calls /\ q.chain = o.chain /\ q.op = "read" /\ q.head = o.head /\ q.step = "walk"
        /\ q.index = o.index /\ q.to = o.to
        /\ \A g \in q.got : written[f][g[1]] \in {0, g[2]}
    <3>1. CASE moves
      <4>1. \A g \in q.got : g \in o.got \/ \E u \in o.pos .. o.pos + n - 1 :
                                                 g = <<u, data[o.chain][u % ClusterSize]>>
        BY <2>4, <3>1
      <4>2. \A g \in q.got : written[f][g[1]] \in {0, g[2]}
        BY <1>0, <2>5, <3>1, <4>1 DEF GotLast
      <4>3. QED
        BY <2>1, <2>4, <3>1, <4>2
    <3>2. CASE ~moves
      BY <1>0, <2>1, <3>2 DEF GotLast
    <3>3. QED
      BY <3>1, <3>2
  <2>7. left(q) > 0 => o.index < vindex(q)
    <3>1. CASE moves
      <4>1. left(q) > 0 => vindex(o) < vindex(q)
        BY <1>0, <2>4, <3>1, <2>6, NextCluster DEF n
      <4>2. QED
        BY <3>1, <4>1
    <3>2. CASE ~moves
      BY <2>1, <2>2, <3>2
    <3>3. QED
      BY <3>1, <3>2
  <2> HIDE DEF q, moves
  <2>8. /\ p.prev = q.chain /\ p.chain = FAT[q.chain].FATCluster /\ p.last = q.index
        /\ p.index = IF FAT[q.chain].FATCluster \in Clusters
                     THEN FAT[FAT[q.chain].FATCluster].FATIndex ELSE q.index + 1
        /\ p.pos = q.pos /\ p.to = q.to /\ p.op = q.op /\ p.got = q.got
        /\ p.step \in {"walk", "return"} /\ p.head = q.head
    <3>1. p = AfterCluster(q) /\ Bump(q) \in Calls
      BY <2>3, <2>6, BumpAll DEF AfterCluster
    <3>2. p.head = q.head
      BY <2>6, <3>1, BumpFields, EndFields
    <3>3. QED
      BY <2>3, <2>6, <3>1, <3>2, BumpAll
  <2> HIDE DEF p
  <2>9. call'[f] = p
    BY <1>0, <2>1
  <2>10. SameChain(own, own, f)
    BY <1>1, <1>4, <2>1, <2>6, <2>8, <2>9 DEF Head
  <2>11. Knows(own, f)'
    BY <1>1, <2>3, <2>6, <2>7, <2>8, <2>9, <2>10, BumpKnows
  <2>12. TurboTail(own, f)'
    <3>1. \/ hash'[f].TurboFATCluster \in Clusters
          \/ /\ hash'[f].TurboFATCluster = hash[f].TurboFATCluster
             /\ hash'[f].TurboFATIndex = hash[f].TurboFATIndex
      BY <2>1, ContextSet
    <3>2. QED
      BY <1>0, <2>10, <3>1, ContextKept
  <2>13. GotLast(f)'
    BY <1>1, <2>6, <2>8, <2>9 DEF GotLast
  <2>14. QED
    BY <1>0, <1>1, <2>1, <2>6, <2>8, <2>9, <2>10, <2>11, <2>12, <2>13, ReadKeeps
<1>8. ASSUME o.step = "walk", o.op = "read", NEW q \in Calls, NEW n \in Int,
             q.op = "read", q.head = o.head,
             call' = [call EXCEPT ![f] = Finished(Zeros(q, n))],
             \A g \in q.got : written[f][g[1]] \in {0, g[2]},
             \A u \in q.pos .. q.pos + n - 1 : written[f][u] = 0,
             \/ hash'[f].TurboFATCluster \notin Records
             \/ /\ hash'[f].TurboFATCluster = hash[f].TurboFATCluster
                /\ hash'[f].TurboFATIndex = hash[f].TurboFATIndex
             \/ TailAt(own, f, hash'[f].TurboFATCluster, hash'[f].TurboFATIndex)
      PROVE  FileSound(own, f)'
  <2> DEFINE p == Finished(Zeros(q, n))
  <2>1. /\ p.op = "read" /\ p.head = o.head /\ p.step = "return"
        /\ p.got = q.got \union {<<u, 0>> : u \in q.pos .. q.pos + n - 1}
    BY <1>8 DEF Finished, Zeros, Moved, Calls
  <2> HIDE DEF p
  <2>2. call'[f] = p
    BY <1>0, <1>8 DEF p
  <2>3. SameChain(own, own, f)
    BY <1>1, <1>4, <1>8, <2>1, <2>2 DEF Head
  <2>4. GotLast(f)'
    BY <1>1, <1>8, <2>1, <2>2 DEF GotLast
  <2>5. Knows(own, f)'
    BY <2>1, <2>2 DEF Knows
  <2>6. TurboTail(own, f)'
    BY <1>0, <1>8, <2>3, ContextKept
  <2>7. QED
    BY <1>0, <1>1, <1>8, <2>1, <2>2, <2>3, <2>4, <2>5, <2>6, ReadKeeps
<1>9. CASE ReadEOF(f)
  <2>1. /\ o.step = "walk" /\ o.op = "read" /\ o.chain = EOF
        /\ call' = [call EXCEPT ![f] = Finished(Zeros(o, left(o)))]
        /\ \E i : hash' = SetTurbo(f, o.prev, i)
    BY <1>9 DEF ReadEOF, OnEOF, At, Goto
  <2>2. left(o) \in Int /\ left(o) = o.to - o.pos /\ o.pos \in Nat /\ o.to \in Nat
    BY <1>0, CallSizes, CallSize, Constants DEF Calls
  <2>3. ASSUME NEW u \in o.pos .. o.pos + left(o) - 1 PROVE written[f][u] = 0
    <3>1. u \in FileUnits /\ u \in Nat /\ o.pos <= u /\ left(o) > 0
      BY <2>2, AskedUnits
    <3>2. vindex(o) <= u \div ClusterSize /\ vindex(o) \in Nat /\ u \div ClusterSize \in Nat
      BY <1>0, <3>1, CallUnits, CallSizes
    <3>3. /\ \A c \in Kept(own, f) : Index(c) < vindex(o) /\ Index(c) \in Nat
          /\ \A r \in Records : \A i : ~TailAt(own, f, r, i)
      BY <1>0, <2>1, <3>1, PastEnd, MineFacts
    <3>4. ~Held(own, f, u, written[f][u])
      BY <3>2, <3>3 DEF Held
    <3>5. QED
      BY <1>0, <2>1, <3>1, <3>4, ReadOwed
  <2>4. \/ hash'[f].TurboFATCluster \notin Records
        \/ /\ hash'[f].TurboFATCluster = hash[f].TurboFATCluster
           /\ hash'[f].TurboFATIndex = hash[f].TurboFATIndex
    <3>1. o.prev \notin Records
      BY <1>0 DEF Calls
    <3>2. QED
      BY <2>1, <3>1, ContextSet
  <2>5. \A g \in o.got : written[f][g[1]] \in {0, g[2]}
    BY <1>0 DEF GotLast
  <2>6. QED
    BY <1>0, <1>8, <2>1, <2>2, <2>3, <2>4, <2>5
<1>10. CASE ReadRecord(f)
  <2> DEFINE size == RecordSize[o.chain]
             held == IF voffset(o) >= size THEN 0
                     ELSE IF left(o) > size - voffset(o) THEN size - voffset(o) ELSE left(o)
             q == IF vindex(o) = o.index THEN Got(o, o.chain, held) ELSE o
  <2>1. /\ o.step = "walk" /\ o.op = "read" /\ o.chain \in Records
        /\ call' = [call EXCEPT ![f] = Finished(Zeros(q, left(q)))]
        /\ hash' = hash \/ hash' = SetTurbo(f, o.chain, o.index)
    BY <1>10 DEF ReadRecord, OnRecord, At, Goto
  <2>2. /\ left(o) \in Int /\ left(o) = o.to - o.pos /\ o.pos \in Nat /\ o.to \in Nat
        /\ size \in 1 .. ClusterSize - 1 /\ voffset(o) \in 0 .. ClusterSize - 1 /\ ClusterSize \in Nat
        /\ vindex(o) \in Nat /\ o.index \in Nat
    BY <1>0, <2>1, CallSizes, CallSize, Constants DEF Calls
  <2>3. /\ TailAt(own, f, o.chain, o.index)
        /\ left(o) > 0 => o.index <= vindex(o)
    BY <1>0, <2>1 DEF FileSound, Knows
  <2>4. /\ held \in Int /\ held <= ClusterSize - voffset(o) /\ (held <= left(o) \/ held = 0)
        /\ o.pos + held \in Nat /\ (held <= size - voffset(o) \/ held = 0)
        /\ left(o) > held => voffset(o) + held >= size
    BY <2>2
  <2>5. ASSUME NEW u \in o.pos .. o.to - 1, written[f][u] # 0
        PROVE  /\ u \div ClusterSize = o.index /\ u % ClusterSize < size
               /\ data[o.chain][u % ClusterSize] = written[f][u]
               /\ vindex(o) = o.index => u \in o.pos .. o.pos + held - 1
    <3>1. u \in FileUnits /\ u \in Nat /\ o.pos <= u /\ left(o) > 0
      BY <2>2, AskedUnits
    <3>2. vindex(o) <= u \div ClusterSize /\ u \div ClusterSize \in Nat /\ u % ClusterSize \in Units
      BY <1>0, <3>1, CallUnits
    <3>3. Held(own, f, u, written[f][u])
      BY <1>0, <2>1, <2>5, <3>1, ReadOwed
    <3>4. o.index <= u \div ClusterSize
      BY <2>2, <2>3, <3>1, <3>2
    <3>5. /\ u \div ClusterSize = o.index /\ u % ClusterSize < size
          /\ data[o.chain][u % ClusterSize] = written[f][u]
      BY <1>0, <2>1, <2>3, <3>1, <3>3, <3>4, AtTail DEF FileSound
    <3>6. ASSUME vindex(o) = o.index PROVE u \in o.pos .. o.pos + held - 1
      <4>1. u \in o.pos .. o.pos + held - 1 <=>
              u \div ClusterSize = vindex(o) /\ u % ClusterSize \in voffset(o) .. voffset(o) + held - 1
        BY <1>0, <2>4, <3>1, CallUnits
      <4>2. u - o.pos = (u % ClusterSize) - (o.pos % ClusterSize)
        <5>1. o.pos \div ClusterSize = u \div ClusterSize
          BY <3>5, <3>6 DEF vindex
        <5> DEFINE a == o.pos
                   s == ClusterSize
        <5>2. a \in Nat /\ s \in Nat /\ s > 0 /\ a \div s = u \div s
          BY <2>2, <5>1, Constants
        <5> HIDE DEF a, s
        <5>3. u - a = (u % s) - (a % s)
          BY <3>1, <5>2, SameCluster
        <5>4. QED
          BY <5>3 DEF a, s
      <4> DEFINE x == u % ClusterSize
                 y == voffset(o)
                 k == left(o)
      <4>3. /\ u - o.pos = x - y /\ u - o.pos \in 0 .. k - 1 /\ x \in Nat /\ y \in Nat /\ k \in Int
            /\ x < size /\ size \in Nat
            /\ held = IF y >= size THEN 0 ELSE IF k > size - y THEN size - y ELSE k
        <5>1. u - o.pos = x - y
          BY <4>2 DEF voffset
        <5>2. x \in Nat
          BY <3>2 DEF Units
        <5>3. u - o.pos \in 0 .. k - 1 /\ y \in Nat /\ k \in Int
          BY <2>2, <2>5, <3>1
        <5>4. x < size /\ size \in Nat
          BY <2>2, <3>5
        <5>5. QED
          BY <5>1, <5>2, <5>3, <5>4
      <4> HIDE DEF x, y, k, size, held
      <4>4. x \in y .. y + held - 1
        BY <4>3
      <4>5. QED
        BY <3>5, <3>6, <4>1, <4>4 DEF x, y
    <3>7. QED
      BY <3>5, <3>6
  <2>6. ASSUME vindex(o) = o.index
        PROVE  /\ q \in Calls /\ q.op = "read" /\ q.head = o.head /\ q.pos = o.pos + held
               /\ q.to = o.to
               /\ \A g \in q.got : written[f][g[1]] \in {0, g[2]}
    <3> DEFINE z == Got(o, o.chain, held)
    <3>1. held \in Int /\ (held <= left(o) \/ held = 0) /\ o.pos + held \in Nat
      BY <2>4
    <3> HIDE DEF held, size
    <3>2. z \in Calls
      BY <1>0, <2>1, <3>1, GotType DEF Places
    <3>3. /\ z.op = o.op /\ z.head = o.head /\ z.pos = o.pos + held /\ z.to = o.to
          /\ z.got = o.got \union
                       {<<u, data[o.chain][u % ClusterSize]>> : u \in o.pos .. o.pos + held - 1}
      BY <1>0, <3>2 DEF Got, Moved, Calls
    <3>4. ASSUME NEW u \in o.pos .. o.pos + held - 1
          PROVE  written[f][u] \in {0, data[o.chain][u % ClusterSize]}
      <4>1. held # 0
        BY <2>2, <3>1, <3>4
      <4>2. u \in o.pos .. o.to - 1
        BY <2>2, <3>1, <3>4, <4>1
      <4>3. QED
        BY <2>5, <4>2
    <3>5. \A g \in z.got : written[f][g[1]] \in {0, g[2]}
      BY <1>0, <3>3, <3>4 DEF GotLast
    <3>6. q = z
      BY <2>6 DEF size, held
    <3> HIDE DEF z, q
    <3>7. QED
      BY <2>1, <3>2, <3>3, <3>5, <3>6
  <2>7. /\ q \in Calls /\ q.op = "read" /\ q.head = o.head /\ q.to = o.to
        /\ q.pos = IF vindex(o) = o.index THEN o.pos + held ELSE o.pos
        /\ \A g \in q.got : written[f][g[1]] \in {0, g[2]}
    <3>1. CASE vindex(o) = o.index
      BY <2>6, <3>1
    <3>2. CASE vindex(o) # o.index
      BY <1>0, <2>1, <3>2 DEF GotLast
    <3>3. QED
      BY <3>1, <3>2
  <2> HIDE DEF q
  <2>8. left(q) = o.to - q.pos /\ left(q) \in Int
    BY <2>7, CallSizes DEF left
  <2>9. ASSUME NEW u \in q.pos .. q.pos + left(q) - 1 PROVE written[f][u] = 0
    <3>1. q.pos \in Nat
      BY <2>7 DEF Calls
    <3>2. u \in q.pos .. o.to - 1
      BY <2>2, <2>8, <2>9, <3>1
    <3>3. CASE vindex(o) = o.index
      <4>3. u \in o.pos .. o.to - 1
        BY <2>2, <2>4, <2>7, <3>2, <3>3
      <4>4. u \notin o.pos .. o.pos + held - 1
        BY <2>2, <2>4, <2>7, <3>1, <3>2, <3>3
      <4>5. QED
        BY <2>5, <3>3, <4>3, <4>4
    <3>4. CASE vindex(o) # o.index
      <4>1. u \in o.pos .. o.to - 1 /\ u \in Nat
        BY <2>2, <2>7, <3>2, <3>4
      <4>2. left(o) > 0
        BY <2>2, <4>1
      <4>3. vindex(o) <= u \div ClusterSize /\ u \div ClusterSize \in Nat
        BY <1>0, <2>2, <4>1, CallUnits
      <4>4. u \div ClusterSize # o.index
        BY <2>2, <2>3, <3>4, <4>2, <4>3
      <4>5. QED
        BY <2>5, <4>1, <4>4
    <3>5. QED
      BY <3>3, <3>4
  <2>10. \/ /\ hash'[f].TurboFATCluster = hash[f].TurboFATCluster
            /\ hash'[f].TurboFATIndex = hash[f].TurboFATIndex
         \/ TailAt(own, f, hash'[f].TurboFATCluster, hash'[f].TurboFATIndex)
    <3>1. \/ /\ hash'[f].TurboFATCluster = hash[f].TurboFATCluster
             /\ hash'[f].TurboFATIndex = hash[f].TurboFATIndex
          \/ hash'[f].TurboFATCluster = o.chain /\ hash'[f].TurboFATIndex = o.index
      BY <2>1, ContextSet
    <3>2. QED
      BY <2>3, <3>1
  <2>11. QED
    BY <1>8, <2>1, <2>7, <2>8, <2>9, <2>10
<1>11. CASE ReadReturn(f)
  <2>1. o.step = "return" /\ o.op = "read" /\ call' = [call EXCEPT ![f] = NoCall] /\ hash' = hash
    BY <1>11 DEF ReadReturn, At, Goto
  <2>2. call'[f] = NoCall /\ NoCall.step = "idle" /\ NoCall.op = "none" /\ NoCall.got = {}
    BY <1>0, <2>1 DEF NoCall
  <2>3. SameChain(own, own, f)
    <3>1. o.head = hash[f].FirstBlock
      BY <2>1 DEF Owned, CallsOwn, CallOwn
    <3>2. QED
      BY <1>1, <1>4, <2>1, <2>2, <3>1 DEF Head
  <2>4. GotLast(f)' /\ Knows(own, f)'
    BY <2>2 DEF GotLast, Knows
  <2>5. TurboTail(own, f)'
    BY <1>0, <2>1, <2>3, ContextKept
  <2>6. QED
    BY <1>0, <1>1, <2>1, <2>2, <2>3, <2>4, <2>5, ReadKeeps
<1>12. QED
  BY <1>5, <1>6, <1>7, <1>9, <1>10, <1>11 DEF NWReadFile

-----------------------------------------------------------------------------
(* Writes *)

\* What a write stores in a cluster or a record.
LEMMA StoredAt ==
  ASSUME NEW d \in [Places -> [Units -> Versions]], NEW o \in Calls, NEW c \in Places
  PROVE  /\ \A x \in Places \ {c} : Transferred(d, o, c)[x] = d[x]
         /\ \A k \in Units :
              Transferred(d, o, c)[c][k] =
                IF o.op # "map" /\ k \in voffset(o) .. voffset(o) + vsize(o) - 1
                THEN o.number ELSE d[c][k]
BY DEF Transferred, Stored

\* A call moves on and nothing it has done is lost.
LEMMA DataKept ==
  ASSUME TypeOK, NEW own \in [Places -> Owners], Owned(own), NEW f \in Files,
         NEW w \in [Places -> Owners], SameChain(own, w, f), data' = data, DataHeld(own, f),
         \A u \in FileUnits : \A v :
           Owed(call[f], u)' /\ Last(f, u)' = v /\ v # 0 =>
             Owed(call[f], u) /\ Last(f, u) = v
  PROVE  DataHeld(w, f)'
<1>1. ASSUME NEW u \in FileUnits, NEW v, Held(own, f, u, v) PROVE Held(w, f, u, v)'
  BY <1>1, HeldSame
<1>2. \A u \in FileUnits : \A v : Held(own, f, u, v) => Held(w, f, u, v)'
  BY <1>1
<1>3. \A u \in FileUnits : \A v :
        Owed(call[f], u)' /\ Last(f, u)' = v /\ v # 0 => Held(w, f, u, v)'
  BY <1>2 DEF DataHeld
<1>4. QED
  BY <1>3 DEF DataHeld

\* The cluster the call came through is linked to y.
LEMMA Links1 ==
  ASSUME NEW fat \in [Clusters -> FAT_ENTRY], NEW o, o.prev # None => o.prev \in Clusters, NEW y
  PROVE  /\ \A c \in Clusters : Relinked(fat, o, y)[c].FATIndex = fat[c].FATIndex
         /\ \A c \in Clusters : c # o.prev => Relinked(fat, o, y)[c] = fat[c]
         /\ o.prev # None => Relinked(fat, o, y)[o.prev].FATCluster = y
<1>1. CASE o.prev = None
  BY <1>1 DEF Relinked
<1>2. CASE o.prev # None
  <2> DEFINE new == Relinked(fat, o, y)
  <2>1. new = [fat EXCEPT ![o.prev].FATCluster = y]
    BY <1>2 DEF Relinked
  <2>2. /\ \A c \in Clusters \ {o.prev} : new[c] = fat[c]
        /\ new[o.prev] = [fat[o.prev] EXCEPT !.FATCluster = y]
    BY <1>2, <2>1
  <2>3. fat[o.prev] \in FAT_ENTRY
    BY <1>2
  <2>4. new[o.prev].FATIndex = fat[o.prev].FATIndex /\ new[o.prev].FATCluster = y
    BY <2>2, <2>3 DEF FAT_ENTRY
  <2> HIDE DEF new
  <2>5. QED
    BY <1>2, <2>2, <2>4 DEF new
<1>3. QED
  BY <1>1, <1>2

\* A write puts cluster c, of index i, behind the cluster it came through.
LEMMA Inserted ==
  ASSUME TypeOK, NEW own \in [Places -> Owners], Owned(own), NEW f \in Files,
         Spaced(own, f), HeadFirst(own, f),
         NEW w \in [Places -> Owners], Owned(w)', Extends(own, w, f),
         call[f].step = "walk", call'[f].step # "free",
         NEW c \in Free, NEW x \in Links, NEW i \in Nat,
         FAT'[c].FATIndex = i, FAT'[c].FATCluster = x,
         \A d \in Clusters : d # c /\ d # call[f].prev => FAT'[d] = FAT[d],
         call[f].prev = None => call[f].chain = Head(f) /\ Head(f)' = c,
         call[f].prev # None => /\ FAT'[call[f].prev].FATCluster = c
                                /\ FAT'[call[f].prev].FATIndex = FAT[call[f].prev].FATIndex
                                /\ FAT[call[f].prev].FATIndex < i
                                /\ Head(f)' = Head(f),
         \A d \in Mine(own, f) : Index(d) # i,
         x \in Clusters => x = call[f].chain /\ i < FAT[x].FATIndex,
         x \notin Clusters => call[f].chain \notin Clusters /\ \A d \in Mine(own, f) : Index(d) < i
  PROVE  /\ Mine(w, f)' = Mine(own, f) \union {c}
         /\ Kept(w, f)' = Mine(own, f) \union {c} /\ Kept(own, f) = Mine(own, f)
         /\ Free' = Free \ {c} /\ w[c] = f
         /\ \A d \in Mine(own, f) : d # c /\ Index(d)' = Index(d)
         /\ Spaced(w, f)' /\ HeadFirst(w, f)'
         /\ \A r \in Records : \A j :
              r # call[f].chain /\ TailAt(own, f, r, j) => TailAt(w, f, r, j)'
<1> DEFINE o == call[f]
           M == Mine(own, f)
<1>1. /\ c \in Clusters /\ c # None /\ x # None /\ EOF # c /\ Clusters \intersect Records = {}
      /\ c \in Places /\ c \notin Live
      /\ \A d \in Clusters \ Free : d \in Live /\ d \in Places
      /\ None \notin Clusters /\ None # EOF
  BY Constants DEF Free, Places, Links, Live, TypeOK
<1>2. /\ o.prev # None => o.prev \in M /\ FAT[o.prev].FATCluster = o.chain /\ o.prev # c
      /\ o.chain \in Clusters => o.chain \in M
      /\ \A d \in M : d # c /\ d \in Clusters /\ d \notin Free
      /\ Kept(own, f) = M /\ ~CutOff(f, c)
  <2>1. \A d \in M : d # c /\ d \in Clusters /\ d \notin Free
    BY DEF Mine
  <2>2. o.prev # None => FAT[o.prev].FATCluster = o.chain
    BY DEF Owned, CallsOwn, CallOwn
  <2>3. QED
    BY <2>1, <2>2, MineFacts DEF CutOff
<1>3. ASSUME NEW d \in Clusters, d # c PROVE FAT'[d].FATIndex = FAT[d].FATIndex
  <2>1. CASE d = o.prev
    BY <1>1, <1>2, <2>1
  <2>2. CASE d # o.prev
    BY <1>3, <2>2
  <2>3. QED
    BY <2>1, <2>2
<1>4. Free' = Free \ {c}
  <2>1. ASSUME NEW d \in Clusters
        PROVE  FAT'[d].FATCluster = None <=> FAT[d].FATCluster = None /\ d # c
    <3>1. CASE d = c
      BY <1>1, <3>1
    <3>2. CASE d # c /\ d = o.prev
      BY <1>1, <1>2, <3>2 DEF Free
    <3>3. CASE d # c /\ d # o.prev
      BY <3>3
    <3>4. QED
      BY <3>1, <3>2, <3>3
  <2>2. QED
    BY <2>1 DEF Free
<1>5. w[c] = f
  <2>1. CASE o.prev = None
    <3>1. \A g \in Files : Head(g)' # EOF => w[Head(g)'] = g
      BY DEF Owned, HeadsOwn
    <3>2. QED
      BY <1>1, <2>1, <3>1
  <2>2. CASE o.prev # None
    <3>1. o.prev \in Clusters \ Free' /\ o.prev \in Live /\ o.prev \in Places /\ own[o.prev] = f
      BY <1>1, <1>2, <1>4, <2>2 DEF Mine
    <3>2. w[o.prev] = f
      BY <3>1 DEF Extends
    <3>3. \A d \in Clusters \ Free' : FAT'[d].FATCluster # EOF => w[FAT'[d].FATCluster] = w[d]
      BY DEF Owned, LinksOwn
    <3>4. QED
      BY <1>1, <2>2, <3>1, <3>2, <3>3
  <2>3. QED
    BY <2>1, <2>2
<1>6. Mine(w, f)' = M \union {c}
  <2>1. \A d \in Clusters \ Free : w[d] = own[d]
    BY <1>1 DEF Extends
  <2>2. QED
    BY <1>1, <1>4, <1>5, <2>1 DEF Mine
<1>7. Kept(w, f)' = M \union {c}
  BY <1>6 DEF Kept, CutOff
<1>8. \A d \in M : Index(d)' = Index(d)
  BY <1>2, <1>3 DEF Index
<1>9. /\ \A d \in M : FAT[d].FATIndex \in Nat
      /\ \A d \in M : FAT[d].FATCluster \in Clusters => FAT[d].FATCluster \in M
      /\ Head(f) \in Clusters => Head(f) \in M
  BY MineFacts DEF Index
<1>10. /\ \A a, b \in M : FAT[a].FATIndex = FAT[b].FATIndex => a = b
       /\ \A a, b \in M : FAT[a].FATIndex < FAT[b].FATIndex =>
            FAT[a].FATCluster \in Clusters /\ FAT[FAT[a].FATCluster].FATIndex <= FAT[b].FATIndex
       /\ \A d \in M : Head(f) \in Clusters /\ FAT[Head(f)].FATIndex <= FAT[d].FATIndex
  <2>1. \A d \in M : ~CutOff(f, d)
    BY DEF CutOff
  <2>2. QED
    BY <1>2, <2>1 DEF Spaced, HeadFirst, Index
<1> HIDE DEF M
\* where the call is, no cluster lies between
<1>11. ASSUME NEW d \in M, o.prev # None => FAT[o.prev].FATIndex < FAT[d].FATIndex
       PROVE  x \in Clusters /\ i < FAT[d].FATIndex /\ FAT[x].FATIndex <= FAT[d].FATIndex
  <2>1. o.chain \in Clusters /\ FAT[o.chain].FATIndex <= FAT[d].FATIndex
    <3>1. CASE o.prev = None
      BY <1>10, <1>11, <3>1
    <3>2. CASE o.prev # None
      BY <1>2, <1>10, <1>11, <3>2
    <3>3. QED
      BY <3>1, <3>2
  <2>2. x \in Clusters /\ x = o.chain /\ i < FAT[x].FATIndex /\ x \in M
    BY <1>2, <2>1
  <2>3. QED
    BY <1>9, <2>1, <2>2
<1>12. ASSUME NEW a \in M \union {c}, NEW b \in M \union {c}
       PROVE  /\ FAT'[a].FATIndex = FAT'[b].FATIndex => a = b
              /\ FAT'[a].FATIndex < FAT'[b].FATIndex =>
                   /\ FAT'[a].FATCluster \in Clusters
                   /\ FAT'[FAT'[a].FATCluster].FATIndex <= FAT'[b].FATIndex
  <2>1. /\ \A d \in M : FAT'[d].FATIndex = FAT[d].FATIndex /\ FAT[d].FATIndex # i
        /\ FAT'[c].FATIndex = i
    BY <1>2, <1>3 DEF Index, M
  <2>2. FAT'[a].FATIndex = FAT'[b].FATIndex => a = b
    BY <1>10, <2>1
  <2>3. ASSUME FAT'[a].FATIndex < FAT'[b].FATIndex
        PROVE  /\ FAT'[a].FATCluster \in Clusters
               /\ FAT'[FAT'[a].FATCluster].FATIndex <= FAT'[b].FATIndex
    <3>1. CASE a = c
      <4>1. b \in M /\ i < FAT[b].FATIndex
        BY <1>9, <2>1, <2>3, <3>1
      <4>2. o.prev # None => FAT[o.prev].FATIndex < FAT[b].FATIndex
        BY <1>2, <1>9, <4>1
      <4>3. x \in Clusters /\ FAT[x].FATIndex <= FAT[b].FATIndex
        BY <1>11, <4>1, <4>2
      <4>4. x # c
        BY <1>2, <4>3
      <4>5. QED
        BY <1>3, <2>1, <3>1, <4>1, <4>3, <4>4
    <3>2. CASE a \in M /\ a = o.prev
      <4>1. FAT'[a].FATCluster = c /\ FAT'[c].FATIndex = i
        BY <1>1, <1>2, <3>2
      <4>2. i <= FAT'[b].FATIndex
        <5>1. CASE b = c
          BY <4>1, <5>1
        <5>2. CASE b \in M
          BY <1>9, <1>11, <2>1, <2>3, <3>2, <5>2
        <5>3. QED
          BY <5>1, <5>2
      <4>3. QED
        BY <1>1, <4>1, <4>2
    <3>3. CASE a \in M /\ a # o.prev
      <4>1. FAT'[a] = FAT[a] /\ a # c
        BY <1>2, <3>3
      <4>2. PICK t \in M : FAT[a].FATIndex < FAT[t].FATIndex /\ FAT[t].FATIndex <= FAT'[b].FATIndex
        <5>1. CASE b \in M
          BY <1>9, <2>1, <2>3, <4>1, <5>1
        <5>2. CASE b = c
          <6>1. o.prev # None /\ ~(FAT[o.prev].FATIndex < FAT[a].FATIndex)
            <7>1. FAT[a].FATIndex < i
              BY <2>1, <2>3, <4>1, <5>2
            <7>2. QED
              BY <1>9, <1>11, <3>3, <7>1
          <6>2. FAT[a].FATIndex # FAT[o.prev].FATIndex
            BY <1>2, <1>10, <3>3, <6>1
          <6>3. QED
            BY <1>2, <1>9, <2>1, <3>3, <5>2, <6>1, <6>2
        <5>3. QED
          BY <5>1, <5>2
      <4>3. /\ FAT[a].FATCluster \in Clusters /\ FAT[a].FATCluster \in M
            /\ FAT[FAT[a].FATCluster].FATIndex <= FAT[t].FATIndex
        BY <1>9, <1>10, <3>3, <4>2
      <4>4. FAT'[FAT[a].FATCluster].FATIndex = FAT[FAT[a].FATCluster].FATIndex
        BY <2>1, <4>3
      <4>5. FAT'[b].FATIndex \in Nat
        BY <1>9, <2>1
      <4>6. QED
        BY <1>9, <4>1, <4>2, <4>3, <4>4, <4>5
    <3>4. QED
      BY <3>1, <3>2, <3>3
  <2>4. QED
    BY <2>2, <2>3
<1>13. Spaced(w, f)'
  BY <1>6, <1>12 DEF Spaced, Index
<1>14. HeadFirst(w, f)'
  <2>1. ASSUME NEW d \in M \union {c}
        PROVE  /\ Head(f)' \in Clusters
               /\ \A h : h = Head(f)' => FAT'[h].FATIndex <= FAT'[d].FATIndex
    <3>1. CASE o.prev = None
      <4>1. d \in M => i < FAT[d].FATIndex
        BY <1>11, <3>1
      <4>2. QED
        BY <1>1, <1>2, <1>3, <1>9, <3>1, <4>1
    <3>2. CASE o.prev # None
      <4>1. /\ Head(f) \in Clusters /\ Head(f) \in M /\ FAT[Head(f)].FATIndex < i
            /\ d \in M => FAT[Head(f)].FATIndex <= FAT[d].FATIndex
        BY <1>2, <1>9, <1>10, <3>2
      <4>2. FAT'[Head(f)].FATIndex = FAT[Head(f)].FATIndex /\ Head(f)' = Head(f)
        BY <1>2, <1>3, <3>2, <4>1
      <4>3. FAT[Head(f)].FATIndex <= FAT'[d].FATIndex
        BY <1>2, <1>3, <1>9, <4>1
      <4>4. QED
        BY <4>1, <4>2, <4>3
    <3>3. QED
      BY <3>1, <3>2
  <2>2. QED
    BY <1>7, <2>1 DEF HeadFirst, Index
<1>15. ASSUME NEW r \in Records, NEW j, r # o.chain, TailAt(own, f, r, j)
       PROVE  TailAt(w, f, r, j)'
  <2>1. CASE Head(f) = r /\ j = 0
    <3>1. Head(f)' = r
      BY <1>15, <2>1
    <3>2. QED
      BY <2>1, <3>1 DEF TailAt
  <2>2. CASE \E d \in Kept(own, f) : FAT[d].FATCluster = r /\ j = Index(d) + 1
    <3>1. PICK d \in M : FAT[d].FATCluster = r /\ j = FAT[d].FATIndex + 1
      BY <1>2, <2>2 DEF Index
    <3>2. d \in Clusters /\ d # c /\ d # o.prev
      BY <1>1, <1>2, <1>15, <3>1
    <3>3. FAT'[d] = FAT[d]
      BY <3>2
    <3>4. FAT'[d].FATCluster = r /\ j = FAT'[d].FATIndex + 1 /\ d \in Kept(w, f)'
      BY <1>7, <3>1, <3>3
    <3>5. QED
      BY <3>4 DEF TailAt, Index
  <2>3. QED
    BY <1>15, <2>1, <2>2 DEF TailAt
<1>16. QED
  BY <1>2, <1>4, <1>5, <1>6, <1>7, <1>8, <1>13, <1>14, <1>15 DEF M

\* A write moves over n units: what it stores there is there, and what was held
\* elsewhere still is.
LEMMA Advanced ==
  ASSUME TypeOK, NEW own, NEW w, NEW f \in Files, DataHeld(own, f), Ends(call[f]),
         call[f].op \in Writes, NEW n \in Int, n >= 0, n <= left(call[f]) \/ n = 0,
         call'[f].op = call[f].op, call'[f].from = call[f].from, call'[f].to = call[f].to,
         call'[f].number = call[f].number, call'[f].pos = call[f].pos + n,
         call'[f].error = call[f].error, call'[f].got = call[f].got, GotLast(f),
         call[f].op = "write" /\ call'[f].step = "return" => left(call[f]) <= n,
         written' = written,
         \A u \in FileUnits : \A v :
           /\ Held(own, f, u, v)
           /\ call[f].op = "write" => u \notin call[f].pos .. call[f].pos + n - 1
           => Held(w, f, u, v)',
         \A u \in FileUnits :
           call[f].op = "write" /\ u \in call[f].pos .. call[f].pos + n - 1 =>
             Held(w, f, u, call[f].number)'
  PROVE  DataHeld(w, f)' /\ Ends(call[f])' /\ GotLast(f)'
<1> DEFINE o == call[f]
<1>1. /\ o \in Calls /\ o.pos \in Nat /\ o.to \in Nat /\ o.from \in Nat /\ left(o) = o.to - o.pos
      /\ FileUnits \subseteq Nat
  BY Constants DEF TypeOK, Calls, left, FileUnits
<1>2. o.op = "write" => o.from <= o.pos
  BY DEF Ends
<1>3. ASSUME NEW u \in FileUnits, NEW v, Owed(call[f], u)', Last(f, u)' = v, v # 0
      PROVE  Held(w, f, u, v)'
  <2>1. Asked(o, u)' <=> Asked(o, u)
    BY DEF Asked
  <2>2. CASE o.op = "write" /\ u \in o.pos .. o.pos + n - 1
    <3>1. Asked(o, u)
      BY <1>1, <1>2, <2>2 DEF Asked
    <3>2. v = o.number
      BY <1>3, <2>1, <3>1 DEF Last
    <3>3. QED
      BY <2>2, <3>2
  <2>3. CASE ~(o.op = "write" /\ u \in o.pos .. o.pos + n - 1)
    <3>1. Last(f, u) = v
      BY <1>3, <2>1 DEF Last
    <3>2. Owed(o, u)
      BY <1>1, <1>3, <2>1, <2>3 DEF Owed, Asked, Writes
    <3>3. Held(own, f, u, v)
      BY <1>3, <3>1, <3>2 DEF DataHeld
    <3>4. QED
      BY <2>3, <3>3
  <2>4. QED
    BY <2>2, <2>3
<1>4. DataHeld(w, f)'
  BY <1>3 DEF DataHeld
<1>5. Ends(call[f])'
  <2>1. o.op # "truncate" /\ left(o)' = left(o) - n
    BY <1>1 DEF Writes, left
  <2>2. o.op = "write" => o.from <= call'[f].pos
    BY <1>1, <1>2
  <2>3. o.op = "write" /\ call'[f].step = "return" => left(o)' <= 0
    BY <1>1, <2>1
  <2>4. QED
    BY <2>1, <2>2, <2>3 DEF Ends
<1>6. GotLast(f)'
  BY DEF GotLast
<1>7. QED
  BY <1>4, <1>5, <1>6

\* The units a write moves over in a cluster or a record are those of its index.
LEMMA AdvancedIn ==
  ASSUME TypeOK, NEW f \in Files, NEW x \in Places, NEW u \in Nat,
         NEW d \in [Places -> [Units -> Versions]]
  PROVE  LET o == call[f]
         IN  /\ \A y \in Places \ {x} : Transferred(d, o, x)[y] = d[y]
             /\ u \div ClusterSize = vindex(o) =>
                  Transferred(d, o, x)[x][u % ClusterSize] =
                    IF o.op # "map" /\ u \in o.pos .. o.pos + vsize(o) - 1
                    THEN o.number ELSE d[x][u % ClusterSize]
             /\ u \in o.pos .. o.pos + vsize(o) - 1 => u \div ClusterSize = vindex(o)
<1> DEFINE o == call[f]
           n == vsize(o)
<1>1. o \in Calls
  BY DEF TypeOK
<1>2. n \in Int /\ n <= ClusterSize - voffset(o)
  BY <1>1, CallSize
<1>3. /\ u % ClusterSize \in Units
      /\ u \in o.pos .. o.pos + n - 1 <=>
           u \div ClusterSize = vindex(o) /\ u % ClusterSize \in voffset(o) .. voffset(o) + n - 1
  BY <1>1, <1>2, CallUnits
<1>4. /\ \A y \in Places \ {x} : Transferred(d, o, x)[y] = d[y]
      /\ Transferred(d, o, x)[x][u % ClusterSize] =
           IF o.op # "map" /\ u % ClusterSize \in voffset(o) .. voffset(o) + vsize(o) - 1
           THEN o.number ELSE d[x][u % ClusterSize]
  BY <1>1, <1>3, StoredAt
<1>5. QED
  BY <1>3, <1>4

LEMMA StaySame ==
  ASSUME TypeOK, NEW own \in [Places -> Owners], Owned(own), NEW f \in Files,
         NEW w \in [Places -> Owners], Extends(own, w, f), FAT' = FAT, Head(f)' = Head(f),
         call[f].step # "free", call'[f].step # "free"
  PROVE  SameChain(own, w, f)
<1>1. Free' = Free
  BY DEF Free
<1>2. \A c \in Clusters \ Free : w[c] = own[c]
  BY DEF Extends, Places, Live
<1>3. Mine(w, f)' = Mine(own, f)
  BY <1>1, <1>2 DEF Mine
<1>4. QED
  BY <1>3 DEF SameChain

\* The write of a cluster, and going on to the next.
LEMMA HitData ==
  ASSUME TypeOK, NEW own \in [Places -> Owners], Owned(own), AllPlaced, NEW f \in Files,
         FileSound(own, f), NEW w \in [Places -> Owners], Extends(own, w, f),
         WriteHit(f) \/ WriteSkip(f)
  PROVE  FileSound(w, f)'
<1> DEFINE o == call[f]
           n == IF WriteHit(f) THEN vsize(o) ELSE 0
           q == IF WriteHit(f) THEN Moved(o, vsize(o)) ELSE o
           p == AfterCluster(q)
<1>1. /\ o.step = "walk" /\ o.op \in Writes /\ o.chain \in Clusters
      /\ IF WriteHit(f) THEN left(o) > 0 /\ vindex(o) = o.index
         ELSE left(o) = 0 \/ vindex(o) > o.index
      /\ data' = IF WriteHit(f) THEN Transferred(data, o, o.chain) ELSE data
      /\ call' = [call EXCEPT ![f] = p]
      /\ \/ hash' = hash
         \/ \E x \in Clusters : \E i : hash' = SetTurbo(f, x, i)
      /\ FAT' = FAT /\ written' = written
  <2>1. CASE WriteHit(f)
    BY <2>1 DEF WriteHit, OnCluster, At, Goto
  <2>2. CASE ~WriteHit(f)
    BY <2>2 DEF WriteSkip, OnCluster, At, Goto
  <2>3. QED
    BY <2>1, <2>2
<1>2. /\ o \in Calls /\ data \in [Places -> [Units -> Versions]] /\ o.chain \in Places
      /\ call \in [Files -> Calls] /\ Clusters \intersect Records = {}
  BY <1>1, Constants DEF TypeOK, Places
<1>3. /\ o.chain \in Kept(own, f) /\ o.chain \in Mine(own, f) /\ Kept(own, f) = Mine(own, f)
      /\ o.index = Index(o.chain) /\ o.index \in Nat /\ vindex(o) \in Nat
      /\ left(o) >= 0 /\ left(o) \in Int
      /\ GotLast(f) /\ Ends(o) /\ DataHeld(own, f) /\ Spaced(own, f) /\ HeadFirst(own, f)
  BY <1>1, <1>2, Standing, MineFacts, CallSizes DEF Writing, FileSound, Wants, Here, Index
<1>4. n \in Int /\ n >= 0 /\ (n <= left(o) \/ n = 0) /\ n <= ClusterSize - voffset(o) /\ o.pos + n \in Nat
  <2>1. /\ voffset(o) \in 0 .. ClusterSize - 1 /\ ClusterSize \in Nat /\ o.pos \in Nat
        /\ vsize(o) \in Int /\ vsize(o) <= left(o) /\ vsize(o) <= ClusterSize - voffset(o)
        /\ o.pos + vsize(o) \in Nat /\ (left(o) > 0 => vsize(o) > 0)
    BY <1>2, CallSizes, CallSize, Constants DEF Calls
  <2>2. CASE WriteHit(f)
    BY <1>1, <2>1, <2>2
  <2>3. CASE ~WriteHit(f)
    BY <1>1, <2>1, <2>3
  <2>4. QED
    BY <2>2, <2>3
<1>5. /\ q \in Calls /\ q.chain = o.chain /\ q.index = o.index /\ q.pos = o.pos + n
      /\ q.to = o.to /\ q.step = o.step /\ q.op = o.op /\ q.head = o.head /\ q.from = o.from
      /\ q.number = o.number /\ q.got = o.got /\ q.error = o.error
  <2>1. Moved(o, vsize(o)) \in Calls
    BY <1>2, CallSizes, CallTypes
  <2>2. LET m == Moved(o, vsize(o))
        IN  /\ m.chain = o.chain /\ m.index = o.index /\ m.pos = o.pos + vsize(o)
            /\ m.to = o.to /\ m.step = o.step /\ m.op = o.op /\ m.head = o.head /\ m.from = o.from
            /\ m.number = o.number /\ m.got = o.got /\ m.error = o.error
    BY <1>2 DEF Moved, Calls
  <2>3. CASE WriteHit(f)
    BY <2>1, <2>2, <2>3
  <2>4. CASE ~WriteHit(f)
    BY <1>2, <2>4 DEF Calls
  <2>5. QED
    BY <2>3, <2>4
<1>6. left(q) > 0 => q.index < vindex(q)
  <2>1. CASE WriteHit(f)
    BY <1>1, <1>2, <1>5, <2>1, NextCluster
  <2>2. CASE ~WriteHit(f)
    BY <1>1, <1>3, <2>2
  <2>3. QED
    BY <2>1, <2>2
<1>7. left(q) = left(o) - n
  BY <1>2, <1>4, <1>5 DEF left, Calls
<1> HIDE DEF q
<1>8. /\ p.prev = q.chain /\ p.chain = FAT[q.chain].FATCluster /\ p.last = q.index
      /\ p.index = IF FAT[q.chain].FATCluster \in Clusters
                   THEN FAT[FAT[q.chain].FATCluster].FATIndex ELSE q.index + 1
      /\ p.pos = q.pos /\ p.to = q.to /\ p.op = q.op /\ p.got = q.got /\ p.from = q.from
      /\ p.number = q.number /\ p.error = q.error /\ p.head = q.head
      /\ p.step = IF left(q) = 0 THEN "return" ELSE "walk"
  <2>1. Bump(q) \in Calls
    BY <1>1, <1>3, <1>5, BumpAll
  <2>2. p.head = q.head
    BY <1>5, <2>1, BumpFields, EndFields DEF AfterCluster
  <2>3. QED
    BY <1>1, <1>3, <1>5, <2>2, BumpAll
<1> HIDE DEF p
<1>9. call'[f] = p
  BY <1>1, <1>2
<1>10. SameChain(own, w, f)
  BY <1>1, <1>5, <1>8, <1>9, StaySame DEF Head, Writes
<1>11. Knows(w, f)'
  BY <1>1, <1>3, <1>5, <1>6, <1>8, <1>9, <1>10, BumpKnows DEF Writes
<1>12. TurboTail(w, f)'
  <2>1. \/ hash'[f].TurboFATCluster \in Clusters
        \/ /\ hash'[f].TurboFATCluster = hash[f].TurboFATCluster
           /\ hash'[f].TurboFATIndex = hash[f].TurboFATIndex
    BY <1>1, ContextSet
  <2>2. QED
    BY <1>2, <1>10, <2>1, ContextKept
<1>13. Kept(w, f)' = Kept(own, f) /\ \A c \in Mine(own, f) : Index(c)' = Index(c)
  BY <1>10, ChainKept
<1>14. \A r, i : TailAt(own, f, r, i) => TailAt(w, f, r, i)'
  BY <1>10, ChainKept
<1>15. ASSUME NEW u \in FileUnits
       PROVE  /\ WriteHit(f) /\ o.op = "write" /\ u \in o.pos .. o.pos + n - 1 =>
                   u \div ClusterSize = Index(o.chain)
                   /\ data'[o.chain][u % ClusterSize] = o.number
              /\ \A y \in Places \ {o.chain} : data'[y] = data[y]
              /\ /\ u \div ClusterSize = Index(o.chain)
                 /\ o.op = "write" => u \notin o.pos .. o.pos + n - 1
                 => data'[o.chain][u % ClusterSize] = data[o.chain][u % ClusterSize]
  <2>1. u \in Nat
    BY Constants DEF FileUnits
  <2>2. CASE WriteHit(f)
    <3>1. n = vsize(o) /\ data' = Transferred(data, o, o.chain) /\ vindex(o) = Index(o.chain)
      BY <1>1, <1>3, <2>2
    <3>2. o.op # "map" <=> o.op = "write"
      BY <1>1 DEF Writes
    <3> HIDE DEF n
    <3>3. QED
      BY <1>2, <2>1, <3>1, <3>2, AdvancedIn
  <2>3. CASE ~WriteHit(f)
    BY <1>1, <2>3
  <2>4. QED
    BY <2>2, <2>3
<1>16. ASSUME NEW u \in FileUnits, NEW v, Held(own, f, u, v),
              o.op = "write" => u \notin o.pos .. o.pos + n - 1
       PROVE  Held(w, f, u, v)'
  <2>1. ASSUME NEW c \in Kept(own, f), Index(c) = u \div ClusterSize
        PROVE  /\ c \in Kept(w, f)' /\ Index(c)' = Index(c)
               /\ data'[c][u % ClusterSize] = data[c][u % ClusterSize]
    <3>1. c \in Mine(own, f) /\ c \in Places
      BY <1>3 DEF Mine, Places
    <3>2. data'[c][u % ClusterSize] = data[c][u % ClusterSize]
      BY <1>15, <1>16, <2>1, <3>1
    <3>3. QED
      BY <1>13, <3>1, <3>2
  <2>2. ASSUME NEW r \in Records, TailAt(own, f, r, u \div ClusterSize)
        PROVE  /\ TailAt(w, f, r, u \div ClusterSize)'
               /\ data'[r][u % ClusterSize] = data[r][u % ClusterSize]
    <3>1. r \in Places /\ r # o.chain
      BY <1>1, <1>2 DEF Places
    <3>2. QED
      BY <1>14, <1>15, <2>2, <3>1
  <2>3. QED
    BY <1>16, <2>1, <2>2, HeldStays
<1>17. ASSUME NEW u \in FileUnits, o.op = "write", u \in o.pos .. o.pos + n - 1
       PROVE  Held(w, f, u, o.number)'
  <2>1. WriteHit(f)
    BY <1>2, <1>17 DEF Calls
  <2>2. u \div ClusterSize = Index(o.chain) /\ data'[o.chain][u % ClusterSize] = o.number
    BY <1>15, <1>17, <2>1
  <2>3. PICK c \in Kept(w, f)' : c = o.chain
    BY <1>3, <1>13
  <2>4. PICK v : v = o.number
    OBVIOUS
  <2>5. Index(c)' = u \div ClusterSize /\ data'[c][u % ClusterSize] = v
    BY <1>3, <1>13, <2>2, <2>3, <2>4
  <2>6. call'[f].number = v
    BY <1>5, <1>8, <1>9, <2>4
  <2>7. QED
    BY <2>5, <2>6 DEF Held
<1>18. o.op = "write" /\ call'[f].step = "return" => left(o) <= n
  BY <1>3, <1>4, <1>7, <1>8, <1>9
<1>19. /\ call'[f].op = o.op /\ call'[f].from = o.from /\ call'[f].to = o.to
       /\ call'[f].number = o.number /\ call'[f].pos = o.pos + n
       /\ call'[f].error = o.error /\ call'[f].got = o.got
  BY <1>5, <1>8, <1>9
<1> HIDE DEF n
<1>20. DataHeld(w, f)' /\ Ends(call[f])' /\ GotLast(f)'
  BY <1>1, <1>3, <1>4, <1>16, <1>17, <1>18, <1>19, Advanced
<1>21. Spaced(w, f)' /\ HeadFirst(w, f)'
  BY <1>3, <1>10, ChainKept
<1>22. QED
  BY <1>11, <1>12, <1>20, <1>21 DEF FileSound

LEMMA BeginData ==
  ASSUME TypeOK, NEW own \in [Places -> Owners], Owned(own), NEW f \in Files,
         FileSound(own, f), NEW w \in [Places -> Owners], Extends(own, w, f),
         StartWrite(f), orphaned' = {}
  PROVE  FileSound(w, f)'
<1>1. PICK op \in Writes, e \in Extents :
        LET q == Started(f, [NoCall EXCEPT !.op = op, !.from = e[1], !.to = e[1] + e[2],
                                           !.pos = e[1], !.number = calls + 1])
        IN  /\ Goto(f, q)
            /\ hash' = IF op = "write" /\ TurboFat /\ q.chain \in Clusters
                       THEN [hash EXCEPT ![f].TurboFATCluster = q.chain]
                       ELSE hash
            /\ orphaned' = Misled(f, BeginsPast(q))
  BY DEF StartWrite
<1> DEFINE r == [NoCall EXCEPT !.op = op, !.from = e[1], !.to = e[1] + e[2],
                               !.pos = e[1], !.number = calls + 1]
           q == Started(f, r)
<1>2. /\ e[1] \in 0 .. MaxUnits /\ e[2] \in 1 .. MaxUnits /\ e[1] + e[2] <= MaxUnits
      /\ calls + 1 \in 0 .. MaxCalls
  BY FileConstants DEF StartWrite, TypeOK
<1>3. e[1] + e[2] \in 0 .. MaxUnits /\ e[1] \in Nat
  BY <1>2, Constants
<1>4. /\ r \in Calls /\ r.prev = None /\ r.op \in {"write", "map"} /\ r.from = r.pos
      /\ r.got = {}
  BY <1>2, <1>3, NoCallType DEF Calls, Writes, Versions, NoCall
<1> HIDE DEF r
<1>5. ~BeginsPast(q)
  BY <1>1 DEF Misled, r
<1>6. /\ call' = [call EXCEPT ![f] = q] /\ call[f].op = "none" /\ FAT' = FAT
      /\ data' = data /\ written' = written
  BY <1>1 DEF Goto, r, StartWrite
<1>7. /\ hash'[f].FirstBlock = hash[f].FirstBlock
      /\ \/ hash'[f].TurboFATCluster \notin Records
         \/ /\ hash'[f].TurboFATCluster = hash[f].TurboFATCluster
            /\ hash'[f].TurboFATIndex = hash[f].TurboFATIndex
  BY <1>1, Constants DEF HASH, r, TypeOK
<1>8. call'[f] = Started(f, r)
  BY <1>6 DEF TypeOK
<1> HIDE DEF q
<1>9. Head(f)' = Head(f)
  BY <1>4, <1>5, <1>6, <1>7, <1>8, Begun DEF q, Head, StartWrite
<1>10. call[f].step # "free" /\ call'[f].step # "free"
  BY <1>4, <1>5, <1>6, <1>7, <1>8, Begun DEF Owned, CallsOwn, CallOwn, q, StartWrite
<1>11. SameChain(own, w, f)
  BY <1>6, <1>9, <1>10, StaySame
<1>12. /\ Knows(w, f)' /\ call'[f].step = "walk"
       /\ call'[f].op = r.op /\ call'[f].pos = r.pos /\ call'[f].from = r.from
       /\ call'[f].to = r.to /\ call'[f].number = r.number /\ call'[f].got = r.got
  BY <1>4, <1>5, <1>6, <1>8, <1>11, Begins DEF q
<1>13. TurboTail(w, f)'
  BY <1>7, <1>11, ContextKept
<1>14. DataHeld(own, f) /\ Spaced(own, f) /\ HeadFirst(own, f)
  BY DEF FileSound
<1>15. DataHeld(w, f)'
  <2>1. ASSUME NEW u \in FileUnits, NEW v, Owed(call[f], u)', Last(f, u)' = v, v # 0
        PROVE  Owed(call[f], u) /\ Last(f, u) = v
    <3>1. u \in Nat /\ r.from \in Nat /\ r.to \in Nat
      BY <1>4, Constants DEF FileUnits, Calls
    <3>2. ~Asked(call[f], u)'
      BY <1>4, <1>12, <2>1, <3>1 DEF Owed, Asked
    <3>3. Owed(call[f], u) /\ ~Asked(call[f], u)
      BY <1>6 DEF Owed, Asked
    <3>4. QED
      BY <1>6, <2>1, <3>2, <3>3 DEF Last
  <2>2. QED
    BY <1>6, <1>11, <1>14, <2>1, DataKept
<1>16. Ends(call[f])'
  <2>1. r.from \in Nat
    BY <1>4 DEF Calls
  <2>2. QED
    BY <1>4, <1>12, <2>1 DEF Ends
<1>17. GotLast(f)'
  BY <1>4, <1>12 DEF GotLast
<1>18. Spaced(w, f)' /\ HeadFirst(w, f)'
  BY <1>11, <1>14, ChainKept
<1>19. QED
  BY <1>12, <1>13, <1>15, <1>16, <1>17, <1>18 DEF FileSound

\* A call that fails, and one that returns: what it has not done is forgotten.
LEMMA FailData ==
  ASSUME TypeOK, NEW own \in [Places -> Owners], Owned(own), NEW f \in Files,
         FileSound(own, f), NEW w \in [Places -> Owners], Extends(own, w, f), WriteFails(f)
  PROVE  FileSound(w, f)'
<1> DEFINE o == call[f]
<1>1. /\ call' = [call EXCEPT ![f] = Failed(o)] /\ o.op \in Writes /\ o.step = "walk"
      /\ FAT' = FAT /\ data' = data /\ hash' = hash /\ written' = written
  BY DEF WriteFails, Goto, OnCluster, OnEOF, OnRecord, At
<1>2. /\ call'[f].step = "return" /\ call'[f].error
      /\ call'[f].op = o.op /\ call'[f].pos = o.pos /\ call'[f].from = o.from
      /\ call'[f].to = o.to /\ call'[f].number = o.number /\ call'[f].got = o.got
      /\ call'[f].head = o.head
  BY <1>1 DEF Failed, TypeOK, Calls
<1>3. SameChain(own, w, f)
  BY <1>1, <1>2, StaySame DEF Head, Writes
<1>4. DataHeld(own, f) /\ Spaced(own, f) /\ HeadFirst(own, f) /\ GotLast(f) /\ Ends(o)
  BY DEF FileSound
<1>5. TurboTail(w, f)'
  BY <1>1, <1>3, ContextKept
<1>6. Knows(w, f)'
  BY <1>2 DEF Knows
<1>7. ASSUME NEW u \in FileUnits, NEW v, Owed(call[f], u)', Last(f, u)' = v
      PROVE  Owed(call[f], u) /\ Last(f, u) = v
  BY <1>1, <1>2, <1>7 DEF Owed, Asked, Last
<1>8. DataHeld(w, f)'
  BY <1>1, <1>3, <1>4, <1>7, DataKept
<1>9. Ends(call[f])' /\ GotLast(f)'
  BY <1>1, <1>2, <1>4 DEF Ends, GotLast, Writes
<1>10. Spaced(w, f)' /\ HeadFirst(w, f)'
  BY <1>3, <1>4, ChainKept
<1>11. QED
  BY <1>5, <1>6, <1>8, <1>9, <1>10 DEF FileSound

LEMMA WriteReturnData ==
  ASSUME TypeOK, NEW own \in [Places -> Owners], Owned(own), NEW f \in Files,
         FileSound(own, f), NEW w \in [Places -> Owners], Extends(own, w, f),
         WriteReturn(f), orphaned' = {}
  PROVE  FileSound(w, f)'
<1> DEFINE o == call[f]
<1>1. /\ call' = [call EXCEPT ![f] = NoCall] /\ o.op \in Writes /\ o.step = "return"
      /\ FAT' = FAT /\ data' = data /\ hash' = Update(f, o) /\ written' = Recorded(f, o)
      /\ orphaned' = Misled(f, o.error /\ o.head # hash[f].FirstBlock)
  BY DEF WriteReturn, Goto, At
<1>2. o \in Calls /\ hash[f] \in HASH
  BY DEF TypeOK
<1>3. call'[f] = NoCall
  BY <1>1 DEF TypeOK
<1>4. /\ hash'[f].FirstBlock = o.head
      /\ hash'[f].TurboFATCluster = hash[f].TurboFATCluster
      /\ hash'[f].TurboFATIndex = hash[f].TurboFATIndex
  <2>1. o.error => o.head = hash[f].FirstBlock
    BY <1>1 DEF Misled
  <2>2. QED
    BY <1>1, <1>2, <2>1 DEF Update, HASH, TypeOK
<1>5. SameChain(own, w, f)
  <2>1. Head(f)' = Head(f)
    BY <1>1, <1>3, <1>4 DEF Head, NoCall, Writes
  <2>2. QED
    BY <1>1, <1>3, <2>1, StaySame DEF NoCall
<1>6. DataHeld(own, f) /\ Spaced(own, f) /\ HeadFirst(own, f) /\ Ends(o)
  BY DEF FileSound
<1>7. ASSUME NEW u \in FileUnits, NEW v, Last(f, u)' = v, v # 0
      PROVE  Owed(o, u) /\ Last(f, u) = v
  <2>1. /\ written'[f][u] = IF u \notin o.from .. o.to - 1 \/ (o.op = "map" /\ ~o.error)
                            THEN written[f][u] ELSE IF o.error THEN 0 ELSE o.number
    BY <1>1 DEF Recorded, TypeOK
  <2>2. written'[f][u] = v
    BY <1>3, <1>7 DEF Last, Asked, NoCall
  <2>3. u \in Nat /\ left(o) = o.to - o.pos /\ o.to \in Nat /\ o.pos \in Nat /\ o.from \in Nat
    BY <1>2, Constants, CallSize DEF FileUnits, Calls
  <2>4. CASE u \notin o.from .. o.to - 1 \/ o.op = "map"
    BY <1>1, <1>7, <2>1, <2>2, <2>4 DEF Owed, Asked, Last, Writes
  <2>5. CASE u \in o.from .. o.to - 1 /\ o.op = "write"
    <3>1. ~o.error /\ v = o.number
      BY <1>7, <2>1, <2>2, <2>5
    <3>2. u < o.pos
      BY <1>1, <1>6, <2>3, <2>5, <3>1 DEF Ends
    <3>3. QED
      BY <2>5, <3>1, <3>2 DEF Owed, Asked, Last
  <2>6. QED
    BY <1>1, <2>4, <2>5 DEF Writes
<1>8. DataHeld(w, f)'
  BY <1>1, <1>5, <1>6, <1>7, DataKept
<1>9. Ends(call[f])' /\ GotLast(f)' /\ Knows(w, f)'
  BY <1>3 DEF Ends, GotLast, Knows, NoCall
<1>10. TurboTail(w, f)'
  BY <1>4, <1>5, ContextKept
<1>11. Spaced(w, f)' /\ HeadFirst(w, f)'
  BY <1>5, <1>6, ChainKept
<1>12. QED
  BY <1>8, <1>9, <1>10, <1>11 DEF FileSound

\* A write that ends inside the record at the end of the chain.
LEMMA TailData ==
  ASSUME TypeOK, NEW own \in [Places -> Owners], Apart, Owned(own), AllPlaced, NEW f \in Files,
         FileSound(own, f), NEW w \in [Places -> Owners], Extends(own, w, f), WriteTail(f)
  PROVE  FileSound(w, f)'
<1> DEFINE o == call[f]
           n == left(o)
<1>1. /\ o.step = "walk" /\ o.op \in Writes /\ o.chain \in Records /\ Fits(o)
      /\ data' = Transferred(data, o, o.chain)
      /\ call' = [call EXCEPT ![f] = Finished(Moved(o, n))]
      /\ FAT' = FAT /\ hash' = hash /\ written' = written
  BY DEF WriteTail, OnRecord, At, Goto
<1>2. /\ o \in Calls /\ data \in [Places -> [Units -> Versions]] /\ o.chain \in Places
      /\ o.chain \notin Clusters /\ \A c \in Clusters : c \in Places
      /\ \A r \in Records : r \in Places
      /\ ClusterSize \in Nat /\ RecordSize[o.chain] \in 1 .. ClusterSize - 1
  BY <1>1, Constants DEF TypeOK, Places
<1>3. /\ Kept(own, f) = Mine(own, f) /\ n > 0 /\ n \in Int
      /\ o.index \in Nat /\ vindex(o) \in Nat /\ vindex(o) = o.index
      /\ GotLast(f) /\ Ends(o) /\ DataHeld(own, f) /\ Spaced(own, f) /\ HeadFirst(own, f)
      /\ Knows(own, f)
  BY <1>1, <1>2, Standing, MineFacts, CallSizes DEF Writing, FileSound, Wants, Fits
<1>4. TailAt(own, f, o.chain, o.index)
  BY <1>1, <1>3 DEF Knows
<1>5. /\ voffset(o) \in 0 .. ClusterSize - 1 /\ n + voffset(o) < RecordSize[o.chain]
      /\ vsize(o) = n /\ n < ClusterSize - voffset(o)
  <2>1. voffset(o) \in 0 .. ClusterSize - 1 /\ n + voffset(o) < RecordSize[o.chain]
    BY <1>1, <1>2, CallSizes DEF Fits
  <2>2. n < ClusterSize - voffset(o)
    BY <1>2, <1>3, <2>1
  <2>3. QED
    BY <1>2, <1>3, <2>1, <2>2 DEF vsize
<1>6. /\ call'[f].step = "return" /\ call'[f].head = o.head
      /\ call'[f].op = o.op /\ call'[f].from = o.from /\ call'[f].to = o.to
      /\ call'[f].number = o.number /\ call'[f].pos = o.pos + n
      /\ call'[f].error = o.error /\ call'[f].got = o.got
  BY <1>1 DEF Finished, Moved, TypeOK, Calls
<1>7. SameChain(own, w, f)
  BY <1>1, <1>6, StaySame DEF Head, Writes
<1>8. TurboTail(w, f)' /\ Knows(w, f)'
  BY <1>1, <1>6, <1>7, ContextKept DEF Knows
<1>9. Kept(w, f)' = Kept(own, f) /\ \A c \in Mine(own, f) : Index(c)' = Index(c)
  BY <1>7, ChainKept
<1>10. \A r, i : TailAt(own, f, r, i) => TailAt(w, f, r, i)'
  BY <1>7, ChainKept
<1>11. ASSUME NEW u \in FileUnits
       PROVE  /\ \A y \in Places \ {o.chain} : data'[y] = data[y]
              /\ u \div ClusterSize = vindex(o) =>
                   data'[o.chain][u % ClusterSize] =
                     IF o.op = "write" /\ u \in o.pos .. o.pos + n - 1
                     THEN o.number ELSE data[o.chain][u % ClusterSize]
              /\ u \in o.pos .. o.pos + n - 1 =>
                   /\ u \div ClusterSize = vindex(o)
                   /\ u % ClusterSize < RecordSize[o.chain]
  <2>1. u \in Nat
    BY Constants DEF FileUnits
  <2>2. o.op # "map" <=> o.op = "write"
    BY <1>1 DEF Writes
  <2>3. u \in o.pos .. o.pos + n - 1 =>
          u \div ClusterSize = vindex(o) /\ u % ClusterSize \in voffset(o) .. voffset(o) + n - 1
    BY <1>2, <1>3, <1>5, <2>1, CallUnits
  <2>4. u % ClusterSize \in voffset(o) .. voffset(o) + n - 1 => u % ClusterSize < RecordSize[o.chain]
    BY <1>2, <1>3, <1>5
  <2> HIDE DEF n
  <2>5. QED
    BY <1>1, <1>2, <1>5, <2>1, <2>2, <2>3, <2>4, AdvancedIn
<1>12. ASSUME NEW u \in FileUnits, NEW v, Held(own, f, u, v),
              o.op = "write" => u \notin o.pos .. o.pos + n - 1
       PROVE  Held(w, f, u, v)'
  <2>1. ASSUME NEW c \in Kept(own, f), Index(c) = u \div ClusterSize
        PROVE  /\ c \in Kept(w, f)' /\ Index(c)' = Index(c)
               /\ data'[c][u % ClusterSize] = data[c][u % ClusterSize]
    BY <1>2, <1>3, <1>9, <1>11, MineFacts
  <2>2. ASSUME NEW r \in Records, TailAt(own, f, r, u \div ClusterSize)
        PROVE  /\ TailAt(w, f, r, u \div ClusterSize)'
               /\ data'[r][u % ClusterSize] = data[r][u % ClusterSize]
    <3>1. r = o.chain /\ u \div ClusterSize = o.index
      BY <1>1, <1>3, <1>4, <2>2, TailOne
    <3>2. QED
      BY <1>3, <1>10, <1>11, <1>12, <2>2, <3>1
  <2>3. QED
    BY <1>12, <2>1, <2>2, HeldStays
<1>13. ASSUME NEW u \in FileUnits, o.op = "write", u \in o.pos .. o.pos + n - 1
       PROVE  Held(w, f, u, call[f].number)'
  <2>1. PICK r \in Records : r = o.chain
    BY <1>1
  <2>2. /\ u \div ClusterSize = o.index /\ u % ClusterSize < RecordSize[r]
        /\ data'[r][u % ClusterSize] = o.number
    BY <1>3, <1>11, <1>13, <2>1
  <2>3. TailAt(w, f, r, u \div ClusterSize)'
    BY <1>4, <1>10, <2>1, <2>2
  <2>4. QED
    BY <1>6, <2>2, <2>3 DEF Held
<1>14. DataHeld(w, f)' /\ Ends(call[f])' /\ GotLast(f)'
  <2> HIDE DEF n
  <2>1. n \in Int /\ n >= 0 /\ n <= left(call[f]) /\ left(call[f]) <= n
    BY <1>3 DEF n
  <2>2. QED
    BY <1>1, <1>3, <1>6, <1>12, <1>13, <2>1, Advanced
<1>15. Spaced(w, f)' /\ HeadFirst(w, f)'
  BY <1>3, <1>7, ChainKept
<1>16. QED
  BY <1>8, <1>14, <1>15 DEF FileSound

-----------------------------------------------------------------------------
(* Clusters that a write adds *)

\* Cluster c is put at index i, between the cluster before the call and x.
PutIn(own, f, c, x, i) ==
  /\ FAT'[c].FATIndex = i /\ FAT'[c].FATCluster = x
  /\ \A d \in Clusters : d # c /\ d # call[f].prev => FAT'[d] = FAT[d]
  /\ call[f].prev = None => call[f].chain = Head(f) /\ Head(f)' = c
  /\ call[f].prev # None => /\ FAT'[call[f].prev].FATCluster = c
                            /\ FAT'[call[f].prev].FATIndex = FAT[call[f].prev].FATIndex
                            /\ FAT[call[f].prev].FATIndex < i
                            /\ Head(f)' = Head(f)
  /\ \A d \in Mine(own, f) : Index(d) # i
  /\ x \in Clusters => x = call[f].chain /\ i < FAT[x].FATIndex
  /\ x \notin Clusters => call[f].chain \notin Clusters /\ \A d \in Mine(own, f) : Index(d) < i

LEMMA LinkedIn ==
  ASSUME TypeOK, NEW o \in Calls, NEW c \in Free, NEW x \in Links, NEW i \in Nat, o.prev # c,
         FAT' = Relinked([FAT EXCEPT ![c] = [FATIndex |-> i, FATCluster |-> x]], o, c)
  PROVE  /\ FAT'[c].FATIndex = i /\ FAT'[c].FATCluster = x
         /\ \A d \in Clusters : d # c /\ d # o.prev => FAT'[d] = FAT[d]
         /\ o.prev # None => /\ FAT'[o.prev].FATCluster = c
                             /\ FAT'[o.prev].FATIndex = FAT[o.prev].FATIndex
<1> DEFINE fat == [FAT EXCEPT ![c] = [FATIndex |-> i, FATCluster |-> x]]
<1>1. /\ c \in Clusters /\ FAT \in [Clusters -> FAT_ENTRY] /\ o.prev \in Clusters \union {None}
      /\ FAT' = Relinked(fat, o, c)
  BY DEF Free, TypeOK, Calls
<1>2. /\ fat \in [Clusters -> FAT_ENTRY]
      /\ fat[c].FATIndex = i /\ fat[c].FATCluster = x
      /\ \A d \in Clusters : d # c => fat[d] = FAT[d]
  BY <1>1 DEF FAT_ENTRY
<1> HIDE DEF fat
<1>3. o.prev # None => o.prev \in Clusters
  BY <1>1
<1>4. /\ \A d \in Clusters : Relinked(fat, o, c)[d].FATIndex = fat[d].FATIndex
      /\ \A d \in Clusters : d # o.prev => Relinked(fat, o, c)[d] = fat[d]
      /\ o.prev # None => Relinked(fat, o, c)[o.prev].FATCluster = c
  BY <1>2, <1>3, Links1
<1>5. QED
  BY <1>1, <1>2, <1>3, <1>4

LEMMA InsertedData ==
  ASSUME TypeOK, NEW own \in [Places -> Owners], Owned(own), NEW f \in Files, FileSound(own, f),
         NEW w \in [Places -> Owners], Owned(w)', Extends(own, w, f),
         call[f].step = "walk", call[f].op \in Writes, call'[f].step # "free",
         NEW c \in Free, NEW x \in Links, NEW i \in Nat, PutIn(own, f, c, x, i),
         NEW n \in Int, n >= 0, n <= left(call[f]) \/ n = 0,
         call'[f].op = call[f].op, call'[f].from = call[f].from, call'[f].to = call[f].to,
         call'[f].number = call[f].number, call'[f].pos = call[f].pos + n,
         call'[f].error = call[f].error, call'[f].got = call[f].got,
         call[f].op = "write" /\ call'[f].step = "return" => left(call[f]) <= n,
         written' = written,
         \A y \in Places \ {c} : data'[y] = data[y],
         \A u \in FileUnits :
           call[f].op = "write" /\ u \in call[f].pos .. call[f].pos + n - 1 =>
             u \div ClusterSize = i /\ data'[c][u % ClusterSize] = call[f].number,
         \A u \in FileUnits :
           /\ call[f].chain \in Records
           /\ TailAt(own, f, call[f].chain, u \div ClusterSize)
           /\ u % ClusterSize < RecordSize[call[f].chain]
           /\ call[f].op = "write" => u \notin call[f].pos .. call[f].pos + n - 1
           => /\ u \div ClusterSize = i
              /\ data'[c][u % ClusterSize] = data[call[f].chain][u % ClusterSize],
         \/ hash'[f].TurboFATCluster = c
         \/ /\ hash'[f].TurboFATCluster = hash[f].TurboFATCluster
            /\ hash'[f].TurboFATIndex = hash[f].TurboFATIndex
            /\ hash[f].TurboFATCluster \in Records => hash[f].TurboFATCluster # call[f].chain,
         Knows(w, f)',
         \A g \in Files \ {f} : call'[g] = call[g] /\ hash'[g] = hash[g] /\ written'[g] = written[g]
  PROVE  FileSound(w, f)' /\ OthersKept(own, w, f)
<1> DEFINE o == call[f]
<1>1. /\ GotLast(f) /\ Ends(o) /\ DataHeld(own, f) /\ Spaced(own, f) /\ HeadFirst(own, f)
      /\ TurboTail(own, f)
  BY DEF FileSound
<1>2. /\ Mine(w, f)' = Mine(own, f) \union {c}
      /\ Kept(w, f)' = Mine(own, f) \union {c} /\ Kept(own, f) = Mine(own, f)
      /\ \A d \in Mine(own, f) : d # c /\ Index(d)' = Index(d)
      /\ Spaced(w, f)' /\ HeadFirst(w, f)'
      /\ \A r \in Records : \A j :
           r # call[f].chain /\ TailAt(own, f, r, j) => TailAt(w, f, r, j)'
      /\ Free' = Free \ {c} /\ w[c] = f
  BY <1>1, Inserted DEF PutIn
<1>3. /\ c \in Clusters /\ \A y \in Clusters : y \in Places /\ y \notin Records
      /\ \A y \in Records : y \in Places
  BY Constants DEF Free, Places
<1>4. FAT'[c].FATIndex = i
  BY DEF PutIn
<1>5. ASSUME NEW u \in FileUnits, NEW v, Held(own, f, u, v),
             o.op = "write" => u \notin o.pos .. o.pos + n - 1
      PROVE  Held(w, f, u, v)'
  <2>1. CASE \E r \in Records : /\ r = o.chain /\ TailAt(own, f, r, u \div ClusterSize)
                                /\ u % ClusterSize < RecordSize[r]
                                /\ data[r][u % ClusterSize] = v
    <3>1. u \div ClusterSize = i /\ data'[c][u % ClusterSize] = v
      BY <1>5, <2>1
    <3>2. c \in Kept(w, f)'
      BY <1>2
    <3>3. QED
      BY <1>4, <3>1, <3>2 DEF Held, Index
  <2>2. CASE \E r \in Records : /\ r # o.chain /\ TailAt(own, f, r, u \div ClusterSize)
                                /\ u % ClusterSize < RecordSize[r]
                                /\ data[r][u % ClusterSize] = v
    <3>1. PICK r \in Records : /\ TailAt(w, f, r, u \div ClusterSize)'
                               /\ u % ClusterSize < RecordSize[r]
                               /\ data[r][u % ClusterSize] = v
      BY <1>2, <2>2
    <3>2. data'[r][u % ClusterSize] = v
      BY <1>3, <3>1
    <3>3. QED
      BY <3>1, <3>2 DEF Held
  <2>3. CASE \E d \in Kept(own, f) : Index(d) = u \div ClusterSize /\ data[d][u % ClusterSize] = v
    <3>1. PICK d \in Kept(own, f) : Index(d) = u \div ClusterSize /\ data[d][u % ClusterSize] = v
      BY <2>3
    <3>2. /\ d \in Kept(w, f)' /\ Index(d)' = u \div ClusterSize
          /\ data'[d][u % ClusterSize] = v
      BY <1>2, <1>3, <3>1, MineFacts
    <3>3. QED
      BY <3>2 DEF Held
  <2>4. QED
    BY <1>5, <2>1, <2>2, <2>3 DEF Held
<1>6. ASSUME NEW u \in FileUnits, o.op = "write", u \in o.pos .. o.pos + n - 1
      PROVE  Held(w, f, u, call[f].number)'
  <2>1. u \div ClusterSize = i /\ data'[c][u % ClusterSize] = call'[f].number
    BY <1>6
  <2>2. c \in Kept(w, f)'
    BY <1>2
  <2>3. QED
    BY <1>4, <2>1, <2>2 DEF Held, Index
<1>7. DataHeld(w, f)' /\ Ends(call[f])' /\ GotLast(f)'
  BY <1>1, <1>5, <1>6, Advanced
<1>8. TurboTail(w, f)'
  BY <1>1, <1>2, <1>3 DEF TurboTail
<1>9. OthersKept(own, w, f)
  <2>1. call[f].prev # None => own[call[f].prev] = f
    BY DEF Owned, CallsOwn, CallOwn
  <2>2. ASSUME NEW d \in Clusters \ Free, own[d] # f
        PROVE  d \notin Free' /\ FAT'[d] = FAT[d] /\ data'[d] = data[d]
    <3>1. d # c /\ d # call[f].prev
      BY <2>1, <2>2, Constants DEF Places
    <3>2. QED
      BY <1>2, <1>3, <3>1 DEF PutIn
  <2>3. QED
    BY <1>2, <1>3, <2>2 DEF OthersKept, TypeOK
<1>10. QED
  BY <1>2, <1>7, <1>8, <1>9 DEF FileSound

\* What an insertion does to the call.
LEMMA PutFields ==
  ASSUME TypeOK, NEW o \in Calls, NEW c \in Free, NEW n \in Int, o.pos + n \in Nat
  PROVE  LET p == [Moved(Headed(o, c), n) EXCEPT !.prev = c]
         IN  /\ p.prev = c /\ p.chain = o.chain /\ p.op = o.op /\ p.from = o.from /\ p.to = o.to
             /\ p.number = o.number /\ p.pos = o.pos + n /\ p.error = o.error /\ p.got = o.got
             /\ p.index = o.index /\ p.step = o.step /\ p.last = o.last
             /\ p.head = IF o.prev = None THEN c ELSE o.head
             /\ p \in Calls
<1>1. c \in Links /\ c \in Clusters
  BY DEF Free, Links
<1>2. Headed(o, c) \in Calls /\ Headed(o, c).pos = o.pos
  BY <1>1, CallTypes DEF Headed, Calls
<1>3. Moved(Headed(o, c), n) \in Calls
  BY <1>2, CallTypes
<1>4. [Moved(Headed(o, c), n) EXCEPT !.prev = c] \in Calls
  BY <1>1, <1>3, CallTypes
<1>5. QED
  BY <1>4 DEF Moved, Headed, Calls

\* A call that writes c goes on behind it.
LEMMA PutKnows ==
  ASSUME TypeOK, NEW w, NEW f \in Files, call'[f].op \in Writes, NEW i \in Nat,
         call'[f].chain \notin Records,
         call'[f].chain \in Clusters => call'[f].index = FAT'[call'[f].chain].FATIndex,
         FAT'[call'[f].prev].FATIndex = i,
         left(call'[f]) > 0 => i < vindex(call'[f])
  PROVE  Knows(w, f)'
BY DEF Knows, Index, Writes, left, vindex

LEMMA HoleData ==
  ASSUME TypeOK, TypeOK', NEW own \in [Places -> Owners], Owned(own), AllPlaced, NEW f \in Files,
         FileSound(own, f), NEW w \in [Places -> Owners], Owned(w)', Extends(own, w, f),
         WriteHole(f)
  PROVE  FileSound(w, f)' /\ OthersKept(own, w, f)
<1> DEFINE o == call[f]
           i == vindex(o)
           n == vsize(o)
<1>1. PICK c \in Free :
        /\ FAT' = Relinked([FAT EXCEPT ![c] = [FATIndex |-> i, FATCluster |-> o.chain]], o, c)
        /\ data' = Transferred(data, o, c)
        /\ call' = [call EXCEPT ![f] = [Moved(Headed(o, c), n) EXCEPT !.prev = c]]
        /\ hash' = SetTurbo(f, c, i)
  BY DEF WriteHole, Goto
<1>2. /\ o.step = "walk" /\ o.op \in Writes /\ o.chain \in Clusters /\ i < o.index
      /\ left(o) > 0 /\ written' = written
  BY DEF WriteHole, OnCluster, At
<1>3. /\ o \in Calls /\ data \in [Places -> [Units -> Versions]] /\ c \in Clusters
      /\ \A d \in Clusters : d \in Places /\ d \in Links /\ d \notin Records
      /\ i \in Nat /\ n \in Int /\ n > 0 /\ n <= left(o) /\ o.pos + n \in Nat
      /\ n <= ClusterSize - voffset(o) /\ left(o) \in Int
  BY <1>1, <1>2, Constants, CallSizes, CallSize DEF TypeOK, Places, Free, Links
<1>4. /\ Here(o) /\ Before(o) /\ o.chain \notin Free /\ o.index = FAT[o.chain].FATIndex
      /\ o.prev \in Clusters \union {None}
  BY <1>2, Standing DEF Writing
<1>5. o.prev = None => o.chain = o.head
  BY <1>2, <1>3, Place
<1>6. o.prev # c
  <2>1. o.prev # None => o.prev \notin Free
    BY <1>2 DEF Owned, CallsOwn, CallOwn
  <2>2. QED
    BY <1>3, <2>1, Constants DEF Free, Places
<1>7. LET p == call'[f]
      IN  /\ p.prev = c /\ p.chain = o.chain /\ p.op = o.op /\ p.from = o.from /\ p.to = o.to
          /\ p.number = o.number /\ p.pos = o.pos + n /\ p.error = o.error /\ p.got = o.got
          /\ p.index = o.index /\ p.step = o.step
          /\ p.head = IF o.prev = None THEN c ELSE o.head
          /\ p \in Calls
  <2>1. call'[f] = [Moved(Headed(o, c), n) EXCEPT !.prev = c]
    BY <1>1 DEF TypeOK
  <2> HIDE DEF n
  <2>2. QED
    BY <1>3, <2>1, PutFields
<1>8. /\ FAT'[c].FATIndex = i /\ FAT'[c].FATCluster = o.chain
      /\ \A d \in Clusters : d # c /\ d # o.prev => FAT'[d] = FAT[d]
      /\ o.prev # None => /\ FAT'[o.prev].FATCluster = c
                          /\ FAT'[o.prev].FATIndex = FAT[o.prev].FATIndex
  <2>1. o.chain \in Links
    BY <1>2, <1>3
  <2> HIDE DEF i
  <2>2. QED
    BY <1>1, <1>3, <1>6, <2>1, LinkedIn
<1>9. /\ Head(f) = o.head /\ Head(f)' = (IF o.prev = None THEN c ELSE o.head)
  BY <1>2, <1>7 DEF Head, Writes
<1>10. \A d \in Mine(own, f) : Index(d) # i
  BY <1>2, InHole, MineFacts
<1>11. PutIn(own, f, c, o.chain, i)
  BY <1>2, <1>3, <1>4, <1>5, <1>8, <1>9, <1>10 DEF PutIn, Before
<1>12. ASSUME NEW u \in FileUnits
       PROVE  /\ \A y \in Places \ {c} : data'[y] = data[y]
              /\ o.op = "write" /\ u \in o.pos .. o.pos + n - 1 =>
                   u \div ClusterSize = i /\ data'[c][u % ClusterSize] = o.number
  <2>1. u \in Nat /\ c \in Places
    BY <1>3, Constants DEF FileUnits
  <2>2. QED
    BY <1>1, <1>3, <2>1, AdvancedIn
<1>13. Knows(w, f)'
  <2>1. left(call'[f]) > 0 => i < vindex(call'[f])
    BY <1>2, <1>3, <1>7, NextCluster
  <2>2. FAT'[o.chain].FATIndex = FAT[o.chain].FATIndex
    <3>1. o.chain # c /\ o.chain # None
      BY <1>2, <1>4, Constants DEF Places
    <3>2. QED
      BY <1>2, <1>8, <3>1
  <2>3. call'[f].chain = o.chain /\ call'[f].prev = c /\ call'[f].index = o.index /\ call'[f].op = o.op
    BY <1>7
  <2> HIDE DEF i
  <2>4. QED
    BY <1>2, <1>3, <1>4, <1>8, <2>1, <2>2, <2>3, PutKnows
<1>14. \/ hash'[f].TurboFATCluster = c
       \/ /\ hash'[f].TurboFATCluster = hash[f].TurboFATCluster
          /\ hash'[f].TurboFATIndex = hash[f].TurboFATIndex
          /\ hash[f].TurboFATCluster \in Records => hash[f].TurboFATCluster # o.chain
  BY <1>1, <1>2, <1>3, ContextSet
<1>15. \A u \in FileUnits :
         o.op = "write" /\ u \in o.pos .. o.pos + n - 1 =>
           u \div ClusterSize = i /\ data'[c][u % ClusterSize] = o.number
  BY <1>12
<1>16. \A y \in Places \ {c} : data'[y] = data[y]
  BY <1>1, <1>3, StoredAt
<1>17. /\ call'[f].op = o.op /\ call'[f].from = o.from /\ call'[f].to = o.to
       /\ call'[f].number = o.number /\ call'[f].pos = o.pos + n
       /\ call'[f].error = o.error /\ call'[f].got = o.got
       /\ call'[f].step = "walk"
  BY <1>2, <1>7
<1>18. n >= 0 /\ o.chain \in Links /\ o.chain \notin Records
  BY <1>2, <1>3
<1>19. \A g \in Files \ {f} : call'[g] = call[g] /\ hash'[g] = hash[g] /\ written'[g] = written[g]
  BY <1>1, <1>2, TurboFields DEF TypeOK
<1> HIDE DEF i, n
<1>20. QED
  BY <1>2, <1>3, <1>11, <1>13, <1>14, <1>15, <1>16, <1>17, <1>18, <1>19, InsertedData

LEMMA EndAll ==
  ASSUME NEW p \in Calls
  PROVE  LET q == EndIfDone(p)
         IN  /\ q.prev = p.prev /\ q.chain = p.chain /\ q.op = p.op /\ q.from = p.from
             /\ q.to = p.to /\ q.number = p.number /\ q.pos = p.pos /\ q.error = p.error
             /\ q.got = p.got /\ q.index = p.index /\ q.head = p.head /\ q \in Calls
             /\ q.step = IF p.to - p.pos = 0 THEN "return" ELSE p.step
<1>1. EndIfDone(p) \in Calls
  BY CallTypes
<1>2. QED
  BY <1>1 DEF EndIfDone, Finished, left, Calls

LEMMA ExtendData ==
  ASSUME TypeOK, TypeOK', NEW own \in [Places -> Owners], Owned(own), AllPlaced, NEW f \in Files,
         FileSound(own, f), NEW w \in [Places -> Owners], Owned(w)', Extends(own, w, f),
         WriteExtend(f)
  PROVE  FileSound(w, f)' /\ OthersKept(own, w, f)
<1> DEFINE o == call[f]
           i == vindex(o)
           n == vsize(o)
<1>1. PICK c \in Free :
        /\ FAT' = Relinked([FAT EXCEPT ![c] = [FATIndex |-> i, FATCluster |-> EOF]], o, c)
        /\ data' = Transferred(data, o, c)
        /\ call' = [call EXCEPT ![f] = EndIfDone([Moved(Headed(o, c), n) EXCEPT !.prev = c])]
        /\ hash' = SetTurbo(f, c, i)
  BY DEF WriteExtend, Goto
<1>2. /\ o.step = "walk" /\ o.op \in Writes /\ o.chain = EOF /\ written' = written
  BY DEF WriteExtend, OnEOF, At
<1>3. /\ o \in Calls /\ data \in [Places -> [Units -> Versions]] /\ c \in Clusters
      /\ \A d \in Clusters : d \in Places /\ d \notin Records
      /\ EOF \in Links /\ EOF \notin Clusters /\ EOF \notin Records
      /\ i \in Nat /\ n \in Int /\ n <= left(o) /\ o.pos + n \in Nat
      /\ n <= ClusterSize - voffset(o) /\ left(o) \in Int /\ left(o) = o.to - o.pos
      /\ o.pos \in Nat /\ o.to \in Nat /\ (left(o) > 0 => n > 0)
  <2>1. o \in Calls
    BY DEF TypeOK
  <2>2. o.pos \in Nat /\ o.to \in Nat
    BY <2>1, Constants DEF Calls
  <2>3. QED
    BY <1>1, <1>2, <2>1, <2>2, Constants, CallSizes, CallSize DEF TypeOK, Places, Free, Links
<1>4. /\ Before(o) /\ left(o) > 0 /\ o.prev \in Clusters \union {None}
  BY <1>2, <1>3, Standing DEF Writing, Wants
<1>5. o.prev = None => o.chain = o.head
  BY <1>2, <1>3, Place
<1>6. o.prev # c
  <2>1. o.prev # None => o.prev \notin Free
    BY <1>2 DEF Owned, CallsOwn, CallOwn
  <2>2. QED
    BY <1>3, <2>1, Constants DEF Free, Places
<1>7. LET p == call'[f]
      IN  /\ p.prev = c /\ p.chain = EOF /\ p.op = o.op /\ p.from = o.from /\ p.to = o.to
          /\ p.number = o.number /\ p.pos = o.pos + n /\ p.error = o.error /\ p.got = o.got
          /\ p.step = IF o.to - (o.pos + n) = 0 THEN "return" ELSE "walk"
          /\ p.head = IF o.prev = None THEN c ELSE o.head
          /\ p \in Calls
  <2> DEFINE m == [Moved(Headed(o, c), n) EXCEPT !.prev = c]
  <2>1. call'[f] = EndIfDone(m)
    BY <1>1 DEF TypeOK
  <2> HIDE DEF n
  <2>2. /\ m.prev = c /\ m.chain = EOF /\ m.op = o.op /\ m.from = o.from /\ m.to = o.to
        /\ m.number = o.number /\ m.pos = o.pos + n /\ m.error = o.error /\ m.got = o.got
        /\ m.step = "walk" /\ m.head = IF o.prev = None THEN c ELSE o.head
        /\ m \in Calls
    BY <1>2, <1>3, PutFields
  <2> HIDE DEF m
  <2>3. QED
    BY <2>1, <2>2, EndAll
<1>8. /\ FAT'[c].FATIndex = i /\ FAT'[c].FATCluster = EOF
      /\ \A d \in Clusters : d # c /\ d # o.prev => FAT'[d] = FAT[d]
      /\ o.prev # None => /\ FAT'[o.prev].FATCluster = c
                          /\ FAT'[o.prev].FATIndex = FAT[o.prev].FATIndex
  <2> HIDE DEF i
  <2>1. QED
    BY <1>1, <1>3, <1>6, LinkedIn
<1>9. /\ Head(f) = o.head /\ Head(f)' = (IF o.prev = None THEN c ELSE o.head)
  BY <1>2, <1>7 DEF Head, Writes
<1>10. \A d \in Mine(own, f) : Index(d) < i /\ Index(d) # i
  <2>1. \A d \in Mine(own, f) : Index(d) < i /\ Index(d) \in Nat
    BY <1>2, <1>4, PastEnd, MineFacts
  <2>2. QED
    BY <1>3, <2>1
<1>11. PutIn(own, f, c, EOF, i)
  BY <1>2, <1>3, <1>4, <1>5, <1>8, <1>9, <1>10 DEF PutIn, Before
<1>12. ASSUME NEW u \in FileUnits, o.op = "write", u \in o.pos .. o.pos + n - 1
       PROVE  u \div ClusterSize = i /\ data'[c][u % ClusterSize] = o.number
  <2>1. u \in Nat /\ c \in Places
    BY <1>3, Constants DEF FileUnits
  <2>2. QED
    BY <1>1, <1>3, <1>12, <2>1, AdvancedIn
<1>13. Knows(w, f)'
  <2>1. left(call'[f]) > 0 => i < vindex(call'[f])
    BY <1>2, <1>3, <1>4, <1>7, NextCluster
  <2>2. call'[f].chain = EOF /\ call'[f].prev = c /\ call'[f].op = o.op
    BY <1>7
  <2> HIDE DEF i
  <2>3. QED
    BY <1>2, <1>3, <1>8, <2>1, <2>2, PutKnows
<1>14. \/ hash'[f].TurboFATCluster = c
       \/ /\ hash'[f].TurboFATCluster = hash[f].TurboFATCluster
          /\ hash'[f].TurboFATIndex = hash[f].TurboFATIndex
          /\ hash[f].TurboFATCluster \in Records => hash[f].TurboFATCluster # o.chain
  BY <1>1, <1>2, <1>3, ContextSet
<1>15. \A y \in Places \ {c} : data'[y] = data[y]
  BY <1>1, <1>3, StoredAt
<1>16. /\ call'[f].op = o.op /\ call'[f].from = o.from /\ call'[f].to = o.to
       /\ call'[f].number = o.number /\ call'[f].pos = o.pos + n
       /\ call'[f].error = o.error /\ call'[f].got = o.got
       /\ call'[f].step # "free"
  BY <1>7
<1>17. call'[f].step = "return" => left(o) <= n
  BY <1>3, <1>7
<1>18. n >= 0 /\ n <= left(o) /\ o.chain \notin Records
  BY <1>2, <1>3, <1>4
<1>19. \A u \in FileUnits :
         o.op = "write" /\ u \in o.pos .. o.pos + n - 1 =>
           u \div ClusterSize = i /\ data'[c][u % ClusterSize] = o.number
  BY <1>12
<1>20. o.step = "walk" /\ o.op \in Writes /\ written' = written
       /\ EOF \in Links /\ i \in Nat /\ n \in Int
  BY <1>2, <1>3
<1>21. \A g \in Files \ {f} : call'[g] = call[g] /\ hash'[g] = hash[g] /\ written'[g] = written[g]
  BY <1>1, <1>2, TurboFields DEF TypeOK
<1> HIDE DEF i, n
<1>22. QED
  BY <1>11, <1>13, <1>14, <1>15, <1>16, <1>17, <1>18, <1>19, <1>20, <1>21, InsertedData

LEMMA CopiedAt ==
  ASSUME TypeOK, NEW x \in Places, NEW y \in Places, NEW n \in Int
  PROVE  /\ Copied(x, y, n) \in [Places -> [Units -> Versions]]
         /\ \A z \in Places \ {y} : Copied(x, y, n)[z] = data[z]
         /\ \A k \in Units : Copied(x, y, n)[y][k] = IF k < n THEN data[x][k] ELSE data[y][k]
<1>1. Copied(x, y, n) \in [Places -> [Units -> Versions]]
  BY CopyType
<1>2. QED
  BY <1>1 DEF Copied, TypeOK, Places

LEMMA ConvertData ==
  ASSUME TypeOK, TypeOK', NEW own \in [Places -> Owners], Apart, Owned(own), AllPlaced,
         NEW f \in Files, FileSound(own, f),
         NEW w \in [Places -> Owners], Owned(w)', Extends(own, w, f),
         WriteConvert(f), orphaned' = {}
  PROVE  FileSound(w, f)' /\ OthersKept(own, w, f)
<1> DEFINE o == call[f]
           i == o.index
           n == IF vindex(o) = i THEN vsize(o) ELSE 0
           r == o.chain
           copy(c) == Copied(r, c, RecordSize[r])
<1>1. PICK c \in Free :
        /\ FAT' = Relinked([FAT EXCEPT ![c] = [FATIndex |-> i, FATCluster |-> EOF]], o, c)
        /\ data' = IF n > 0 THEN Transferred(copy(c), o, c) ELSE copy(c)
        /\ call' = [call EXCEPT ![f] =
                      EndIfDone([Moved(Headed(o, c), n) EXCEPT !.prev = c, !.chain = EOF])]
        /\ hash' = SetTurbo(f, c, i)
  BY DEF WriteConvert, Goto
<1>2. /\ o.step = "walk" /\ o.op \in Writes /\ r \in Records /\ written' = written
      /\ vindex(o) >= i /\ ~LosesChain(f, o)
  BY DEF WriteConvert, OnRecord, At, Misled
<1>3. /\ o \in Calls /\ data \in [Places -> [Units -> Versions]] /\ c \in Clusters
      /\ r \in Places /\ c \in Places /\ r \notin Clusters /\ RecordSize[r] \in Int
      /\ c \notin Records /\ EOF \in Links /\ EOF \notin Clusters /\ EOF \notin Records
      /\ o.pos \in Nat /\ o.to \in Nat /\ i \in Nat /\ vindex(o) \in Nat /\ left(o) \in Int
      /\ left(o) = o.to - o.pos
  <2>1. o \in Calls
    BY DEF TypeOK
  <2>2. o.pos \in Nat /\ o.to \in Nat /\ o.index \in Nat
    BY <2>1, Constants DEF Calls
  <2>3. QED
    BY <1>1, <1>2, <2>1, <2>2, Constants, CallSizes, CallSize DEF TypeOK, Places, Free, Links
<1>4. left(o) > 0 /\ o.prev \in Clusters \union {None} /\ Before(o)
  BY <1>2, <1>3, Standing DEF Writing, Wants
<1>5. /\ n \in Int /\ n >= 0 /\ n <= left(o) /\ o.pos + n \in Nat
      /\ n > 0 <=> vindex(o) = i
      /\ n > 0 => n = vsize(o)
  <2>1. vsize(o) \in Int /\ vsize(o) > 0 /\ vsize(o) <= left(o) /\ o.pos + vsize(o) \in Nat
    BY <1>3, <1>4, CallSizes, CallSize
  <2>2. QED
    BY <1>3, <1>4, <2>1
<1>6. o.prev # c
  <2>1. o.prev # None => o.prev \notin Free
    BY <1>2 DEF Owned, CallsOwn, CallOwn
  <2>2. QED
    BY <1>3, <2>1, Constants DEF Free, Places
<1> HIDE DEF n
<1>7. LET p == call'[f]
      IN  /\ p.prev = c /\ p.chain = EOF /\ p.op = o.op /\ p.from = o.from /\ p.to = o.to
          /\ p.number = o.number /\ p.pos = o.pos + n /\ p.error = o.error /\ p.got = o.got
          /\ p.step = IF o.to - (o.pos + n) = 0 THEN "return" ELSE "walk"
          /\ p.head = IF o.prev = None THEN c ELSE o.head
          /\ p \in Calls
  <2> DEFINE m == [Moved(Headed(o, c), n) EXCEPT !.prev = c]
             q == [m EXCEPT !.chain = EOF]
  <2>1. call'[f] = EndIfDone(q)
    BY <1>1 DEF TypeOK
  <2>2. /\ m.prev = c /\ m.op = o.op /\ m.from = o.from /\ m.to = o.to
        /\ m.number = o.number /\ m.pos = o.pos + n /\ m.error = o.error /\ m.got = o.got
        /\ m.step = "walk" /\ m.head = IF o.prev = None THEN c ELSE o.head
        /\ m \in Calls
    BY <1>2, <1>3, <1>5, PutFields
  <2> HIDE DEF m
  <2>3. /\ q.prev = c /\ q.chain = EOF /\ q.op = o.op /\ q.from = o.from /\ q.to = o.to
        /\ q.number = o.number /\ q.pos = o.pos + n /\ q.error = o.error /\ q.got = o.got
        /\ q.step = "walk" /\ q.head = IF o.prev = None THEN c ELSE o.head
        /\ q \in Calls
    BY <1>3, <2>2 DEF Calls
  <2> HIDE DEF q
  <2>4. QED
    BY <2>1, <2>3, EndAll
<1>8. /\ FAT'[c].FATIndex = i /\ FAT'[c].FATCluster = EOF
      /\ \A d \in Clusters : d # c /\ d # o.prev => FAT'[d] = FAT[d]
      /\ o.prev # None => /\ FAT'[o.prev].FATCluster = c
                          /\ FAT'[o.prev].FATIndex = FAT[o.prev].FATIndex
  <2> HIDE DEF i
  <2>1. QED
    BY <1>1, <1>3, <1>6, LinkedIn
<1>9. /\ Head(f) = o.head /\ Head(f)' = (IF o.prev = None THEN c ELSE o.head)
  BY <1>2, <1>7 DEF Head, Writes
<1>10. TailAt(own, f, r, i) /\ Spaced(own, f) /\ HeadFirst(own, f)
  BY <1>2 DEF FileSound, Knows
<1>11. \A d \in Mine(own, f) : Index(d) < i /\ Index(d) # i
  <2>1. \A d \in Mine(own, f) : Index(d) < i /\ Index(d) \in Nat
    BY <1>2, <1>10, TailFacts, MineFacts
  <2>2. QED
    BY <1>3, <2>1
<1>12. PutIn(own, f, c, EOF, i)
  <2>1. o.prev = None => r = Head(f)
    BY <1>2, <1>9 DEF LosesChain
  <2>2. QED
    BY <1>2, <1>3, <1>4, <1>8, <1>9, <1>11, <2>1 DEF PutIn, Before
<1>13. ASSUME NEW u \in FileUnits
       PROVE  /\ u \in o.pos .. o.pos + n - 1 =>
                   /\ u \div ClusterSize = i
                   /\ o.op = "write" => data'[c][u % ClusterSize] = o.number
              /\ /\ u \div ClusterSize = i /\ u % ClusterSize < RecordSize[r]
                 /\ o.op = "write" => u \notin o.pos .. o.pos + n - 1
                 => data'[c][u % ClusterSize] = data[r][u % ClusterSize]
  <2>0. u \in Nat
    BY Constants DEF FileUnits
  <2>1. u \in Nat /\ u % ClusterSize \in Units
    BY <1>3, <2>0, CallUnits
  <2>2. /\ copy(c) \in [Places -> [Units -> Versions]]
        /\ u % ClusterSize < RecordSize[r] =>
             copy(c)[c][u % ClusterSize] = data[r][u % ClusterSize]
    BY <1>3, <2>1, CopiedAt
  <2>3. CASE n > 0
    <3> HIDE DEF copy
    <3>1. data' = Transferred(copy(c), o, c) /\ vindex(o) = i /\ n = vsize(o)
      BY <1>1, <1>5, <2>3
    <3>2. o.op # "map" <=> o.op = "write"
      BY <1>2 DEF Writes
    <3>3. QED
      BY <1>3, <2>1, <2>2, <3>1, <3>2, AdvancedIn
  <2>4. CASE ~(n > 0)
    <3> HIDE DEF copy
    <3>1. data' = copy(c) /\ u \notin o.pos .. o.pos + n - 1
      BY <1>1, <1>3, <1>5, <2>4
    <3>2. QED
      BY <2>2, <3>1
  <2>5. QED
    BY <2>3, <2>4
<1>14. ASSUME NEW y \in Places \ {c} PROVE data'[y] = data[y]
  <2>1. copy(c) \in [Places -> [Units -> Versions]] /\ copy(c)[y] = data[y]
    <3>1. r \in Places /\ c \in Places /\ RecordSize[r] \in Int
      BY <1>3
    <3> HIDE DEF r
    <3>2. QED
      BY <3>1, CopiedAt
  <2> HIDE DEF copy
  <2>2. Transferred(copy(c), o, c)[y] = copy(c)[y]
    BY <1>3, <2>1, StoredAt
  <2>3. QED
    BY <1>1, <2>1, <2>2
<1>15. ASSUME NEW u \in FileUnits, TailAt(own, f, r, u \div ClusterSize)
       PROVE  u \div ClusterSize = i
  BY <1>2, <1>10, <1>15, TailOne
<1>16. Knows(w, f)'
  <2>1. left(call'[f]) > 0 => i < vindex(call'[f])
    <3>1. CASE n > 0
      BY <1>3, <1>4, <1>5, <1>7, <3>1, NextCluster
    <3>2. CASE ~(n > 0)
      <4>1. n = 0 /\ i < vindex(o)
        <5>1. n = 0 /\ vindex(o) # i
          BY <1>5, <3>2
        <5> DEFINE z == vindex(o)
        <5>2. z \in Nat /\ i \in Nat /\ z >= i /\ z # i
          BY <1>2, <1>3, <5>1
        <5> HIDE DEF z, i
        <5>3. i < z
          BY <5>2
        <5>4. QED
          BY <5>1, <5>3 DEF z
      <4>2. call'[f].pos = o.pos
        BY <1>3, <1>7, <4>1
      <4>3. QED
        BY <4>1, <4>2 DEF vindex
    <3>3. QED
      BY <3>1, <3>2
  <2>2. call'[f].chain = EOF /\ call'[f].prev = c /\ call'[f].op = o.op
    BY <1>7
  <2> HIDE DEF i
  <2>3. QED
    BY <1>2, <1>3, <1>8, <2>1, <2>2, PutKnows
<1>17. \/ hash'[f].TurboFATCluster = c
       \/ /\ hash'[f].TurboFATCluster = hash[f].TurboFATCluster
          /\ hash'[f].TurboFATIndex = hash[f].TurboFATIndex
          /\ hash[f].TurboFATCluster \in Records => hash[f].TurboFATCluster # o.chain
  <2>1. CASE o.op = "map"
    BY <1>1, <1>2, <2>1, ContextSet DEF LosesChain
  <2>2. CASE o.op # "map" /\ TurboFat
    BY <1>1, <2>2, TurboFields
  <2>3. CASE ~TurboFat
    <3>1. hash[f].TurboFATCluster \notin Records
      BY <2>3, Constants DEF Owned, TurboOwn, Places
    <3>2. QED
      BY <1>1, <2>3, <3>1 DEF SetTurbo
  <2>4. QED
    BY <2>1, <2>2, <2>3
<1>18. /\ call'[f].op = o.op /\ call'[f].from = o.from /\ call'[f].to = o.to
       /\ call'[f].number = o.number /\ call'[f].pos = o.pos + n
       /\ call'[f].error = o.error /\ call'[f].got = o.got
       /\ call'[f].step # "free"
  BY <1>7
<1>19. call'[f].step = "return" => left(o) <= n
  BY <1>3, <1>5, <1>7
<1>20. \A u \in FileUnits :
         o.op = "write" /\ u \in o.pos .. o.pos + n - 1 =>
           u \div ClusterSize = i /\ data'[c][u % ClusterSize] = o.number
  BY <1>13
<1>21. \A u \in FileUnits :
         /\ o.chain \in Records
         /\ TailAt(own, f, o.chain, u \div ClusterSize)
         /\ u % ClusterSize < RecordSize[o.chain]
         /\ o.op = "write" => u \notin o.pos .. o.pos + n - 1
         => /\ u \div ClusterSize = i
            /\ data'[c][u % ClusterSize] = data[o.chain][u % ClusterSize]
  BY <1>13, <1>15
<1>22. o.step = "walk" /\ o.op \in Writes /\ written' = written
       /\ EOF \in Links /\ i \in Nat /\ n \in Int /\ n >= 0 /\ n <= left(o)
  BY <1>2, <1>3, <1>5
<1>23. \A y \in Places \ {c} : data'[y] = data[y]
  BY <1>14
<1>24. \A g \in Files \ {f} : call'[g] = call[g] /\ hash'[g] = hash[g] /\ written'[g] = written[g]
  BY <1>1, <1>2, TurboFields DEF TypeOK
<1> HIDE DEF i
<1>25. QED
  BY <1>12, <1>16, <1>17, <1>18, <1>19, <1>20, <1>21, <1>22, <1>23, <1>24, InsertedData

LEMMA WriteData ==
  ASSUME TypeOK, TypeOK', NEW own \in [Places -> Owners], Apart, Owned(own), AllPlaced,
         \A g \in Files : FileSound(own, g), NEW f \in Files,
         NWWriteFile(f), orphaned' = {},
         NEW w \in [Places -> Owners], Owned(w)', Extends(own, w, f)
  PROVE  \A g \in Files : FileSound(w, g)'
<1> DEFINE o == call[f]
<1>1. FileSound(own, f)
  OBVIOUS
<1>2. SUFFICES FileSound(w, f)' /\ OthersKept(own, w, f)
  BY <1>2, OtherFiles
<1>3. CASE WriteHole(f) \/ WriteExtend(f) \/ WriteConvert(f)
  BY <1>1, <1>3, HoleData, ExtendData, ConvertData
<1>4. CASE ~(WriteHole(f) \/ WriteExtend(f) \/ WriteConvert(f))
  <2>1. FileSound(w, f)'
    <3>1. CASE WriteHit(f) \/ WriteSkip(f)
      BY <1>1, <3>1, HitData
    <3>2. CASE StartWrite(f)
      BY <1>1, <3>2, BeginData
    <3>3. CASE WriteTail(f) \/ WriteFails(f) \/ WriteReturn(f)
      BY <1>1, <3>3, TailData, FailData, WriteReturnData
    <3>4. QED
      BY <1>4, <3>1, <3>2, <3>3 DEF NWWriteFile
  <2>2. /\ FAT' = FAT
        /\ \E p : call' = [call EXCEPT ![f] = p]
        /\ data' = data \/ (/\ o.step = "walk" /\ o.chain \in Places
                            /\ data' = Transferred(data, o, o.chain))
        /\ \A g \in Files \ {f} : hash'[g] = hash[g] /\ written'[g] = written[g]
    <3>0. \A x, i : \A g \in Files \ {f} : SetTurbo(f, x, i)[g] = hash[g]
      BY DEF SetTurbo, TypeOK
    <3>1. CASE StartWrite(f)
      BY <3>1 DEF StartWrite, Goto, TypeOK
    <3>2. CASE WriteHit(f)
      <4>1. /\ FAT' = FAT /\ written' = written /\ data' = Transferred(data, o, o.chain)
            /\ o.step = "walk" /\ o.chain \in Clusters
        BY <3>2 DEF WriteHit, OnCluster, At
      <4>2. (\E p : call' = [call EXCEPT ![f] = p]) /\ \E x, i : hash' = SetTurbo(f, x, i)
        BY <3>2 DEF WriteHit, Goto
      <4>3. PICK x, i : hash' = SetTurbo(f, x, i)
        BY <4>2
      <4>4. \A g \in Files \ {f} : hash'[g] = hash[g] /\ written'[g] = written[g]
        BY <3>0, <4>1, <4>3
      <4>5. o.chain \in Places
        BY <4>1 DEF Places
      <4>6. QED
        BY <4>1, <4>2, <4>4, <4>5
    <3>3. CASE WriteSkip(f)
      BY <3>0, <3>3 DEF WriteSkip, Goto
    <3>4. CASE WriteTail(f)
      BY <3>4 DEF WriteTail, Goto, OnRecord, At, Places
    <3>5. CASE WriteFails(f)
      BY <3>5 DEF WriteFails, Goto
    <3>6. CASE WriteReturn(f)
      BY <3>6 DEF WriteReturn, Goto, Update, Recorded, TypeOK
    <3>7. QED
      BY <1>4, <3>1, <3>2, <3>3, <3>4, <3>5, <3>6 DEF NWWriteFile
  <2>3. Free' = Free
    BY <2>2 DEF Free
  <2>4. ASSUME NEW x \in Places, x \in Live, own[x] # f PROVE data'[x] = data[x]
    <3>1. o.step = "walk" /\ o.chain \in Places => x # o.chain
      BY <2>4, Constants DEF Owned, CallsOwn, CallOwn
    <3>2. o \in Calls /\ data \in [Places -> [Units -> Versions]]
      BY DEF TypeOK, Places
    <3>3. QED
      BY <2>2, <3>1, <3>2, StoredAt
  <2>5. /\ \A c \in Clusters \ Free : c \in Places /\ c \in Live
        /\ \A r \in inUse : r \in Places /\ r \in Live
    BY DEF Places, Live, TypeOK
  <2>6. \A g \in Files \ {f} : call'[g] = call[g]
    BY <2>2 DEF TypeOK
  <2>7. OthersKept(own, w, f)
    BY <2>2, <2>3, <2>4, <2>5, <2>6 DEF OthersKept
  <2>8. QED
    BY <2>1, <2>7
<1>5. QED
  BY <1>3, <1>4

-----------------------------------------------------------------------------
(* Truncates *)

LEMMA WholeClusters ==
  ASSUME NEW k \in Nat, NEW s \in Nat, s > 0
  PROVE  (k * s) \div s = k
<1> DEFINE a == k * s
           q == a \div s
           r == a % s
<1>1. a \in Nat /\ s * k \in Nat /\ a = s * k
  BY Multiples
<1>2. q \in Nat /\ r \in Nat /\ r < s /\ a = s * q + r
  BY <1>1, Division
<1> HIDE DEF a, q, r
<1>3. s * q \in Nat /\ s * (q + 1) = s * q + s /\ s * (k + 1) = s * k + s
  BY <1>2, Multiples
<1>4. q < k => s * (q + 1) <= s * k
  BY <1>2, Multiples
<1>5. k < q => s * (k + 1) <= s * q
  BY <1>2, Multiples
<1> DEFINE x == s * q
           y == s * k
           x1 == s * (q + 1)
           y1 == s * (k + 1)
<1>6. /\ x \in Nat /\ y \in Nat /\ x1 = x + s /\ y1 = y + s /\ y = x + r
      /\ q < k => x1 <= y
      /\ k < q => y1 <= x
  BY <1>1, <1>2, <1>3, <1>4, <1>5
<1> HIDE DEF x, y, x1, y1
<1>7. q = k
  BY <1>2, <1>6
<1>8. QED
  BY <1>7 DEF a, q

\* The last cluster that n units reach has the end of the file in it.
LEMMA LastCluster ==
  ASSUME NEW n \in Nat, NEW to \in Nat, n <= to, NEW s \in Nat, s > 0,
         NEW u \in Nat, u < to, u <= n
  PROVE  LET pos == (n \div s) * s
         IN  /\ pos \in Nat
             /\ \/ u \div s < pos \div s
                \/ u \div s = pos \div s /\ u % s < to - pos
<1> DEFINE k == n \div s
           pos == k * s
<1>1. k \in Nat
  BY Division
<1>2. u \div s <= k /\ u \div s \in Nat /\ u % s \in Nat /\ u = s * (u \div s) + (u % s)
  BY SameCluster, Division
<1> HIDE DEF k
<1>3. pos \div s = k
  BY <1>1, WholeClusters
<1>4. pos \in Nat /\ pos = s * k
  BY <1>1, Multiples
<1> HIDE DEF pos
<1>5. u \div s = k => u = pos + (u % s)
  BY <1>2, <1>4
<1>6. u \div s = k => u % s < to - pos
  BY <1>2, <1>4, <1>5
<1>7. pos \in Nat /\ (u \div s < pos \div s \/ (u \div s = pos \div s /\ u % s < to - pos))
  BY <1>1, <1>2, <1>3, <1>4, <1>6
<1>8. QED
  BY <1>7 DEF pos, k

LEMMA CutBegins ==
  ASSUME TypeOK, NEW own \in [Places -> Owners], Owned(own), NEW f \in Files,
         FileSound(own, f), NEW w \in [Places -> Owners], Extends(own, w, f),
         NEW units \in 0 .. MaxUnits, NEW ragged \in BOOLEAN, ragged => units > 0,
         TruncateTo(f, units, ragged), call[f].op = "none",
         FAT' = FAT, data' = data, written' = written,
         hash'[f].FirstBlock = hash[f].FirstBlock,
         hash'[f].TurboFATCluster = None
  PROVE  FileSound(w, f)'
<1> DEFINE head == hash[f].FirstBlock
           n == IF ragged THEN units - 1 ELSE units
           pos == (n \div ClusterSize) * ClusterSize
           o == [NoCall EXCEPT !.op = "truncate", !.step = "walk", !.head = head,
                               !.to = units, !.pos = pos]
<1>1. call' = [call EXCEPT ![f] = IF head = EOF THEN Finished(o) ELSE Arrive(o, head, 0)]
  BY DEF TruncateTo, Goto
<1>2. /\ n \in Nat /\ n <= units /\ units \in Nat
      /\ \A u \in Nat : u < units => u <= n
  BY Constants
<1> HIDE DEF n
<1>3. /\ o.op = "truncate" /\ o.step = "walk" /\ o.head = head /\ o.prev = None
      /\ o.pos = pos /\ o.to = units /\ o.got = {}
  BY DEF NoCall
<1>4. LET p == Arrive(o, head, 0)
      IN  /\ p.op = "truncate" /\ p.step \in {"walk", "return"} /\ p.head = head /\ p.prev = None
          /\ p.chain = head /\ p.pos = pos /\ p.to = units /\ p.got = {}
          /\ p.index = IF head \in Clusters THEN FAT[head].FATIndex ELSE 0
  BY DEF NoCall, Arrive
<1>5. LET p == Finished(o)
      IN  /\ p.op = "truncate" /\ p.step = "return" /\ p.head = head
          /\ p.pos = pos /\ p.to = units /\ p.got = {}
  BY DEF NoCall, Finished
<1> HIDE DEF o
<1> DEFINE p == call'[f]
<1>6. /\ p.op = "truncate" /\ p.step \in {"walk", "return"} /\ p.head = head
      /\ p.pos = pos /\ p.to = units /\ p.got = {}
      /\ p.step = "walk" =>
           /\ p.prev = None /\ p.chain = head
           /\ p.index = IF head \in Clusters THEN FAT[head].FATIndex ELSE 0
  BY <1>1, <1>4, <1>5 DEF TypeOK
<1>7. Head(f) = head /\ Head(f)' = head
  BY <1>6 DEF Head
<1>8. call[f].step # "free"
  BY DEF Owned, CallsOwn, CallOwn
<1>9. SameChain(own, w, f)
  BY <1>6, <1>7, <1>8, StaySame
<1>10. DataHeld(own, f) /\ Spaced(own, f) /\ HeadFirst(own, f)
  BY DEF FileSound
<1>12. Spaced(w, f)' /\ HeadFirst(w, f)'
  BY <1>9, <1>10, ChainKept
<1>13. TurboTail(w, f)'
  BY <1>9, Constants, ContextKept DEF Places
<1>14. Knows(w, f)'
  <2>1. p.step = "walk" /\ p.chain \in Records => Head(f)' = p.chain /\ p.index = 0
    BY <1>6, <1>7, Constants
  <2>2. p.step = "walk" => p.prev = None /\ (p.chain \in Clusters => p.index = FAT[p.chain].FATIndex)
    BY <1>6
  <2>3. QED
    BY <1>6, <2>1, <2>2 DEF Knows, Index, TailAt
<1>15. Ends(call[f])'
  <2>1. ASSUME NEW u \in FileUnits, u < units
        PROVE  \/ u \div ClusterSize < pos \div ClusterSize
               \/ u \div ClusterSize = pos \div ClusterSize /\ u % ClusterSize < units - pos
    <3>1. u \in Nat /\ ClusterSize \in Nat /\ ClusterSize > 0
      BY Constants DEF FileUnits
    <3>2. u <= n
      BY <1>2, <2>1, <3>1
    <3>3. QED
      BY <1>2, <2>1, <3>1, <3>2, LastCluster
  <2> HIDE DEF pos
  <2>2. QED
    BY <1>6, <2>1 DEF Ends, vindex, left
<1>16. GotLast(f)'
  BY <1>6 DEF GotLast
<1>17. DataHeld(w, f)'
  <2>1. ASSUME NEW u \in FileUnits, NEW v, Last(f, u)' = v
        PROVE  Owed(call[f], u) /\ Last(f, u) = v
    BY <1>6, <2>1 DEF Owed, Asked, Last
  <2>2. QED
    BY <1>9, <1>10, <2>1, DataKept
<1>18. QED
  BY <1>12, <1>13, <1>14, <1>15, <1>16, <1>17 DEF FileSound

LEMMA CutSkips ==
  ASSUME TypeOK, NEW own \in [Places -> Owners], Owned(own), NEW f \in Files,
         FileSound(own, f), NEW w \in [Places -> Owners], Extends(own, w, f), TruncateSkip(f)
  PROVE  FileSound(w, f)'
<1> DEFINE o == call[f]
           x == FAT[o.chain].FATCluster
           p == Bump(o)
<1>1. /\ o.step = "walk" /\ o.op = "truncate" /\ o.chain \in Clusters /\ o.index < vindex(o)
      /\ call' = [call EXCEPT ![f] = IF p.chain = EOF THEN Finished(p) ELSE p]
      /\ FAT' = FAT /\ data' = data /\ hash' = hash /\ written' = written
  BY DEF TruncateSkip, Goto, OnCluster, At, Truncates
<1>2. /\ o \in Calls /\ o.chain \in Mine(own, f) /\ o.chain \in Kept(own, f)
      /\ o.index = Index(o.chain)
  BY <1>1, MineFacts DEF TypeOK, FileSound, Knows
<1>3. /\ p \in Calls /\ p.prev = o.chain /\ p.chain = x /\ p.last = o.index
      /\ p.index = IF x \in Clusters THEN FAT[x].FATIndex ELSE o.index + 1
      /\ p.pos = o.pos /\ p.to = o.to /\ p.op = o.op /\ p.got = o.got /\ p.step = "walk"
      /\ p.head = o.head
  BY <1>1, <1>2, BumpAll, BumpFields
<1> HIDE DEF p
<1>4. LET q == call'[f]
      IN  /\ q.prev = o.chain /\ q.chain = x /\ q.last = o.index
          /\ q.index = IF x \in Clusters THEN FAT[x].FATIndex ELSE o.index + 1
          /\ q.pos = o.pos /\ q.to = o.to /\ q.op = o.op /\ q.got = o.got
          /\ q.step \in {"walk", "return"} /\ q.head = o.head
  BY <1>1, <1>3 DEF Finished, TypeOK, Calls
<1>5. SameChain(own, w, f)
  BY <1>1, <1>4, StaySame DEF Head
<1>6. Knows(w, f)'
  BY <1>1, <1>2, <1>4, <1>5, BumpKnows
<1>7. DataHeld(own, f) /\ Spaced(own, f) /\ HeadFirst(own, f) /\ GotLast(f) /\ Ends(o)
  BY DEF FileSound
<1>8. TurboTail(w, f)'
  BY <1>1, <1>5, ContextKept
<1>9. Ends(call[f])' /\ GotLast(f)'
  BY <1>1, <1>4, <1>7 DEF Ends, GotLast, vindex, left
<1>10. DataHeld(w, f)'
  <2>1. ASSUME NEW u \in FileUnits, NEW v, Owed(call[f], u)', Last(f, u)' = v
        PROVE  Owed(call[f], u) /\ Last(f, u) = v
    BY <1>1, <1>4, <2>1 DEF Owed, Asked, Last
  <2>2. QED
    BY <1>1, <1>5, <1>7, <2>1, DataKept
<1>11. Spaced(w, f)' /\ HeadFirst(w, f)'
  BY <1>5, <1>7, ChainKept
<1>12. QED
  BY <1>6, <1>8, <1>9, <1>10, <1>11 DEF FileSound

LEMMA CutReturns ==
  ASSUME TypeOK, NEW own \in [Places -> Owners], Owned(own), NEW f \in Files,
         FileSound(own, f), NEW w \in [Places -> Owners], Extends(own, w, f), TruncateReturn(f)
  PROVE  FileSound(w, f)'
<1> DEFINE o == call[f]
<1>1. /\ o.step = "return" /\ o.op = "truncate" /\ call' = [call EXCEPT ![f] = NoCall]
      /\ hash' = [hash EXCEPT ![f].FirstBlock = o.head, ![f].FileSize = o.to]
      /\ written' = [written EXCEPT ![f] = [u \in FileUnits |-> IF u < o.to THEN written[f][u] ELSE 0]]
      /\ FAT' = FAT /\ data' = data
  BY DEF TruncateReturn, Goto, At, Truncates
<1>2. call'[f] = NoCall
  BY <1>1 DEF TypeOK
<1>3. /\ hash'[f].FirstBlock = o.head
      /\ hash'[f].TurboFATCluster = hash[f].TurboFATCluster
      /\ hash'[f].TurboFATIndex = hash[f].TurboFATIndex
  BY <1>1 DEF HASH, TypeOK
<1>4. SameChain(own, w, f)
  <2>1. Head(f)' = Head(f)
    BY <1>1, <1>2, <1>3 DEF Head, NoCall
  <2>2. QED
    BY <1>1, <1>2, <2>1, StaySame DEF NoCall
<1>5. DataHeld(own, f) /\ Spaced(own, f) /\ HeadFirst(own, f)
  BY DEF FileSound
<1>6. ASSUME NEW u \in FileUnits, NEW v, Last(f, u)' = v, v # 0
      PROVE  Owed(o, u) /\ Last(f, u) = v
  <2>1. written'[f][u] = IF u < o.to THEN written[f][u] ELSE 0
    BY <1>1 DEF TypeOK
  <2>2. written'[f][u] = v
    BY <1>2, <1>6 DEF Last, Asked, NoCall
  <2>3. QED
    BY <1>1, <1>6, <2>1, <2>2 DEF Owed, Asked, Last
<1>7. DataHeld(w, f)'
  BY <1>1, <1>4, <1>5, <1>6, DataKept
<1>8. Ends(call[f])' /\ GotLast(f)' /\ Knows(w, f)'
  BY <1>2 DEF Ends, GotLast, Knows, NoCall
<1>9. TurboTail(w, f)'
  BY <1>3, <1>4, ContextKept
<1>10. Spaced(w, f)' /\ HeadFirst(w, f)'
  BY <1>4, <1>5, ChainKept
<1>11. QED
  BY <1>7, <1>8, <1>9, <1>10 DEF FileSound

\* A truncate that leaves the record at the end as it is.
LEMMA CutStays ==
  ASSUME TypeOK, NEW own \in [Places -> Owners], Owned(own), NEW f \in Files,
         FileSound(own, f), NEW w \in [Places -> Owners], Extends(own, w, f),
         call[f].op = "truncate", call[f].step = "walk",
         call' = [call EXCEPT ![f] = Finished(call[f])],
         FAT' = FAT, data' = data, hash' = hash, written' = written
  PROVE  FileSound(w, f)'
<1> DEFINE o == call[f]
<1>1. /\ call'[f].step = "return"
      /\ call'[f].op = o.op /\ call'[f].pos = o.pos
      /\ call'[f].to = o.to /\ call'[f].got = o.got /\ call'[f].head = o.head
  BY DEF Finished, TypeOK, Calls
<1>2. SameChain(own, w, f)
  BY <1>1, StaySame DEF Head
<1>3. DataHeld(own, f) /\ Spaced(own, f) /\ HeadFirst(own, f) /\ GotLast(f) /\ Ends(o)
  BY DEF FileSound
<1>4. TurboTail(w, f)' /\ Knows(w, f)'
  BY <1>1, <1>2, ContextKept DEF Knows
<1>5. ASSUME NEW u \in FileUnits, NEW v, Owed(call[f], u)', Last(f, u)' = v
      PROVE  Owed(call[f], u) /\ Last(f, u) = v
  BY <1>1, <1>5 DEF Owed, Asked, Last
<1>6. DataHeld(w, f)'
  BY <1>2, <1>3, <1>5, DataKept
<1>7. Ends(call[f])' /\ GotLast(f)'
  BY <1>1, <1>3 DEF Ends, GotLast, vindex, left
<1>8. Spaced(w, f)' /\ HeadFirst(w, f)'
  BY <1>2, <1>3, ChainKept
<1>9. QED
  BY <1>4, <1>6, <1>7, <1>8 DEF FileSound

\* A truncate that has cut the chain: the units before its size are where they were.
LEMMA CutSound ==
  ASSUME TypeOK, NEW own \in [Places -> Owners], Owned(own), NEW f \in Files, FileSound(own, f),
         NEW w \in [Places -> Owners],
         call[f].op = "truncate", call'[f].op = "truncate", call'[f].step # "walk",
         call'[f].pos = call[f].pos, call'[f].to = call[f].to, call'[f].got = call[f].got,
         hash' = hash, written' = written, Spaced(w, f)', HeadFirst(w, f)',
         \A u \in FileUnits : \A v :
           u < call[f].to /\ Held(own, f, u, v) => Held(w, f, u, v)'
  PROVE  FileSound(w, f)'
<1> DEFINE o == call[f]
<1>1. DataHeld(own, f) /\ GotLast(f) /\ Ends(o)
  BY DEF FileSound
<1>2. TurboTail(w, f)' /\ Knows(w, f)'
  BY Constants DEF Owned, TurboOwn, TurboTail, Knows, Places
<1>3. Ends(call[f])' /\ GotLast(f)'
  BY <1>1 DEF Ends, GotLast, vindex, left
<1>4. ASSUME NEW u \in FileUnits, Owed(call[f], u)', Last(f, u)' # 0
      PROVE  Held(w, f, u, Last(f, u))'
  <2>1. u < o.to /\ written'[f][u] = written[f][u] /\ written[f][u] # 0
    BY <1>4 DEF Owed, Asked, Last
  <2>2. Held(own, f, u, written[f][u])
    BY <1>1, <2>1 DEF DataHeld, Owed, Asked, Last
  <2>3. PICK v : v = written[f][u]
    OBVIOUS
  <2>4. Held(w, f, u, v)'
    BY <2>1, <2>2, <2>3
  <2>5. v = written'[f][u] /\ ~Asked(call[f], u)'
    BY <2>1, <2>3 DEF Asked
  <2>6. QED
    BY <2>4, <2>5 DEF Held, Last
<1>5. DataHeld(w, f)'
  BY <1>4 DEF DataHeld
<1>6. QED
  BY <1>2, <1>3, <1>5 DEF FileSound

\* The chain ends before the cluster a truncate has come to.
LEMMA CutPlaces ==
  ASSUME TypeOK, NEW own \in [Places -> Owners], Owned(own), Rising, NEW f \in Files,
         FileSound(own, f), NEW w \in [Places -> Owners], Extends(own, w, f),
         call[f].op = "truncate", call[f].step = "walk", call[f].chain \in Clusters,
         NEW y \in Links, y \notin Clusters, FAT' = Relinked(FAT, call[f], y),
         call'[f].op = "truncate", call'[f].step = "free", call'[f].chain = call[f].chain,
         call'[f].head = Headed(call[f], y).head
  PROVE  /\ Kept(own, f) = Mine(own, f) /\ call[f].chain \in Mine(own, f)
         /\ Kept(w, f)' = {c \in Mine(own, f) : Index(c) < Index(call[f].chain)}
         /\ \A c \in Mine(own, f) : Index(c)' = Index(c)
         /\ Spaced(w, f)' /\ HeadFirst(w, f)'
         /\ call[f].prev # None => /\ call[f].prev \in Kept(w, f)'
                                   /\ FAT'[call[f].prev].FATCluster = y
         /\ call[f].prev = None => Head(f)' = y
<1> DEFINE o == call[f]
           M == Mine(own, f)
<1>1. /\ o \in Calls /\ FAT \in [Clusters -> FAT_ENTRY] /\ y # None
      /\ o.prev # None => o.prev \in Clusters
  BY Constants DEF TypeOK, Calls, Places, Links
<1>2. /\ \A c \in Clusters : FAT'[c].FATIndex = FAT[c].FATIndex
      /\ \A c \in Clusters : c # o.prev => FAT'[c] = FAT[c]
      /\ o.prev # None => FAT'[o.prev].FATCluster = y
  BY <1>1, Links1
<1>3. /\ Kept(own, f) = M /\ o.chain \in M /\ (o.prev # None => o.prev \in M)
      /\ \A c \in M : c \in Clusters /\ c \notin Free /\ Index(c) \in Nat
      /\ Spaced(own, f) /\ HeadFirst(own, f) /\ \A c : ~CutOff(f, c)
  BY MineFacts DEF FileSound, CutOff
<1>4. o.prev # None => FAT[o.prev].FATCluster = o.chain /\ Index(o.prev) < Index(o.chain)
  <2>1. o.prev # None => FAT[o.prev].FATCluster = o.chain
    BY DEF Owned, CallsOwn, CallOwn
  <2>2. QED
    BY <1>1, <1>3, <2>1 DEF Rising, Index
<1>5. o.prev = None => Head(f) = o.chain /\ Head(f)' = y
  <2>1. o.prev = None => o.chain = o.head
    BY DEF Owned, CallsOwn, CallOwn
  <2>2. QED
    BY <1>1, <2>1 DEF Head, Headed, Calls
<1>6. o.prev # None => Head(f)' = Head(f)
  BY DEF Head, Headed
<1>7. Free' = Free
  <2>1. \A c \in Clusters : FAT'[c].FATCluster = None <=> FAT[c].FATCluster = None
    <3>1. ASSUME NEW c \in Clusters PROVE FAT'[c].FATCluster = None <=> FAT[c].FATCluster = None
      <4>1. CASE c = o.prev
        <5>1. o.prev # None /\ FAT'[c].FATCluster = y
          BY <1>2, <4>1, Constants DEF Places
        <5>2. c \notin Free
          BY <1>3, <4>1, <5>1
        <5>3. QED
          BY <1>1, <5>1, <5>2 DEF Free
      <4>2. CASE c # o.prev
        BY <1>2, <4>2
      <4>3. QED
        BY <4>1, <4>2
    <3>2. QED
      BY <3>1
  <2>2. QED
    BY <2>1 DEF Free
<1>8. Mine(w, f)' = M
  <2>1. \A c \in Clusters \ Free : w[c] = own[c]
    BY DEF Extends, Places, Live
  <2>2. QED
    BY <1>7, <2>1 DEF Mine
<1>9. \A c \in M : Index(c)' = Index(c)
  BY <1>2, <1>3 DEF Index
<1>10. \A c \in M : CutOff(f, c)' <=> ~(Index(c) < Index(o.chain))
  <2>1. ASSUME NEW c \in M PROVE CutOff(f, c)' <=> ~(Index(c) < Index(o.chain))
    <3>1. CutOff(f, c)' <=> FAT'[o.chain].FATIndex <= FAT'[c].FATIndex
      BY DEF CutOff, Index
    <3>2. FAT'[o.chain].FATIndex = Index(o.chain) /\ FAT'[c].FATIndex = Index(c)
      BY <1>2, <1>3 DEF Index
    <3>3. Index(o.chain) \in Nat /\ Index(c) \in Nat
      BY <1>3
    <3>4. QED
      BY <3>1, <3>2, <3>3
  <2>2. QED
    BY <2>1
<1>11. Kept(w, f)' = {c \in M : Index(c) < Index(o.chain)}
  BY <1>8, <1>10 DEF Kept
<1>12. Spaced(w, f)'
  <2>1. ASSUME NEW a \in M, NEW b \in M
        PROVE  /\ Index(a)' = Index(b)' => a = b
               /\ Index(a)' < Index(b)' /\ (CutOff(f, b)' => CutOff(f, a)') =>
                    FAT'[a].FATCluster \in Clusters /\ FAT'[FAT'[a].FATCluster].FATIndex <= Index(b)'
    <3>1. Index(a)' = Index(a) /\ Index(b)' = Index(b) /\ a \in Clusters /\ b \in Clusters
      BY <1>3, <1>9
    <3>2. /\ Index(a) = Index(b) => a = b
          /\ Index(a) < Index(b) => FAT[a].FATCluster \in Clusters /\ Index(FAT[a].FATCluster) <= Index(b)
      BY <1>3 DEF Spaced
    <3>3. CASE a # o.prev
      BY <1>2, <3>1, <3>2, <3>3 DEF Index
    <3>4. CASE a = o.prev
      <4>1. o.prev # None
        BY <3>1, <3>4, Constants DEF Places
      <4>2. /\ Index(a) < Index(o.chain)
            /\ Index(a) < Index(b) => Index(o.chain) <= Index(b)
        BY <1>4, <3>2, <3>4, <4>1
      <4>3. ~CutOff(f, a)'
        BY <1>10, <4>2
      <4>4. Index(a) < Index(b) => CutOff(f, b)'
        <5>1. Index(b) \in Nat /\ Index(o.chain) \in Nat
          BY <1>3
        <5>2. QED
          BY <1>10, <4>2, <5>1
      <4>5. QED
        BY <3>1, <3>2, <4>3, <4>4
    <3>5. QED
      BY <3>3, <3>4
  <2>2. QED
    BY <1>8, <2>1 DEF Spaced, Index
<1>13. HeadFirst(w, f)'
  <2>1. CASE o.prev = None
    <3>1. \A c \in M : ~(Index(c) < Index(o.chain))
      BY <1>3, <1>5, <2>1 DEF HeadFirst
    <3>2. QED
      BY <1>11, <3>1 DEF HeadFirst
  <2>2. CASE o.prev # None
    <3>1. \A c \in M : Head(f) \in Clusters /\ Index(Head(f)) <= Index(c)
      BY <1>3 DEF HeadFirst
    <3>2. Head(f) \in Clusters => Head(f) \in M
      BY MineFacts
    <3>3. ASSUME NEW c \in M
          PROVE  Head(f)' \in Clusters /\ FAT'[Head(f)'].FATIndex <= Index(c)'
      BY <1>2, <1>3, <1>6, <1>9, <2>2, <3>1, <3>2 DEF Index
    <3>4. QED
      BY <1>11, <3>3 DEF HeadFirst, Index
  <2>3. QED
    BY <2>1, <2>2
<1>14. QED
  BY <1>2, <1>3, <1>4, <1>5, <1>9, <1>11, <1>12, <1>13

LEMMA CutWhole ==
  ASSUME TypeOK, NEW own \in [Places -> Owners], Owned(own), Rising, NEW f \in Files,
         FileSound(own, f), NEW w \in [Places -> Owners], Extends(own, w, f), TruncateCut(f)
  PROVE  FileSound(w, f)'
<1> DEFINE o == call[f]
           M == Mine(own, f)
<1>1. /\ o.step = "walk" /\ o.op = "truncate" /\ o.chain \in Clusters
      /\ o.index > vindex(o) \/ (o.index = vindex(o) /\ left(o) = 0)
      /\ FAT' = Relinked(FAT, o, EOF)
      /\ call' = [call EXCEPT ![f] = [Headed(o, EOF) EXCEPT !.step = "free"]]
      /\ data' = data /\ hash' = hash /\ written' = written
  BY DEF TruncateCut, Goto, OnCluster, At, Truncates
<1>2. o \in Calls /\ EOF \in Links /\ EOF \notin Clusters
  BY Constants DEF TypeOK, Links, Places
<1>3. /\ call'[f].op = "truncate" /\ call'[f].step = "free" /\ call'[f].chain = o.chain
      /\ call'[f].head = Headed(o, EOF).head /\ call'[f].pos = o.pos /\ call'[f].to = o.to
      /\ call'[f].got = o.got
  BY <1>1, <1>2 DEF Headed, TypeOK, Calls
<1>4. /\ Kept(own, f) = M /\ o.chain \in M
      /\ Kept(w, f)' = {c \in M : Index(c) < Index(o.chain)}
      /\ \A c \in M : Index(c)' = Index(c)
      /\ Spaced(w, f)' /\ HeadFirst(w, f)'
  BY <1>1, <1>2, <1>3, CutPlaces
<1>5. /\ o.index = Index(o.chain) /\ Index(o.chain) \in Nat /\ Ends(o)
      /\ Spaced(own, f) /\ HeadFirst(own, f) /\ vindex(o) \in Nat
  BY <1>1, <1>2, <1>4, MineFacts, CallSizes DEF FileSound, Knows
<1>6. ASSUME NEW u \in FileUnits, NEW v, u < o.to, Held(own, f, u, v)
      PROVE  Held(w, f, u, v)'
  <2>1. u \in Nat /\ u \div ClusterSize \in Nat /\ u % ClusterSize \in Nat
    BY Constants, Division DEF FileUnits
  <2>2. u \div ClusterSize < Index(o.chain)
    BY <1>1, <1>5, <1>6, <2>1 DEF Ends
  <2>3. ASSUME NEW r \in Records, TailAt(own, f, r, u \div ClusterSize) PROVE FALSE
    <3>1. Index(o.chain) < u \div ClusterSize
      BY <1>4, <1>5, <2>3, TailFacts
    <3>2. QED
      BY <1>5, <2>1, <2>2, <3>1
  <2>4. PICK c \in M : Index(c) = u \div ClusterSize /\ data[c][u % ClusterSize] = v
    BY <1>4, <1>6, <2>3 DEF Held
  <2>5. c \in Kept(w, f)' /\ Index(c)' = u \div ClusterSize /\ data'[c][u % ClusterSize] = v
    BY <1>1, <1>4, <2>2, <2>4
  <2>6. QED
    BY <2>5 DEF Held
<1>7. QED
  BY <1>1, <1>3, <1>4, <1>6, CutSound

LEMMA CutToRecord ==
  ASSUME TypeOK, NEW own \in [Places -> Owners], Owned(own), Rising, NEW f \in Files,
         FileSound(own, f), NEW w \in [Places -> Owners], Extends(own, w, f), TruncateToRecord(f)
  PROVE  FileSound(w, f)'
<1> DEFINE o == call[f]
           M == Mine(own, f)
<1>1. PICK r \in Records \ inUse :
        /\ RecordSize[r] = left(o)
        /\ data' = Copied(o.chain, r, left(o))
        /\ FAT' = Relinked(FAT, o, r)
        /\ call' = [call EXCEPT ![f] = [Headed(o, r) EXCEPT !.step = "free"]]
  BY DEF TruncateToRecord, Goto
<1>2. /\ o.step = "walk" /\ o.op = "truncate" /\ o.chain \in Clusters
      /\ o.index = vindex(o) /\ left(o) > 0 /\ ~AfterHole(o)
      /\ hash' = hash /\ written' = written
  BY DEF TruncateToRecord, OnCluster, At, Truncates
<1>3. /\ o \in Calls /\ r \in Links /\ r \notin Clusters /\ left(o) \in Int
      /\ o.chain \in Places /\ r \in Places /\ \A c \in Clusters : c \in Places /\ c # r
  BY <1>2, Constants, CallSizes DEF TypeOK, Links, Places
<1>4. /\ call'[f].op = "truncate" /\ call'[f].step = "free" /\ call'[f].chain = o.chain
      /\ call'[f].head = Headed(o, r).head /\ call'[f].pos = o.pos /\ call'[f].to = o.to
      /\ call'[f].got = o.got
  BY <1>1, <1>2, <1>3 DEF Headed, TypeOK, Calls
<1>5. /\ Kept(own, f) = M /\ o.chain \in M
      /\ Kept(w, f)' = {c \in M : Index(c) < Index(o.chain)}
      /\ \A c \in M : Index(c)' = Index(c)
      /\ Spaced(w, f)' /\ HeadFirst(w, f)'
      /\ o.prev # None => o.prev \in Kept(w, f)' /\ FAT'[o.prev].FATCluster = r
      /\ o.prev = None => Head(f)' = r
  BY <1>1, <1>2, <1>3, <1>4, CutPlaces
<1>6. /\ o.index = Index(o.chain) /\ Index(o.chain) \in Nat /\ Ends(o)
      /\ Spaced(own, f) /\ HeadFirst(own, f) /\ vindex(o) \in Nat
      /\ o.prev # None => o.last = Index(o.prev)
  BY <1>2, <1>3, <1>5, MineFacts, CallSizes DEF FileSound, Knows
<1>7. ASSUME NEW u \in FileUnits, NEW v, u < o.to, Held(own, f, u, v)
      PROVE  Held(w, f, u, v)'
  <2>1. u \in Nat /\ u \div ClusterSize \in Nat /\ u % ClusterSize \in Nat
        /\ u % ClusterSize \in Units
    <3>1. u \in Nat
      BY Constants DEF FileUnits
    <3>2. QED
      BY <1>3, <3>1, CallUnits, Constants, Division
  <2>2. \/ u \div ClusterSize < Index(o.chain)
        \/ u \div ClusterSize = Index(o.chain) /\ u % ClusterSize < left(o)
    BY <1>2, <1>6, <1>7 DEF Ends
  <2>3. CASE u \div ClusterSize < Index(o.chain)
    <3>1. ASSUME NEW q \in Records, TailAt(own, f, q, u \div ClusterSize) PROVE FALSE
      <4>1. Index(o.chain) < u \div ClusterSize
        BY <1>5, <1>6, <3>1, TailFacts
      <4>2. QED
        BY <1>6, <2>1, <2>3, <4>1
    <3>2. PICK c \in M : Index(c) = u \div ClusterSize /\ data[c][u % ClusterSize] = v
      BY <1>5, <1>7, <3>1 DEF Held
    <3>3. c \in Clusters
      BY DEF Mine
    <3>4. data'[c] = data[c]
      BY <1>1, <1>3, <3>3, CopiedAt
    <3>5. c \in Kept(w, f)' /\ Index(c)' = u \div ClusterSize /\ data'[c][u % ClusterSize] = v
      BY <1>5, <2>3, <3>2, <3>4
    <3>6. QED
      BY <3>5 DEF Held
  <2>4. CASE u \div ClusterSize = Index(o.chain) /\ u % ClusterSize < left(o)
    <3>1. data[o.chain][u % ClusterSize] = v
      BY <1>5, <1>6, <1>7, <2>4, AtCluster
    <3>2. data'[r][u % ClusterSize] = v
      BY <1>1, <1>3, <2>1, <2>4, <3>1, CopiedAt
    <3>3. TailAt(w, f, r, u \div ClusterSize)'
      <4>1. CASE o.prev = None
        BY <1>2, <1>5, <1>6, <2>4, <4>1 DEF AfterHole, TailAt
      <4>2. CASE o.prev # None
        <5>1. PICK c \in Kept(w, f)' : c = o.prev
          BY <1>5, <4>2
        <5>2. FAT'[c].FATCluster = r /\ u \div ClusterSize = Index(c) + 1 /\ c \in M
          BY <1>2, <1>5, <1>6, <2>4, <4>2, <5>1 DEF AfterHole
        <5>3. u \div ClusterSize = Index(c)' + 1
          BY <1>5, <5>2
        <5>4. QED
          BY <5>2, <5>3 DEF TailAt
      <4>3. QED
        BY <4>1, <4>2
    <3>4. QED
      BY <1>1, <2>4, <3>2, <3>3 DEF Held
  <2>5. QED
    BY <2>2, <2>3, <2>4
<1>8. QED
  BY <1>2, <1>4, <1>5, <1>7, CutSound

\* The chain is cut behind the cluster in which the file ends.
LEMMA CutAfter ==
  ASSUME TypeOK, NEW own \in [Places -> Owners], Owned(own), Rising, NEW f \in Files,
         FileSound(own, f), NEW w \in [Places -> Owners], Extends(own, w, f), TruncateAfter(f)
  PROVE  FileSound(w, f)'
<1> DEFINE o == call[f]
           M == Mine(own, f)
           a == o.chain
           next == FAT[a].FATCluster
<1>1. /\ o.step = "walk" /\ o.op = "truncate" /\ a \in Clusters
      /\ o.index = vindex(o) /\ left(o) > 0
      /\ FAT' = [FAT EXCEPT ![a].FATCluster = EOF]
      /\ call' = [call EXCEPT ![f] = IF next \in Clusters
                                     THEN [o EXCEPT !.chain = next, !.step = "free"]
                                     ELSE Finished(o)]
      /\ data' = data /\ hash' = hash /\ written' = written
  BY DEF TruncateAfter, Goto, OnCluster, At, Truncates
<1>2. /\ o \in Calls /\ FAT \in [Clusters -> FAT_ENTRY] /\ EOF \notin Clusters /\ EOF # None
  BY Constants DEF TypeOK, Places
<1>3. /\ call'[f].op = "truncate" /\ call'[f].step # "walk"
      /\ call'[f].head = o.head /\ call'[f].pos = o.pos /\ call'[f].to = o.to
      /\ call'[f].got = o.got
      /\ next \in Clusters => call'[f].step = "free" /\ call'[f].chain = next
      /\ next \notin Clusters => call'[f].step = "return"
  BY <1>1, <1>2 DEF Finished, TypeOK, Calls
<1>4. /\ \A c \in Clusters : FAT'[c].FATIndex = FAT[c].FATIndex
      /\ \A c \in Clusters : c # a => FAT'[c] = FAT[c]
      /\ FAT'[a].FATCluster = EOF
  BY <1>1, <1>2 DEF FAT_ENTRY
<1>5. /\ Kept(own, f) = M /\ a \in M /\ (next \in Clusters => next \in M /\ next \notin Free)
      /\ \A c \in M : c \in Clusters /\ c \notin Free /\ Index(c) \in Nat
      /\ Spaced(own, f) /\ HeadFirst(own, f) /\ \A c : ~CutOff(f, c)
      /\ Head(f) \in Clusters => Head(f) \in M
  BY <1>1, MineFacts DEF FileSound, CutOff
<1>6. /\ o.index = Index(a) /\ vindex(o) \in Nat /\ left(o) \in Int
  BY <1>1, <1>2, <1>5, CallSizes DEF FileSound, Knows
<1>7. next \in Clusters => Index(a) < Index(next)
  BY <1>1, <1>5 DEF Rising, Index
<1>8. \A c \in M : Index(a) < Index(c) => next \in Clusters /\ Index(next) <= Index(c)
  BY <1>5 DEF Spaced
<1> HIDE DEF a
<1>9. Mine(w, f)' = M
  <2>1. \A c \in Clusters : FAT'[c].FATCluster = None <=> FAT[c].FATCluster = None
    BY <1>1, <1>2, <1>4, <1>5 DEF Free
  <2>2. Free' = Free
    BY <2>1 DEF Free
  <2>3. \A c \in Clusters \ Free : w[c] = own[c]
    BY DEF Extends, Places, Live
  <2>4. QED
    BY <2>2, <2>3 DEF Mine
<1>10. \A c \in M : Index(c)' = Index(c)
  BY <1>4, <1>5 DEF Index
<1>11. \A c \in M : CutOff(f, c)' <=> Index(a) < Index(c)
  <2>1. ASSUME NEW c \in M PROVE CutOff(f, c)' <=> Index(a) < Index(c)
    <3>1. Index(a) \in Nat /\ Index(c) \in Nat
      BY <1>5
    <3>2. CASE next \in Clusters
      <4>1. CutOff(f, c)' <=> FAT'[next].FATIndex <= FAT'[c].FATIndex
        BY <1>3, <3>2 DEF CutOff, Index
      <4>2. FAT'[next].FATIndex = Index(next) /\ FAT'[c].FATIndex = Index(c) /\ Index(next) \in Nat
        BY <1>4, <1>5, <3>2 DEF Index
      <4> HIDE DEF next
      <4>3. QED
        BY <1>7, <1>8, <3>1, <3>2, <4>1, <4>2
    <3>3. CASE next \notin Clusters
      BY <1>3, <1>8, <3>3 DEF CutOff
    <3>4. QED
      BY <3>2, <3>3
  <2>2. QED
    BY <2>1
<1>12. Kept(w, f)' = {c \in M : ~(Index(a) < Index(c))}
  BY <1>9, <1>11 DEF Kept
<1>13. Spaced(w, f)'
  <2>1. ASSUME NEW b \in M, NEW c \in M
        PROVE  /\ Index(b)' = Index(c)' => b = c
               /\ Index(b)' < Index(c)' /\ (CutOff(f, c)' => CutOff(f, b)') =>
                    FAT'[b].FATCluster \in Clusters /\ FAT'[FAT'[b].FATCluster].FATIndex <= Index(c)'
    <3>1. Index(b)' = Index(b) /\ Index(c)' = Index(c) /\ b \in Clusters /\ c \in Clusters
      BY <1>5, <1>10
    <3>2. /\ Index(b) = Index(c) => b = c
          /\ Index(b) < Index(c) => FAT[b].FATCluster \in Clusters /\ Index(FAT[b].FATCluster) <= Index(c)
      BY <1>5 DEF Spaced
    <3>3. CASE b # a
      BY <1>4, <3>1, <3>2, <3>3 DEF Index
    <3>4. CASE b = a
      <4>1. Index(b) \in Nat
        BY <1>5
      <4>2. ~CutOff(f, b)' /\ (Index(b) < Index(c) => CutOff(f, c)')
        BY <1>11, <3>4, <4>1
      <4>3. QED
        BY <3>1, <3>2, <4>2
    <3>5. QED
      BY <3>3, <3>4
  <2>2. QED
    BY <1>9, <2>1 DEF Spaced, Index
<1>14. Head(f)' = Head(f)
  BY <1>1, <1>3 DEF Head
<1>15. HeadFirst(w, f)'
  <2>1. \A c \in M : Head(f) \in Clusters /\ Index(Head(f)) <= Index(c)
    BY <1>5 DEF HeadFirst
  <2>2. ASSUME NEW c \in M
        PROVE  Head(f)' \in Clusters /\ FAT'[Head(f)'].FATIndex <= Index(c)'
    BY <1>4, <1>5, <1>10, <1>14, <2>1 DEF Index
  <2>3. QED
    BY <1>12, <2>2 DEF HeadFirst, Index
<1>16. ASSUME NEW u \in FileUnits, NEW v, u < o.to, Held(own, f, u, v)
       PROVE  Held(w, f, u, v)'
  <2>1. u \in Nat /\ u \div ClusterSize \in Nat
    BY Constants, Division DEF FileUnits
  <2>2. ~(Index(a) < u \div ClusterSize)
    <3>1. Ends(o)
      BY DEF FileSound
    <3>2. u \div ClusterSize <= vindex(o)
      BY <1>1, <1>6, <1>16, <2>1, <3>1 DEF Ends
    <3>3. QED
      BY <1>1, <1>6, <2>1, <3>2
  <2>3. ASSUME NEW r \in Records, TailAt(own, f, r, u \div ClusterSize) PROVE FALSE
    BY <1>5, <2>2, <2>3, TailFacts
  <2>4. PICK c \in M : Index(c) = u \div ClusterSize /\ data[c][u % ClusterSize] = v
    BY <1>5, <1>16, <2>3 DEF Held
  <2>5. c \in Kept(w, f)' /\ Index(c)' = u \div ClusterSize /\ data'[c][u % ClusterSize] = v
    BY <1>1, <1>10, <1>12, <2>2, <2>4
  <2>6. QED
    BY <2>5 DEF Held
<1>17. QED
  BY <1>1, <1>3, <1>13, <1>15, <1>16, CutSound

\* The record at the end goes, or a smaller one takes its place.
LEMMA RecordPlaces ==
  ASSUME TypeOK, NEW own \in [Places -> Owners], Apart, Owned(own), NEW f \in Files,
         FileSound(own, f), NEW w \in [Places -> Owners], Extends(own, w, f),
         call[f].op = "truncate", call[f].step = "walk", call[f].chain \in Records,
         NEW y \in Links, y \notin Clusters, FAT' = Relinked(FAT, call[f], y),
         call'[f].op = "truncate", call'[f].step = "return",
         call'[f].head = Headed(call[f], y).head
  PROVE  /\ Kept(own, f) = Mine(own, f) /\ Kept(w, f)' = Mine(own, f)
         /\ \A c \in Mine(own, f) : Index(c)' = Index(c)
         /\ Spaced(w, f)' /\ HeadFirst(w, f)'
         /\ TailAt(own, f, call[f].chain, call[f].index)
         /\ \A j : j = call[f].index => TailAt(w, f, y, j)'
<1> DEFINE o == call[f]
           M == Mine(own, f)
<1>1. /\ o \in Calls /\ FAT \in [Clusters -> FAT_ENTRY] /\ y # None
      /\ o.prev # None => o.prev \in Clusters
      /\ o.chain \notin Clusters /\ o.chain # EOF
  BY Constants DEF TypeOK, Calls, Places, Links
<1>2. /\ \A c \in Clusters : FAT'[c].FATIndex = FAT[c].FATIndex
      /\ \A c \in Clusters : c # o.prev => FAT'[c] = FAT[c]
      /\ o.prev # None => FAT'[o.prev].FATCluster = y
  BY <1>1, Links1
<1>3. /\ Kept(own, f) = M /\ (o.prev # None => o.prev \in M)
      /\ \A c \in M : c \in Clusters /\ c \notin Free /\ Index(c) \in Nat
      /\ Spaced(own, f) /\ HeadFirst(own, f) /\ \A c : ~CutOff(f, c)
      /\ Head(f) \in Clusters => Head(f) \in M
      /\ TailAt(own, f, o.chain, o.index)
  BY MineFacts DEF FileSound, CutOff, Knows
<1>4. o.prev # None => FAT[o.prev].FATCluster = o.chain
  BY DEF Owned, CallsOwn, CallOwn
<1>5. o.prev = None => Head(f) = o.chain /\ Head(f)' = y
  <2>1. o.prev = None => o.chain = o.head
    BY DEF Owned, CallsOwn, CallOwn
  <2>2. QED
    BY <1>1, <2>1 DEF Head, Headed, Calls
<1>6. o.prev # None => Head(f)' = Head(f)
  BY DEF Head, Headed
<1>7. Mine(w, f)' = M
  <2>1. \A c \in Clusters : FAT'[c].FATCluster = None <=> FAT[c].FATCluster = None
    <3>1. ASSUME NEW c \in Clusters PROVE FAT'[c].FATCluster = None <=> FAT[c].FATCluster = None
      <4>1. CASE c = o.prev
        <5>1. o.prev # None
          BY <4>1, Constants DEF Places
        <5>2. c \notin Free /\ FAT'[c].FATCluster = y
          BY <1>2, <1>3, <4>1, <5>1
        <5>3. QED
          BY <1>1, <5>2 DEF Free
      <4>2. CASE c # o.prev
        BY <1>2, <4>2
      <4>3. QED
        BY <4>1, <4>2
    <3>2. QED
      BY <3>1
  <2>2. Free' = Free
    BY <2>1 DEF Free
  <2>3. \A c \in Clusters \ Free : w[c] = own[c]
    BY DEF Extends, Places, Live
  <2>4. QED
    BY <2>2, <2>3 DEF Mine
<1>8. \A c \in M : Index(c)' = Index(c)
  BY <1>2, <1>3 DEF Index
<1>9. Kept(w, f)' = M
  BY <1>7 DEF Kept, CutOff
<1>10. Spaced(w, f)'
  <2>1. ASSUME NEW a \in M, NEW b \in M
        PROVE  /\ Index(a)' = Index(b)' => a = b
               /\ Index(a)' < Index(b)' =>
                    FAT'[a].FATCluster \in Clusters /\ FAT'[FAT'[a].FATCluster].FATIndex <= Index(b)'
    <3>1. Index(a)' = Index(a) /\ Index(b)' = Index(b) /\ a \in Clusters /\ b \in Clusters
      BY <1>3, <1>8
    <3>2. /\ Index(a) = Index(b) => a = b
          /\ Index(a) < Index(b) => FAT[a].FATCluster \in Clusters /\ Index(FAT[a].FATCluster) <= Index(b)
      BY <1>3 DEF Spaced
    <3>3. CASE a # o.prev
      BY <1>2, <3>1, <3>2, <3>3 DEF Index
    <3>4. CASE a = o.prev
      <4>1. o.prev # None
        BY <3>1, <3>4, Constants DEF Places
      <4>2. QED
        BY <1>1, <1>4, <3>1, <3>2, <3>4, <4>1
    <3>5. QED
      BY <3>3, <3>4
  <2>2. QED
    BY <1>7, <2>1 DEF Spaced, Index
<1>11. HeadFirst(w, f)'
  <2>1. \A c \in M : Head(f) \in Clusters /\ Index(Head(f)) <= Index(c)
    BY <1>3 DEF HeadFirst
  <2>2. ASSUME NEW c \in M
        PROVE  Head(f)' \in Clusters /\ FAT'[Head(f)'].FATIndex <= Index(c)'
    <3>1. o.prev # None
      BY <1>1, <1>5, <2>1
    <3>2. QED
      BY <1>2, <1>3, <1>6, <1>8, <2>1, <3>1 DEF Index
  <2>3. QED
    BY <1>9, <2>2 DEF HeadFirst, Index
<1>12. ASSUME NEW j, j = o.index PROVE TailAt(w, f, y, j)'
  <2>1. CASE o.prev = None
    <3>1. \A c \in M : FAT[c].FATCluster # o.chain
      BY <1>1, <1>3, <1>5, <2>1 DEF Apart, HeadsApart
    <3>2. j = 0
      BY <1>3, <1>12, <3>1 DEF TailAt
    <3>3. QED
      BY <1>5, <2>1, <3>2 DEF TailAt
  <2>2. CASE o.prev # None
    <3>1. PICK p \in M : p = o.prev
      BY <1>3, <2>2
    <3>2. Head(f) # o.chain
      BY <1>1, <1>3, <1>4, <2>2, <3>1 DEF Apart, HeadsApart
    <3>3. PICK c \in M : FAT[c].FATCluster = o.chain /\ j = Index(c) + 1
      BY <1>3, <1>12, <3>2 DEF TailAt
    <3>4. c = p
      BY <1>1, <1>3, <1>4, <2>2, <3>1, <3>3 DEF Apart, LinksApart
    <3>5. p \in Kept(w, f)' /\ FAT'[p].FATCluster = y /\ j = Index(p)' + 1
      BY <1>2, <1>8, <1>9, <2>2, <3>1, <3>3, <3>4
    <3>6. QED
      BY <3>5 DEF TailAt
  <2>3. QED
    BY <2>1, <2>2
<1>13. QED
  BY <1>3, <1>8, <1>9, <1>10, <1>11, <1>12

LEMMA CutRecord ==
  ASSUME TypeOK, NEW own \in [Places -> Owners], Apart, Owned(own), NEW f \in Files,
         FileSound(own, f), NEW w \in [Places -> Owners], Extends(own, w, f), TruncateRecord(f)
  PROVE  FileSound(w, f)'
<1> DEFINE o == call[f]
           M == Mine(own, f)
<1>1. /\ o.step = "walk" /\ o.op = "truncate" /\ o.chain \in Records
      /\ hash' = hash /\ written' = written
  BY DEF TruncateRecord, OnRecord, At, Truncates
<1>2. CASE call' = [call EXCEPT ![f] = Finished(o)] /\ FAT' = FAT /\ data' = data
  BY <1>1, <1>2, CutStays
<1>3. CASE \E y \in {EOF} \union (Records \ inUse) :
             /\ o.index = vindex(o)
             /\ FAT' = Relinked(FAT, o, y)
             /\ call' = [call EXCEPT ![f] = Finished(Headed(o, y))]
             /\ \/ y = EOF /\ left(o) = 0 /\ data' = data
                \/ /\ y \in Records /\ RecordSize[y] = left(o)
                   /\ data' = Copied(o.chain, y, left(o))
  <2>1. PICK y \in {EOF} \union (Records \ inUse) :
             /\ o.index = vindex(o)
             /\ FAT' = Relinked(FAT, o, y)
             /\ call' = [call EXCEPT ![f] = Finished(Headed(o, y))]
             /\ \/ y = EOF /\ left(o) = 0 /\ data' = data
                \/ /\ y \in Records /\ RecordSize[y] = left(o)
                   /\ data' = Copied(o.chain, y, left(o))
    BY <1>3
  <2>2. /\ o \in Calls /\ y \in Links /\ y \notin Clusters /\ left(o) \in Int
        /\ o.chain \in Places /\ \A c \in Clusters : c \in Places /\ c # y
        /\ y \in Records => y \in Places
    BY <1>1, Constants, CallSizes DEF TypeOK, Links, Places
  <2>3. /\ call'[f].op = "truncate" /\ call'[f].step = "return"
        /\ call'[f].head = Headed(o, y).head /\ call'[f].pos = o.pos /\ call'[f].to = o.to
        /\ call'[f].got = o.got
    BY <1>1, <2>1, <2>2 DEF Headed, Finished, TypeOK, Calls
  <2>4. /\ Kept(own, f) = M /\ Kept(w, f)' = M
        /\ \A c \in M : Index(c)' = Index(c)
        /\ Spaced(w, f)' /\ HeadFirst(w, f)'
        /\ TailAt(own, f, o.chain, o.index)
        /\ \A j : j = o.index => TailAt(w, f, y, j)'
    BY <1>1, <2>1, <2>2, <2>3, RecordPlaces
  <2>5. Spaced(own, f) /\ HeadFirst(own, f) /\ Ends(o) /\ vindex(o) \in Nat
    BY <2>2, CallSizes DEF FileSound
  <2>6. ASSUME NEW u \in FileUnits, NEW v, u < o.to, Held(own, f, u, v)
        PROVE  Held(w, f, u, v)'
    <3>0. u \in Nat
      BY Constants DEF FileUnits
    <3>1. u % ClusterSize \in Units /\ u \div ClusterSize \in Nat /\ u % ClusterSize \in Nat
      BY <2>2, <3>0, CallUnits, Constants DEF Units
    <3>2. \/ u \div ClusterSize < o.index
          \/ u \div ClusterSize = o.index /\ u % ClusterSize < left(o)
      BY <1>1, <2>1, <2>5, <2>6 DEF Ends
    <3>3. CASE \E c \in M : Index(c) = u \div ClusterSize /\ data[c][u % ClusterSize] = v
      <4>1. PICK c \in M : Index(c) = u \div ClusterSize /\ data[c][u % ClusterSize] = v
        BY <3>3
      <4>2. c \in Clusters
        BY DEF Mine
      <4>3. data'[c] = data[c]
        BY <2>1, <2>2, <4>2, CopiedAt
      <4>4. c \in Kept(w, f)' /\ Index(c)' = u \div ClusterSize /\ data'[c][u % ClusterSize] = v
        BY <2>4, <4>1, <4>3
      <4>5. QED
        BY <4>4 DEF Held
    <3>4. CASE \E r \in Records : /\ TailAt(own, f, r, u \div ClusterSize)
                                  /\ data[r][u % ClusterSize] = v
      <4>1. u \div ClusterSize = o.index /\ data[o.chain][u % ClusterSize] = v
        BY <1>1, <2>4, <2>5, <3>4, TailOne
      <4>2. u % ClusterSize < left(o)
        BY <2>1, <2>5, <3>1, <3>2, <4>1
      <4>3. y \in Records /\ RecordSize[y] = left(o) /\ data' = Copied(o.chain, y, left(o))
        BY <2>1, <3>1, <4>2
      <4>4. data'[y][u % ClusterSize] = v
        BY <2>2, <3>1, <4>1, <4>2, <4>3, CopiedAt
      <4>5. TailAt(w, f, y, u \div ClusterSize)'
        BY <2>4, <4>1
      <4>6. QED
        BY <4>2, <4>3, <4>4, <4>5 DEF Held
    <3>5. QED
      BY <2>4, <2>6, <3>3, <3>4 DEF Held
  <2>7. QED
    BY <1>1, <2>3, <2>4, <2>6, CutSound
<1>4. QED
  BY <1>2, <1>3 DEF TruncateRecord, Goto

\* A cluster that was cut off is freed, and the next of them is its turn.
LEMMA CutFrees ==
  ASSUME TypeOK, NEW own \in [Places -> Owners], Apart, Owned(own), Rising, NEW f \in Files,
         FileSound(own, f), NEW w \in [Places -> Owners], Extends(own, w, f), FreeChain(f)
  PROVE  FileSound(w, f)'
<1> DEFINE o == call[f]
           M == Mine(own, f)
           a == o.chain
           next == FAT[a].FATCluster
<1>1. /\ o.step = "free" /\ o.op = "truncate"
      /\ FAT' = [FAT EXCEPT ![a] = [FATIndex |-> 0, FATCluster |-> None]]
      /\ call' = [call EXCEPT ![f] = IF next \in Clusters \ Free THEN [o EXCEPT !.chain = next]
                                     ELSE Finished(o)]
      /\ data' = data /\ hash' = hash /\ written' = written
  BY DEF FreeChain, Goto, At, Truncates
<1>2. /\ o \in Calls /\ FAT \in [Clusters -> FAT_ENTRY]
      /\ Clusters \intersect Records = {}
  BY Constants DEF TypeOK
<1>3. /\ a \in M /\ a \in Clusters
      /\ \A c \in M : /\ c \in Clusters /\ c \notin Free /\ Index(c) \in Nat
                      /\ FAT[c].FATCluster \in Clusters => FAT[c].FATCluster \in M
      /\ Spaced(own, f) /\ HeadFirst(own, f)
      /\ Head(f) \in Clusters => Head(f) \in M
  BY <1>1, MineFacts DEF FileSound
<1>4. /\ call'[f].op = "truncate" /\ call'[f].step # "walk"
      /\ call'[f].head = o.head /\ call'[f].pos = o.pos /\ call'[f].to = o.to
      /\ call'[f].got = o.got
      /\ next \in Clusters => call'[f].step = "free" /\ call'[f].chain = next
      /\ next \notin Clusters => call'[f].step = "return"
  BY <1>1, <1>2, <1>3 DEF Finished, TypeOK, Calls
<1>5. /\ \A c \in Clusters : c # a => FAT'[c] = FAT[c]
      /\ FAT'[a].FATCluster = None
  BY <1>1, <1>2, <1>3 DEF FAT_ENTRY
<1>6. /\ \A c \in M : FAT[c].FATCluster # a
      /\ Head(f) # a
  BY <1>1, <1>3 DEF Apart, CutsApart
<1>7. next \in Clusters => Index(a) < Index(next)
  BY <1>3 DEF Rising, Index
<1>8. \A c \in M : CutOff(f, c) <=> Index(a) <= Index(c)
  BY <1>1 DEF CutOff
<1>9. /\ \A c \in M : Index(a) = Index(c) => c = a
      /\ \A c \in M : Index(a) < Index(c) => next \in Clusters /\ Index(next) <= Index(c)
  <2>1. ASSUME NEW c \in M, Index(a) < Index(c) PROVE next \in Clusters /\ Index(next) <= Index(c)
    <3>1. CutOff(f, a)
      BY <1>3, <1>8
    <3>2. QED
      BY <1>3, <2>1, <3>1 DEF Spaced
  <2>2. QED
    BY <1>3, <2>1 DEF Spaced
<1> HIDE DEF a
<1>10. Mine(w, f)' = M \ {a}
  <2>1. Free' = Free \union {a}
    BY <1>3, <1>5 DEF Free
  <2>2. \A c \in Clusters \ Free : w[c] = own[c]
    BY DEF Extends, Places, Live
  <2>3. QED
    BY <1>3, <2>1, <2>2 DEF Mine
<1>11. \A c \in M \ {a} : Index(c)' = Index(c)
  BY <1>3, <1>5 DEF Index
<1>12. \A c \in M \ {a} : CutOff(f, c)' <=> CutOff(f, c)
  <2>1. ASSUME NEW c \in M \ {a} PROVE CutOff(f, c)' <=> Index(a) < Index(c)
    <3>1. CASE next \in Clusters
      <4>1. CutOff(f, c)' <=> FAT'[next].FATIndex <= FAT'[c].FATIndex
        BY <1>4, <3>1 DEF CutOff, Index
      <4>2. /\ FAT'[next].FATIndex = Index(next) /\ FAT'[c].FATIndex = Index(c)
            /\ Index(next) \in Nat /\ Index(c) \in Nat /\ Index(a) \in Nat
        BY <1>3, <1>5, <1>6, <3>1 DEF Index
      <4> HIDE DEF next
      <4>3. QED
        BY <1>7, <1>9, <3>1, <4>1, <4>2
    <3>2. CASE next \notin Clusters
      BY <1>4, <1>9, <3>2 DEF CutOff
    <3>3. QED
      BY <3>1, <3>2
  <2>2. \A c \in M \ {a} : Index(a) < Index(c) <=> Index(a) <= Index(c)
    BY <1>3, <1>9
  <2>3. QED
    BY <1>8, <2>1, <2>2
<1>13. Kept(w, f)' = Kept(own, f)
  <2>1. CutOff(f, a)
    BY <1>3, <1>8
  <2>2. QED
    BY <1>10, <1>12, <2>1 DEF Kept
<1>14. Head(f)' = Head(f)
  BY <1>1, <1>4 DEF Head
<1>15. \A c \in Kept(own, f) : c \in M \ {a}
  BY <1>3, <1>8 DEF Kept
<1>16. Spaced(w, f)'
  <2>1. ASSUME NEW b \in M \ {a}, NEW c \in M \ {a}
        PROVE  /\ Index(b)' = Index(c)' => b = c
               /\ Index(b)' < Index(c)' /\ (CutOff(f, c)' => CutOff(f, b)') =>
                    FAT'[b].FATCluster \in Clusters /\ FAT'[FAT'[b].FATCluster].FATIndex <= Index(c)'
    <3>1. Index(b)' = Index(b) /\ Index(c)' = Index(c) /\ b \in Clusters /\ c \in Clusters
      BY <1>3, <1>11
    <3>2. /\ Index(b) = Index(c) => b = c
          /\ Index(b) < Index(c) /\ (CutOff(f, c) => CutOff(f, b)) =>
               FAT[b].FATCluster \in Clusters /\ Index(FAT[b].FATCluster) <= Index(c)
      BY <1>3 DEF Spaced
    <3>3. FAT'[b] = FAT[b]
      BY <1>5, <3>1
    <3>4. FAT[b].FATCluster \in Clusters => FAT'[FAT[b].FATCluster] = FAT[FAT[b].FATCluster]
      BY <1>5, <1>6
    <3>5. QED
      BY <1>12, <3>1, <3>2, <3>3, <3>4 DEF Index
  <2>2. QED
    BY <1>10, <2>1 DEF Spaced, Index
<1>17. HeadFirst(w, f)'
  <2>1. ASSUME NEW c \in Kept(own, f)
        PROVE  Head(f)' \in Clusters /\ FAT'[Head(f)'].FATIndex <= Index(c)'
    BY <1>3, <1>5, <1>6, <1>11, <1>14, <1>15 DEF Index, HeadFirst
  <2>2. QED
    BY <1>13, <2>1 DEF HeadFirst, Index
<1>18. ASSUME NEW u \in FileUnits, NEW v, Held(own, f, u, v)
       PROVE  Held(w, f, u, v)'
  <2>1. ASSUME NEW r \in Records, NEW i, TailAt(own, f, r, i) PROVE TailAt(w, f, r, i)'
    <3>1. CASE Head(f) = r /\ i = 0
      BY <1>14, <3>1 DEF TailAt
    <3>2. CASE \E c \in Kept(own, f) : FAT[c].FATCluster = r /\ i = Index(c) + 1
      <4>1. PICK c \in Kept(own, f) : FAT[c].FATCluster = r /\ i = Index(c) + 1
        BY <3>2
      <4>2. c \in Kept(w, f)' /\ FAT'[c].FATCluster = r /\ i = Index(c)' + 1
        BY <1>3, <1>5, <1>11, <1>13, <1>15, <4>1
      <4>3. QED
        BY <4>2 DEF TailAt
    <3>3. QED
      BY <2>1, <3>1, <3>2 DEF TailAt
  <2>2. QED
    BY <1>1, <1>11, <1>13, <1>15, <1>18, <2>1, HeldStays
<1>19. QED
  BY <1>1, <1>4, <1>16, <1>17, <1>18, CutSound

LEMMA TruncateOthers ==
  ASSUME TypeOK, NEW own \in [Places -> Owners], Owned(own), NEW f \in Files,
         NEW w \in [Places -> Owners], TruncateClusterChain(f)
  PROVE  OthersKept(own, w, f)
<1> DEFINE o == call[f]
<1>1. /\ \E p : call' = [call EXCEPT ![f] = p]
      /\ \A g \in Files \ {f} : hash'[g] = hash[g] /\ written'[g] = written[g]
  <2>1. CASE Close(f) \/ Truncate(f)
    BY <2>1 DEF Close, Truncate, TruncateTo, Goto, TypeOK
  <2>2. CASE TruncateCut(f) \/ TruncateToRecord(f) \/ TruncateAfter(f) \/ TruncateSkip(f)
    BY <2>2 DEF TruncateCut, TruncateToRecord, TruncateAfter, TruncateSkip, Goto
  <2>3. CASE TruncateRecord(f) \/ FreeChain(f)
    BY <2>3 DEF TruncateRecord, FreeChain, Goto
  <2>4. CASE TruncateReturn(f)
    BY <2>4 DEF TruncateReturn, Goto, TypeOK
  <2>5. QED
    BY <2>1, <2>2, <2>3, <2>4 DEF TruncateClusterChain
<1>2. \A g \in Files \ {f} : call'[g] = call[g]
  BY <1>1 DEF TypeOK
<1>3. /\ Clusters \intersect Records = {} /\ EOF # None /\ None \notin Clusters /\ None \notin Records
      /\ \A c \in Clusters : c \in Places /\ c \notin Records
      /\ \A r \in Records : r \in Places /\ r # None
      /\ inUse \subseteq Records /\ o \in Calls /\ FAT \in [Clusters -> FAT_ENTRY]
      /\ o.prev # None => o.prev \in Clusters
  BY Constants DEF TypeOK, Places, Calls
<1>4. /\ o.step \in {"walk", "free"} /\ o.chain \in Clusters =>
           o.chain \in Clusters \ Free /\ own[o.chain] = f
      /\ o.step = "walk" /\ o.prev # None => o.prev \in Clusters \ Free /\ own[o.prev] = f
      /\ o.step = "free" => o.chain \in Clusters
  BY Constants DEF Owned, CallsOwn, CallOwn, Live, Places, TypeOK
<1>5. \/ FAT' = FAT
      \/ \E x \in Clusters \ Free :
           own[x] = f /\ \A c \in Clusters : c # x => FAT'[c] = FAT[c]
  <2>1. CASE \E y \in Links : o.step = "walk" /\ FAT' = Relinked(FAT, o, y)
    <3>1. CASE o.prev = None
      BY <2>1, <3>1 DEF Relinked
    <3>2. CASE o.prev # None
      BY <1>3, <1>4, <2>1, <3>2 DEF Relinked
    <3>3. QED
      BY <3>1, <3>2
  <2>2. CASE TruncateAfter(f)
    <3>1. o.chain \in Clusters /\ o.step = "walk" /\ o.op = "truncate"
      BY <2>2 DEF TruncateAfter, OnCluster, At, Truncates
    <3>2. QED
      BY <1>3, <1>4, <2>2, <3>1, Constants DEF TruncateAfter, Places
  <2>3. CASE FreeChain(f)
    <3>1. o.step = "free" /\ o.op = "truncate"
      BY <2>3 DEF FreeChain, At, Truncates
    <3>2. QED
      BY <1>3, <1>4, <2>3, <3>1, Constants DEF FreeChain, Places
  <2>4. CASE TruncateCut(f) \/ TruncateToRecord(f) \/ TruncateRecord(f)
    BY <2>1, <2>4 DEF TruncateCut, TruncateToRecord, TruncateRecord, OnCluster, OnRecord, At, Links
  <2>5. CASE Close(f) \/ Truncate(f) \/ TruncateSkip(f) \/ TruncateReturn(f)
    BY <2>5 DEF Close, Truncate, TruncateSkip, TruncateReturn
  <2>6. QED
    BY <2>2, <2>3, <2>4, <2>5 DEF TruncateClusterChain
<1>6. \/ data' = data
      \/ \E r \in Records \ inUse : \A x \in Places : x # r => data'[x] = data[x]
  <2>1. ASSUME NEW r \in Records, NEW x \in Places, x # r,
               data' = Copied(o.chain, r, left(o)), o.chain \in Places
        PROVE  data'[x] = data[x]
    BY <1>3, <2>1, CallSizes, CopiedAt
  <2>2. CASE TruncateToRecord(f)
    <3>1. o.chain \in Places
      BY <1>3, <2>2 DEF TruncateToRecord, OnCluster
    <3>2. QED
      BY <2>1, <2>2, <3>1 DEF TruncateToRecord
  <2>3. CASE TruncateRecord(f)
    <3>1. o.chain \in Places
      BY <1>3, <2>3 DEF TruncateRecord, OnRecord
    <3>2. QED
      BY <2>1, <2>3, <3>1 DEF TruncateRecord
  <2>4. CASE ~(TruncateToRecord(f) \/ TruncateRecord(f))
    BY <2>4 DEF TruncateClusterChain, Close, Truncate, TruncateCut, TruncateAfter, TruncateSkip,
                FreeChain, TruncateReturn
  <2>5. QED
    BY <2>2, <2>3, <2>4
<1>7. (\A c \in Free : c \in Free') /\ \A c \in Clusters \ Free : own[c] # f => c \notin Free' /\ FAT'[c] = FAT[c]
  BY <1>5 DEF Free
<1>8. /\ \A c \in Clusters : data'[c] = data[c]
      /\ \A r \in inUse : data'[r] = data[r]
  BY <1>3, <1>6
<1>9. QED
  BY <1>1, <1>2, <1>7, <1>8 DEF OthersKept

LEMMA TruncateData ==
  ASSUME TypeOK, NEW own \in [Places -> Owners], Apart, Owned(own), Rising,
         \A g \in Files : FileSound(own, g), NEW f \in Files,
         TruncateClusterChain(f),
         NEW w \in [Places -> Owners], Extends(own, w, f)
  PROVE  \A g \in Files : FileSound(w, g)'
<1>1. FileSound(own, f)
  OBVIOUS
<1>2. ASSUME Close(f) PROVE FileSound(w, f)'
  <2>1. PICK ragged \in BOOLEAN :
          (ragged => hash[f].FileSize > 0) /\ TruncateTo(f, hash[f].FileSize, ragged)
    BY <1>2 DEF Close
  <2>2. /\ hash[f].FileSize \in 0 .. MaxUnits /\ call[f].op = "none"
        /\ FAT' = FAT /\ data' = data /\ written' = written
        /\ hash'[f].FirstBlock = hash[f].FirstBlock
        /\ hash'[f].TurboFATCluster = None
    BY <1>2 DEF Close, ResetTurbo, HASH, TypeOK
  <2>3. QED
    BY <1>1, <2>1, <2>2, CutBegins
<1>3. ASSUME Truncate(f) PROVE FileSound(w, f)'
  <2>1. PICK s \in Sizes : (s[2] => s[1] > 0) /\ TruncateTo(f, s[1], s[2])
    BY <1>3 DEF Truncate
  <2>2. /\ s[1] \in 0 .. MaxUnits /\ s[2] \in BOOLEAN /\ call[f].op = "none"
        /\ FAT' = FAT /\ data' = data /\ written' = written
        /\ hash'[f].FirstBlock = hash[f].FirstBlock
        /\ hash'[f].TurboFATCluster = None
    BY <1>3, FileConstants DEF Truncate, ResetTurbo, HASH, TypeOK
  <2>3. QED
    BY <1>1, <2>1, <2>2, CutBegins
<1>4. FileSound(w, f)'
  <2>1. CASE TruncateCut(f) \/ TruncateToRecord(f) \/ TruncateAfter(f)
    BY <1>1, <2>1, CutWhole, CutToRecord, CutAfter
  <2>2. CASE TruncateSkip(f) \/ TruncateReturn(f)
    BY <1>1, <2>2, CutSkips, CutReturns
  <2>3. CASE TruncateRecord(f) \/ FreeChain(f)
    BY <1>1, <2>3, CutRecord, CutFrees
  <2>4. QED
    BY <1>2, <1>3, <2>1, <2>2, <2>3 DEF TruncateClusterChain
<1>5. OthersKept(own, w, f)
  BY TruncateOthers
<1>6. QED
  BY <1>4, <1>5, OtherFiles

-----------------------------------------------------------------------------
(* The invariant *)

LEMMA DataStep ==
  TypeOK /\ ChainInv /\ OrderInv /\ DataInv /\ [Next]_vars => DataInv'
<1> SUFFICES ASSUME TypeOK, ChainInv, OrderInv, DataInv, [Next]_vars, orphaned' = {}
             PROVE  \E w \in [Places -> Owners] : Owned(w)' /\ \A g \in Files : FileSound(w, g)'
  BY DEF DataInv
<1>1. orphaned = {}
  BY OrphansStay
<1>2. Rising /\ AllPlaced /\ Apart /\ TypeOK'
  BY <1>1, TypeStep DEF ChainInv, OrderInv
<1>3. PICK own \in [Places -> Owners] : Owned(own) /\ \A g \in Files : FileSound(own, g)
  BY <1>1 DEF DataInv
<1>4. CASE \E f \in Files : NWWriteFile(f)
  <2>1. PICK f \in Files : NWWriteFile(f)
    BY <1>4
  <2>2. PICK w \in [Places -> Owners] : Owned(w)' /\ Extends(own, w, f)
    BY <1>2, <1>3, <2>1, WriteChains
  <2>3. \A g \in Files : FileSound(w, g)'
    BY <1>2, <1>3, <2>1, <2>2, WriteData
  <2>4. QED
    BY <2>2, <2>3
<1>5. CASE \E f \in Files : NWReadFile(f)
  <2>1. PICK f \in Files : NWReadFile(f)
    BY <1>5
  <2>2. Owned(own)'
    BY <1>2, <1>3, <2>1, ReadChains
  <2>3. \A g \in Files : FileSound(own, g)'
    BY <1>2, <1>3, <2>1, <2>2, ReadData
  <2>4. QED
    BY <2>2, <2>3
<1>6. CASE \E f \in Files : TruncateClusterChain(f)
  <2>1. PICK f \in Files : TruncateClusterChain(f)
    BY <1>6
  <2>2. PICK w \in [Places -> Owners] : Owned(w)' /\ Extends(own, w, f)
    BY <1>2, <1>3, <2>1, TruncateChains
  <2>3. \A g \in Files : FileSound(w, g)'
    BY <1>2, <1>3, <2>1, <2>2, TruncateData
  <2>4. QED
    BY <2>2, <2>3
<1>7. CASE UNCHANGED vars
  <2>1. Owned(own)'
    BY <1>3, <1>7 DEF vars, Owned, LinksOwn, HeadsOwn, TurboOwn, CallsOwn, CallOwn, Free, Live,
                      Head, vindex
  <2>2. ASSUME NEW g \in Files PROVE FileSound(own, g)'
    <3>1. Mine(own, g)' = Mine(own, g)
      BY <1>7 DEF vars, Mine, Free
    <3>2. QED
      BY <1>3, <1>7, <3>1, OtherFile DEF vars
  <2>3. QED
    BY <2>1, <2>2
<1>8. QED
  BY <1>4, <1>5, <1>6, <1>7 DEF Next

LEMMA DataInit == Init => DataInv
<1> SUFFICES ASSUME Init
             PROVE  \E own \in [Places -> Owners] : Owned(own) /\ \A f \in Files : FileSound(own, f)
  BY DEF DataInv
<1> DEFINE own == [x \in Places |-> None]
<1>1. /\ Free = Clusters /\ \A f \in Files : Head(f) = EOF
      /\ \A f \in Files : call[f] = NoCall /\ hash[f].TurboFATCluster = None
      /\ \A f \in Files : \A u \in FileUnits : written[f][u] = 0
  BY DEF Init, Free, Head, NoCall
<1>2. Owned(own)
  BY <1>1, Constants DEF Owned, LinksOwn, HeadsOwn, TurboOwn, CallsOwn, CallOwn, NoCall
<1>3. ASSUME NEW f \in Files PROVE FileSound(own, f)
  <2>1. Mine(own, f) = {} /\ Kept(own, f) = {}
    BY <1>1 DEF Mine, Kept
  <2>2. Spaced(own, f) /\ HeadFirst(own, f) /\ TurboTail(own, f)
    BY <1>1, <2>1, Constants DEF Spaced, HeadFirst, TurboTail, Places
  <2>3. Knows(own, f) /\ Ends(call[f]) /\ GotLast(f)
    BY <1>1 DEF Knows, Ends, GotLast, NoCall
  <2>4. DataHeld(own, f)
    BY <1>1 DEF DataHeld, Last, Asked, NoCall
  <2>5. QED
    BY <2>2, <2>3, <2>4 DEF FileSound
<1>4. own \in [Places -> Owners]
  BY DEF Owners
<1>5. QED
  BY <1>2, <1>3, <1>4

\* A read returns what was last written, whatever was done to the chain of the
\* file, to the record at its end and to other files since: zeros only where
\* nothing was written or a truncate has cut, for any files, clusters, records,
\* sizes and calls.
THEOREM ReadsReturnLastWrite == Spec => []ReadsLastWrite
<1>1. Init => TypeOK /\ ChainInv /\ OrderInv /\ DataInv
  BY TypeInit, ChainInit, OrderInit, DataInit
<1>2. (TypeOK /\ ChainInv /\ OrderInv /\ DataInv) /\ [Next]_vars
        => (TypeOK /\ ChainInv /\ OrderInv /\ DataInv)'
  BY TypeStep, ChainStep, OrderStep, DataStep
<1>3. DataInv => ReadsLastWrite
  BY DEF DataInv, FileSound, GotLast, ReadsLastWrite
<1>4. QED
  BY <1>1, <1>2, <1>3, PTL DEF Spec

=============================================================================

---------------------------- MODULE FatVolumeProofs ---------------------------
(***************************************************************************)
(* Proofs about FatVolume: what its invariants say of a volume with any    *)
(* number of clusters and files holds at every step of every call, crash,  *)
(* repair and mount.                                                       *)
(*                                                                         *)
(* That a chain is whole is a matter of reachability.  Reached is a least  *)
(* set, so that what holds of a chain is proved by naming a set that has   *)
(* its first cluster and is closed under links.                            *)
(***************************************************************************)
EXTENDS FatVolume, WellFoundedInduction, TLAPS

Tables == [Clusters -> Entry]

-----------------------------------------------------------------------------
(* Chains *)

LEMMA Constants ==
  /\ N \in Nat /\ N > 0 /\ BlockSize \in Nat /\ BlockSize > 0 /\ MaxIndex \in Nat
  /\ MaxCalls \in Nat /\ MaxCrashes \in Nat
  /\ FREE \notin Clusters /\ EOF \notin Clusters /\ NONE \notin Clusters
  /\ FREE # EOF /\ FREE # NONE /\ EOF # NONE
  /\ Links = Clusters \union {FREE, EOF}
  /\ Clusters \subseteq Nat
  BY FatVolumeConstants DEF FREE, EOF, NONE, Clusters, Links

LEMMA TableLinks ==
  ASSUME NEW T \in Tables, NEW c \in Clusters
  PROVE  T[c] \in Entry /\ T[c].link \in Links /\ T[c].index \in 0 .. MaxIndex
  BY DEF Tables, Entry

LEMMA ReachedLeast ==
  ASSUME NEW T, NEW h, NEW S \in SUBSET Clusters, h \in Clusters => h \in S,
         \A c \in S : T[c].link \in Clusters => T[c].link \in S
  PROVE  Reached(T, h) \subseteq S
  BY DEF Reached, Closed

LEMMA ReachedStep ==
  ASSUME NEW T, NEW h
  PROVE  /\ Reached(T, h) \subseteq Clusters
         /\ h \in Clusters => h \in Reached(T, h)
         /\ \A c \in Reached(T, h) : T[c].link \in Clusters => T[c].link \in Reached(T, h)
  BY DEF Reached, Closed

LEMMA ReachedNone ==
  ASSUME NEW T, NEW h, h \notin Clusters
  PROVE  Reached(T, h) = {}
  BY ReachedLeast, {} \in SUBSET Clusters

LEMMA ReachedTrans ==
  ASSUME NEW T, NEW h, NEW c \in Reached(T, h)
  PROVE  Reached(T, c) \subseteq Reached(T, h)
  BY ReachedStep, ReachedLeast

LEMMA ReachedFirst ==
  ASSUME NEW T, NEW h \in Clusters
  PROVE  Reached(T, h) = {h} \union Reached(T, T[h].link)
<1> DEFINE S == {h} \union Reached(T, T[h].link)
<1>1. S \in SUBSET Clusters
  BY ReachedStep
<1>2. \A c \in S : T[c].link \in Clusters => T[c].link \in S
  <2>1. SUFFICES ASSUME NEW c \in S, T[c].link \in Clusters PROVE T[c].link \in S
    OBVIOUS
  <2>2. CASE c = h
    BY <2>1, <2>2, ReachedStep
  <2>3. CASE c \in Reached(T, T[h].link)
    BY <2>1, <2>3, ReachedStep
  <2>4. QED
    BY <2>1, <2>2, <2>3
<1>3. Reached(T, h) \subseteq S
  <2>1. h \in S
    OBVIOUS
  <2> HIDE DEF S
  <2>2. QED
    BY <1>1, <1>2, <2>1, ReachedLeast
<1>4. h \in Reached(T, h)
  BY ReachedStep
<1>5. Reached(T, T[h].link) \subseteq Reached(T, h)
  BY <1>4, ReachedStep, ReachedTrans, ReachedNone
<1>6. QED
  BY <1>3, <1>4, <1>5

LEMMA WholeEnd ==
  ASSUME NEW T, NEW h
  PROVE  /\ Whole(T, EOF) /\ ~Whole(T, FREE)
         /\ h \in Clusters => (Whole(T, h) <=> Whole(T, T[h].link))
<1>1. Whole(T, EOF) /\ ~Whole(T, FREE)
  BY Constants, ReachedNone DEF Whole, EndsIn
<1>2. ASSUME h \in Clusters PROVE Whole(T, h) <=> Whole(T, T[h].link)
  <2>1. Reached(T, h) = {h} \union Reached(T, T[h].link)
    BY <1>2, ReachedFirst
  <2>2. h # EOF
    BY <1>2, Constants
  <2>3. QED
    BY <2>1, <2>2 DEF Whole, EndsIn
<1>3. QED
  BY <1>1, <1>2

\* From each cluster of a whole chain the end is reached.
LEMMA WholeTails ==
  ASSUME NEW T \in Tables, NEW h, Whole(T, h), NEW c \in Reached(T, h)
  PROVE  Whole(T, c) /\ Whole(T, T[c].link) /\ T[c].link \in Clusters \union {EOF}
<1> DEFINE S == {x \in Clusters : Whole(T, x)}
<1>1. h \in Clusters => h \in S
  OBVIOUS
<1>2. \A x \in S : T[x].link \in Clusters => T[x].link \in S
  BY WholeEnd
<1>3. c \in S
  BY <1>1, <1>2, ReachedLeast
<1>4. Whole(T, T[c].link)
  BY <1>3, WholeEnd
<1>5. T[c].link \in Links /\ T[c].link # FREE
  BY <1>3, <1>4, TableLinks, WholeEnd
<1>6. QED
  BY <1>3, <1>4, <1>5, Constants

\* A whole chain does not come back to a cluster.
LEMMA NoCircle ==
  ASSUME NEW T, NEW c \in Clusters, Whole(T, c)
  PROVE  c \notin Reached(T, T[c].link)
<1>1. SUFFICES ASSUME c \in Reached(T, T[c].link) PROVE FALSE
  OBVIOUS
<1> DEFINE S == {x \in Clusters : c \in Reached(T, x)}
<1>2. c \in S
  BY ReachedStep
<1>3. T[c].link \in Clusters
  BY <1>1, ReachedNone
<1>4. \A x \in S : x # c => c \in Reached(T, T[x].link)
  BY ReachedFirst
<1>5. \A x \in S : T[x].link \in Clusters => T[x].link \in S
  BY <1>1, <1>4
<1>6. Reached(T, c) \subseteq S
  BY <1>2, <1>5, ReachedLeast
<1>7. \A x \in S : T[x].link # EOF
  BY <1>3, <1>4, ReachedNone, Constants
<1>8. QED
  BY <1>6, <1>7, Constants DEF Whole, EndsIn

\* A chain is the same in tables that agree on its clusters.
LEMMA SameChain ==
  ASSUME NEW T, NEW U, NEW h, \A c \in Reached(T, h) : U[c].link = T[c].link
  PROVE  /\ Reached(U, h) = Reached(T, h)
         /\ \A x : EndsIn(U, h, x) <=> EndsIn(T, h, x)
         /\ Whole(U, h) <=> Whole(T, h)
<1>1. Reached(U, h) \subseteq Reached(T, h)
  BY ReachedStep, ReachedLeast
<1> DEFINE S == Reached(U, h)
<1>2. S \in SUBSET Clusters /\ (h \in Clusters => h \in S)
  BY ReachedStep
<1>3. \A c \in S : T[c].link \in Clusters => T[c].link \in S
  BY <1>1, ReachedStep
<1>4. Reached(T, h) \subseteq S
  BY <1>2, <1>3, ReachedLeast
<1>5. Reached(U, h) = Reached(T, h)
  BY <1>1, <1>4
<1>6. QED
  BY <1>5 DEF EndsIn, Whole

\* Cluster c, which leads to what follows p, is put behind p.
LEMMA Inserted ==
  ASSUME NEW T \in Tables, NEW U, NEW h, NEW p \in Reached(T, h), NEW c \in Clusters,
         Whole(T, h), c \notin Reached(T, h), U[p].link = c, U[c].link = T[p].link,
         \A x \in Reached(T, h) : x # p => U[x].link = T[x].link
  PROVE  Whole(U, h) /\ Reached(U, h) = Reached(T, h) \union {c}
<1> DEFINE R == Reached(T, h)
           V == Reached(U, h)
<1>1. p \in Clusters /\ p # c /\ h \in Clusters
  BY ReachedStep, ReachedNone
<1>2. V \subseteq R \union {c}
  <2>1. R \union {c} \in SUBSET Clusters /\ h \in R
    BY <1>1, ReachedStep
  <2>2. \A x \in R \union {c} : U[x].link \in Clusters => U[x].link \in R \union {c}
    BY ReachedStep
  <2>3. QED
    BY <2>1, <2>2, ReachedLeast
<1> DEFINE S == V \intersect R
<1>3. h \in S
  BY <1>1, ReachedStep
<1>4. \A x \in S : T[x].link \in Clusters => T[x].link \in S
  <2>1. SUFFICES ASSUME NEW x \in S, T[x].link \in Clusters PROVE T[x].link \in V
    BY ReachedStep
  <2>2. CASE x = p
    <3>1. c \in V
      BY <2>1, <2>2, ReachedStep
    <3>2. QED
      BY <2>1, <2>2, <3>1, ReachedStep
  <2>3. CASE x # p
    BY <2>1, <2>3, ReachedStep
  <2>4. QED
    BY <2>2, <2>3
<1>5. R \subseteq S
  <2>1. S \in SUBSET Clusters
    BY ReachedStep
  <2>2. QED
    BY <1>3, <1>4, <2>1, ReachedLeast
<1>6. c \in V
  BY <1>5, ReachedStep
<1>7. V = R \union {c}
  BY <1>2, <1>5, <1>6
<1>8. Whole(U, h)
  <2>1. PICK x \in R : T[x].link = EOF
    BY <1>1, Constants DEF Whole, EndsIn
  <2>2. U[x].link = EOF \/ U[c].link = EOF
    BY <2>1
  <2>3. QED
    BY <1>7, <2>1, <2>2 DEF Whole, EndsIn
<1>9. QED
  BY <1>7, <1>8

\* The chain is cut behind p: two chains, each of them whole.
LEMMA Cut ==
  ASSUME NEW T \in Tables, NEW U, NEW h, NEW p \in Reached(T, h), Whole(T, h),
         U[p].link = EOF, \A x \in Reached(T, h) : x # p => U[x].link = T[x].link
  PROVE  /\ Whole(U, h) /\ Whole(U, T[p].link)
         /\ Reached(U, h) \intersect Reached(U, T[p].link) = {}
         /\ Reached(U, h) \union Reached(U, T[p].link) = Reached(T, h)
<1> DEFINE n == T[p].link
           R == Reached(T, h)
           A == Reached(U, h)
           B == Reached(U, n)
           D == {x \in R : p \in Reached(T, x)}
           E == {x \in R : p \notin Reached(T, x)}
<1>1. /\ p \in Clusters /\ h \in Clusters /\ h \in R /\ R \subseteq Clusters
      /\ n \in Clusters => n \in R
  BY ReachedStep, ReachedNone
<1>2. Whole(T, p) /\ Whole(T, n) /\ p \notin Reached(T, n)
  BY <1>1, WholeTails, NoCircle
<1>3. \A x \in R : Reached(T, x) = {x} \union Reached(T, T[x].link)
  BY <1>1, ReachedFirst
<1>4. A \subseteq D
  <2>1. h \in D /\ D \in SUBSET Clusters
    BY <1>1
  <2>2. \A x \in D : U[x].link \in Clusters => U[x].link \in D
    <3>1. SUFFICES ASSUME NEW x \in D, U[x].link \in Clusters PROVE U[x].link \in D
      OBVIOUS
    <3>2. x # p /\ U[x].link = T[x].link
      BY <3>1, Constants
    <3>3. T[x].link \in R
      BY <3>1, <3>2, ReachedStep
    <3>4. QED
      BY <1>3, <3>2, <3>3
  <2>3. QED
    BY <2>1, <2>2, ReachedLeast
<1>5. B = Reached(T, n) /\ Whole(U, n)
  <2>1. Reached(T, n) \subseteq R
    BY <1>1, ReachedTrans, ReachedNone
  <2>2. \A x \in Reached(T, n) : U[x].link = T[x].link
    BY <1>2, <2>1
  <2>3. QED
    BY <1>2, <2>2, SameChain
<1>6. B \subseteq E
  <2>1. n \in Clusters => n \in E
    BY <1>1, <1>2
  <2>2. \A x \in E : T[x].link \in Clusters => T[x].link \in E
    BY <1>3, ReachedStep
  <2>3. E \in SUBSET Clusters
    BY <1>1
  <2>4. QED
    BY <1>5, <2>1, <2>2, <2>3, ReachedLeast
<1>7. A \intersect B = {}
  BY <1>4, <1>6
<1>8. R \subseteq A \union B
  <2>1. A \union B \in SUBSET Clusters /\ h \in A
    BY <1>1, ReachedStep
  <2>2. \A x \in A \union B : T[x].link \in Clusters => T[x].link \in A \union B
    <3>1. SUFFICES ASSUME NEW x \in A \union B, T[x].link \in Clusters PROVE T[x].link \in A \union B
      OBVIOUS
    <3>2. CASE x = p
      BY <3>1, <3>2, ReachedStep
    <3>3. CASE x # p
      <4>1. U[x].link = T[x].link
        BY <1>4, <1>6, <3>1, <3>3
      <4>2. QED
        BY <3>1, <4>1, ReachedStep
    <3>4. QED
      BY <3>2, <3>3
  <2>3. QED
    BY <2>1, <2>2, ReachedLeast
<1>9. p \in A
  <2>1. p \notin B
    BY <1>2, <1>5
  <2>2. QED
    BY <1>8, <2>1
<1>10. Whole(U, h)
  BY <1>9 DEF Whole, EndsIn
<1>11. QED
  BY <1>4, <1>5, <1>6, <1>7, <1>8, <1>10

-----------------------------------------------------------------------------
(* What the invariant says *)

\* The clusters of a file with head h, call o and table T: what it keeps, what a
\* truncate has cut off and not freed yet, and the one a call is entering or freeing.
Cutting(o)     == o.pc \in {"free", "release"}
NoneKept(o)    == Cutting(o) /\ o.prev = NONE
Kept(T, h, o)  == IF NoneKept(o) THEN {} ELSE Reached(T, h)
CutOff(T, o)   == IF Cutting(o) THEN Reached(T, o.next) ELSE {}
InHand(o)      == IF o.pc \in {"enter", "link", "release"} THEN {o.cluster} ELSE {}
Parts(T, h, o) == Kept(T, h, o) \union CutOff(T, o) \union InHand(o)

\* They are whole and apart, and the call knows where they meet.
Fits(T, h, o) ==
  /\ NoneKept(o) \/ Whole(T, h)
  /\ Cutting(o) => Whole(T, o.next)
  /\ InHand(o) \subseteq Clusters
  /\ Kept(T, h, o) \intersect CutOff(T, o) = {}
  /\ InHand(o) \intersect (Kept(T, h, o) \union CutOff(T, o)) = {}
  /\ o.pc \in {"enter", "link"} =>
       IF o.prev = NONE THEN o.next = h
       ELSE o.prev \in Kept(T, h, o) /\ o.next = T[o.prev].link
  /\ o.pc = "link" => T[o.cluster].link = o.next
  /\ o.pc \in {"enter", "release"} => T[o.cluster].link = FREE

Held(f)   == Parts(Table, head[f], op[f])
FileOK(f) == Fits(Table, head[f], op[f])

Sound == Files \ broken
FilesInv ==
  /\ \A f \in Sound : FileOK(f)
  /\ \A f, g \in Sound : f # g => Held(f) \intersect Held(g) = {}

\* P are the clusters of the broken files: none is on the list of free clusters or
\* of another file, and each is reached from a broken file through others of them.
Carried(P, S) ==
  /\ S \subseteq P
  /\ \A f \in broken : head[f] \in P => head[f] \in S
  /\ \A c \in S : Table[c].link \in P => Table[c].link \in S

AllHeld == UNION {Held(f) : f \in Sound}

ListInv(P) ==
  /\ P \subseteq inUse /\ AllHeld \subseteq inUse \ P
  /\ \A S \in SUBSET P : Carried(P, S) => S = P
  /\ \A c \in P : Table[c].link # FREE
  /\ \A c \in Clusters \ inUse : Table[c].link = FREE
  /\ phase = "mounted" => inUse = P \union AllHeld
  /\ phase = "adjust" => /\ \A c \in inUse : Table[c].link # FREE
                         /\ Assigned = P \union AllHeld

Open == phase \in {"adjust", "mounted"}

OpenInv ==
  Open => /\ fat[1] = fat[2]
          /\ FilesInv
          /\ \E P \in SUBSET Clusters : ListInv(P)

CallInv ==
  /\ phase # "mounted" => \A f \in Files : op[f].pc = "idle"
  /\ \A f \in broken : op[f].pc = "idle"
  /\ phase = "verify" => disk[1] = disk[2]

\* An image of a file is a whole chain;
Chained(image) ==
  \E T \in Tables :
    /\ image.head \in Clusters \union {EOF} /\ Whole(T, image.head)
    /\ DOMAIN image.entries = Reached(T, image.head)
    /\ \A c \in Reached(T, image.head) : image.entries[c] = T[c]

\* and until the volume is mounted again it is on the disk, and then in the cache.
Has(image, h, T) == h = image.head /\ \A c \in DOMAIN image.entries : T[c] = image.entries[c]

ImageOK(f, image) ==
  /\ Chained(image)
  /\ (\A c \in DOMAIN image.entries : BlockOf(c) \notin zeroed) =>
       /\ phase # "mounted" => \A k \in Copies : Has(image, diskHead[f], disk[k])
       /\ phase = "repair" => Has(image, diskHead[f], repaired)
       /\ Open => /\ f \in Sound /\ op[f].pc = "idle"
                  /\ \A k \in Copies : Has(image, head[f], fat[k])

SavedInv ==
  /\ DOMAIN saved = Files
  /\ \A f \in Files : \A image \in saved[f] : ImageOK(f, image)

Inv == TypeOK /\ CallInv /\ OpenInv /\ SavedInv

-----------------------------------------------------------------------------
(* Consequences *)

LEMMA Types ==
  ASSUME TypeOK
  PROVE  /\ fat[1] \in Tables /\ fat[2] \in Tables /\ Table \in Tables
         /\ disk[1] \in Tables /\ disk[2] \in Tables /\ repaired \in Tables
         /\ \A k \in Copies : fat[k] \in Tables /\ disk[k] \in Tables
         /\ \A f \in Files : head[f] \in Clusters \union {EOF}
         /\ \A f \in Files : diskHead[f] \in Clusters \union {EOF}
  BY DEF TypeOK, Tables, Table, Copies

OpRecords ==
  [pc : {"idle", "enter", "link", "free", "release"}, cluster : Clusters \union {FREE},
   index : 0 .. MaxIndex, prev : Clusters \union {NONE}, next : Clusters \union {EOF}]

LEMMA OpTypes ==
  ASSUME TypeOK, NEW f \in Files
  PROVE  /\ op[f] \in OpRecords
         /\ op[f].pc \in {"idle", "enter", "link", "free", "release"}
         /\ op[f].cluster \in Clusters \union {FREE} /\ op[f].index \in 0 .. MaxIndex
         /\ op[f].prev \in Clusters \union {NONE} /\ op[f].next \in Clusters \union {EOF}
         /\ DOMAIN op = Files
  BY DEF TypeOK, OpRecords

\* The order of the numbers as a relation, for WFMin.
Less == {p \in Nat \X Nat : p[1] < p[2]}

LEMMA LeastIn ==
  ASSUME NEW S, S \subseteq Nat, S # {}
  PROVE  \E m \in S : \A k \in S : m <= k
<1>1. IsWellFoundedOn(Less, Nat)
  BY NatLessThanWellFounded DEF OpToRel, Less
<1>2. \E m \in S : \A k \in S : ~(<<k, m>> \in Less)
  BY <1>1, WFMin
<1>3. \A k, m \in S : <<k, m>> \in Less \/ m <= k
  BY DEF Less
<1>4. QED
  BY <1>2, <1>3

\* There is a last cluster before an index.
LEMMA PrevIs ==
  ASSUME TypeOK, NEW f \in Files, NEW i \in Int
  PROVE  PrevOf(f, i) = NONE \/ PrevOf(f, i) \in Chain(f)
<1> DEFINE before == {c \in Chain(f) : Table[c].index < i}
           left == {MaxIndex - Table[c].index : c \in before}
<1>1. \A c \in Chain(f) : c \in Clusters /\ Table[c].index \in 0 .. MaxIndex
  BY Types, TableLinks DEF Chain, ChainOf, Reached
<1>2. ASSUME before # {} PROVE \E c \in before : \A d \in before : Table[d].index <= Table[c].index
  <2>0. \A c \in before : MaxIndex - Table[c].index \in Nat
    BY <1>1, Constants
  <2>1. left \subseteq Nat /\ left # {}
    BY <1>2, <2>0
  <2>2. PICK m \in left : \A k \in left : m <= k
    BY <2>1, LeastIn
  <2>3. PICK c \in before : m = MaxIndex - Table[c].index
    BY <2>2
  <2>4. \A d \in before : Table[d].index <= Table[c].index
    <3>1. SUFFICES ASSUME NEW d \in before PROVE Table[d].index <= Table[c].index
      OBVIOUS
    <3>2. m <= MaxIndex - Table[d].index
      BY <2>2
    <3>3. QED
      BY <1>1, <2>3, <3>2, Constants
  <2>5. QED
    BY <2>4
<1>3. CASE before = {}
  BY <1>3 DEF PrevOf
<1>4. CASE before # {}
  <2>1. PrevOf(f, i) = CHOOSE c \in before : \A d \in before : Table[d].index <= Table[c].index
    BY <1>4 DEF PrevOf
  <2>2. QED
    BY <1>2, <1>4, <2>1
<1>5. QED
  BY <1>3, <1>4

\* All clusters of a whole chain are on it.
LEMMA WholeChain ==
  ASSUME NEW T \in Tables, NEW h, Whole(T, h)
  PROVE  ChainOf(T, h) = Reached(T, h) /\ h # FREE
<1>1. \A c \in Reached(T, h) : T[c].link # FREE
  BY WholeTails, Constants
<1>2. Reached(T, h) \subseteq Clusters
  BY ReachedStep
<1>3. QED
  BY <1>1, <1>2, WholeEnd DEF ChainOf

\* Where a call on a file begins: at the cluster before an index, or at the head.
LEMMA Begins ==
  ASSUME TypeOK, NEW f \in Files, Whole(Table, head[f]), NEW i \in Int, NEW p, p = PrevOf(f, i)
  PROVE  /\ p \in Clusters \union {NONE} /\ NextOf(f, p) \in Clusters \union {EOF}
         /\ IF p = NONE THEN NextOf(f, p) = head[f]
            ELSE p \in Reached(Table, head[f]) /\ NextOf(f, p) = Table[p].link
<1>1. p = NONE \/ p \in Reached(Table, head[f])
  BY PrevIs, Types, WholeChain DEF Chain
<1>2. CASE p = NONE
  BY <1>2, Types DEF NextOf
<1>3. CASE p # NONE
  <2>1. p \in Reached(Table, head[f])
    BY <1>1, <1>3
  <2>2. Table[p].link \in Clusters \union {EOF}
    BY <2>1, Types, WholeTails
  <2>3. p \in Clusters
    BY <2>1, ReachedStep
  <2>4. QED
    BY <1>3, <2>1, <2>2, <2>3 DEF NextOf
<1>4. QED
  BY <1>2, <1>3

\* A call in progress is on a file with a whole chain, of a mounted volume.
LEMMA InProgress ==
  ASSUME Inv, NEW f \in Files, op[f].pc # "idle"
  PROVE  phase = "mounted" /\ f \in Sound /\ FileOK(f) /\ fat[1] = fat[2]
<1>1. phase = "mounted"
  BY DEF Inv, CallInv
<1>2. f \in Sound
  BY DEF Inv, CallInv, Sound
<1>3. QED
  BY <1>1, <1>2 DEF Inv, OpenInv, Open, FilesInv

LEMMA FixTyped ==
  ASSUME TypeOK
  PROVE  FatTableFix \in [Clusters -> Entry]
<1>1. FreeEntry \in Entry
  BY Constants DEF FreeEntry, Entry, Links
<1>2. \A k \in Copies : Candidate(k) \in [Clusters -> Entry]
  BY <1>1 DEF Candidate, TypeOK, Copies
<1>3. \A c \in Clusters : Candidate(1)[c] \in Entry /\ Candidate(2)[c] \in Entry
  BY <1>2 DEF Copies
<1>4. QED
  BY <1>3 DEF FatTableFix

LEMMA EntryWritten ==
  ASSUME TypeOK, NEW c \in Clusters, NEW e \in Entry
  PROVE  /\ WriteFATEntry(c, e) \in [Copies -> [Clusters -> Entry]]
         /\ \A k \in Copies : WriteFATEntry(c, e)[k] = [fat[k] EXCEPT ![c] = e]
  BY DEF WriteFATEntry, TypeOK

LEMMA LinkWritten ==
  ASSUME TypeOK, NEW c \in Clusters, NEW x \in Links
  PROVE  /\ [index |-> Table[c].index, link |-> x] \in Entry
         /\ SetClusterValue(c, x) = WriteFATEntry(c, [index |-> Table[c].index, link |-> x])
  BY Types, TableLinks DEF SetClusterValue, Entry

LEMMA LinkTyped ==
  ASSUME TypeOK, NEW c \in Clusters, NEW x \in Links
  PROVE  /\ SetClusterValue(c, x) \in [Copies -> [Clusters -> Entry]]
         /\ \A k \in Copies : SetClusterValue(c, x)[k] =
              [fat[k] EXCEPT ![c] = [index |-> Table[c].index, link |-> x]]
<1>1. PICK e \in Entry : e = [index |-> Table[c].index, link |-> x]
  BY LinkWritten
<1>2. SetClusterValue(c, x) = WriteFATEntry(c, e)
  BY <1>1, LinkWritten
<1>3. QED
  BY <1>1, <1>2, EntryWritten

LEMMA OpChanged ==
  ASSUME NEW o \in OpRecords, NEW c \in Clusters, NEW n \in Clusters \union {EOF}
  PROVE  [o EXCEPT !.pc = "release", !.cluster = c, !.next = n] \in OpRecords
  BY DEF OpRecords

-----------------------------------------------------------------------------
(* Types *)

LEMMA CallTypes ==
  ASSUME Inv, NEW f \in Files,
         \/ \E i \in 0 .. MaxIndex : \E c \in Clusters : AllocateCluster(f, i, c)
         \/ EnterCluster(f) \/ LinkCluster(f)
         \/ \E i \in 0 .. MaxIndex : Truncate(f, i)
         \/ FreeEntryOf(f) \/ SetFreeClusterValue(f) \/ TruncateReturn(f)
  PROVE  TypeOK'
<1> USE DEF Volume
<1>0. TypeOK
  BY DEF Inv
<1>1. /\ UNCHANGED Volume
      /\ FreeEntry \in Entry /\ EOF \in Links
      /\ Idle \in OpRecords
  <2>1. UNCHANGED Volume
    BY DEF AllocateCluster, EnterCluster, LinkCluster, Truncate, FreeEntryOf, SetFreeClusterValue, TruncateReturn
  <2>2. QED
    BY <2>1, Constants DEF FreeEntry, Idle, Entry, OpRecords
<1>2. ASSUME NEW i \in 0 .. MaxIndex, StartCall(f)
      PROVE  /\ PrevOf(f, i) \in Clusters \union {NONE}
             /\ NextOf(f, PrevOf(f, i)) \in Clusters \union {EOF}
             /\ PrevOf(f, i) # NONE => PrevOf(f, i) \in Clusters
  <2>1. f \in Sound /\ phase = "mounted" /\ op[f].pc = "idle"
    BY <1>2 DEF StartCall, Sound
  <2>2. Whole(Table, head[f])
    BY <2>1 DEF Inv, OpenInv, Open, FilesInv, FileOK, Fits, NoneKept, Cutting
  <2>3. i \in Int
    BY <1>2
  <2>4. QED
    BY <1>0, <2>2, <2>3, Begins, Constants
<1>3. CASE \E i \in 0 .. MaxIndex : \E c \in Clusters : AllocateCluster(f, i, c)
  <2>1. PICK i \in 0 .. MaxIndex, c \in Clusters : AllocateCluster(f, i, c)
    BY <1>3
  <2>2. PICK p, n : p = PrevOf(f, i) /\ n = NextOf(f, p)
    OBVIOUS
  <2>3. p \in Clusters \union {NONE} /\ n \in Clusters \union {EOF}
    BY <1>2, <2>1, <2>2 DEF AllocateCluster
  <2>4. op' = [op EXCEPT ![f] = [pc |-> "enter", cluster |-> c, index |-> i, prev |-> p, next |-> n]]
    BY <2>1, <2>2 DEF AllocateCluster
  <2>5. inUse' \subseteq Clusters /\ UNCHANGED <<fat, head>>
    BY <1>0, <2>1 DEF AllocateCluster, TypeOK, OpRecords
  <2>6. QED
    BY <1>0, <1>1, <2>3, <2>4, <2>5 DEF TypeOK, OpRecords
<1>4. CASE EnterCluster(f)
  <2>1. op[f].cluster \in Clusters
    BY <1>0, <1>4, InProgress DEF EnterCluster, FileOK, Fits, InHand
  <2>2. [index |-> op[f].index, link |-> op[f].next] \in Entry
    BY <1>0, OpTypes, Constants DEF Entry
  <2>3. fat' \in [Copies -> [Clusters -> Entry]]
    BY <1>0, <1>4, <2>1, <2>2, EntryWritten DEF EnterCluster
  <2>4. op' = [op EXCEPT ![f].pc = "link"] /\ UNCHANGED <<head, inUse>>
    BY <1>4 DEF EnterCluster
  <2>5. QED
    BY <1>0, <1>1, <2>3, <2>4 DEF TypeOK, OpRecords
<1>5. CASE LinkCluster(f)
  <2>1. op[f].cluster \in Clusters
    BY <1>0, <1>5, InProgress DEF LinkCluster, FileOK, Fits, InHand
  <2>2. op' = [op EXCEPT ![f] = Idle] /\ UNCHANGED inUse
    BY <1>5 DEF LinkCluster
  <2>3. fat' \in [Copies -> [Clusters -> Entry]] /\ head' \in [Files -> Clusters \union {EOF}]
    <3>1. CASE op[f].prev = NONE
      BY <1>0, <1>5, <2>1, <3>1 DEF LinkCluster, TypeOK, OpRecords
    <3>2. CASE op[f].prev # NONE
      <4>1. op[f].prev \in Clusters /\ op[f].cluster \in Links
        BY <1>0, <2>1, <3>2, OpTypes, Constants
      <4>2. fat' = SetClusterValue(op[f].prev, op[f].cluster) /\ UNCHANGED head
        BY <1>5, <3>2 DEF LinkCluster
      <4>3. fat' \in [Copies -> [Clusters -> Entry]]
        BY <1>0, <4>1, <4>2, LinkTyped
      <4>4. QED
        BY <1>0, <4>2, <4>3 DEF TypeOK, OpRecords
    <3>3. QED
      BY <3>1, <3>2
  <2>4. QED
    BY <1>0, <1>1, <2>2, <2>3 DEF TypeOK, OpRecords
<1>6. CASE \E i \in 0 .. MaxIndex : Truncate(f, i)
  <2>1. PICK i \in 0 .. MaxIndex : Truncate(f, i)
    BY <1>6
  <2>2. PICK p, n : p = PrevOf(f, i) /\ n = NextOf(f, p)
    OBVIOUS
  <2>3. p \in Clusters \union {NONE} /\ n \in Clusters \union {EOF} /\ (p # NONE => p \in Clusters)
    BY <1>2, <2>1, <2>2 DEF Truncate
  <2>4. /\ op' = [op EXCEPT ![f] = [Idle EXCEPT !.pc = "free", !.prev = p, !.next = n]]
        /\ fat' = IF p = NONE THEN fat ELSE SetClusterValue(p, EOF)
        /\ UNCHANGED <<head, inUse>>
    BY <2>1, <2>2 DEF Truncate
  <2>5. fat' \in [Copies -> [Clusters -> Entry]]
    <3>1. CASE p = NONE
      BY <1>0, <2>4, <3>1 DEF TypeOK, OpRecords
    <3>2. CASE p # NONE
      BY <1>0, <1>1, <2>3, <2>4, <3>2, LinkTyped
    <3>3. QED
      BY <3>1, <3>2
  <2>6. QED
    BY <1>0, <1>1, <2>3, <2>4, <2>5 DEF TypeOK, OpRecords
<1>7. CASE FreeEntryOf(f)
  <2>1. PICK c \in Clusters : c = op[f].next
    BY <1>7 DEF FreeEntryOf
  <2>2. Table[c].link \in Clusters \union {EOF}
    <3>1. Whole(Table, c)
      BY <1>7, <2>1, InProgress DEF FreeEntryOf, FileOK, Fits, Cutting
    <3>2. c \in Reached(Table, c)
      BY ReachedStep
    <3>3. QED
      BY <1>0, <3>1, <3>2, Types, WholeTails
  <2>3. /\ op' = [op EXCEPT ![f].pc = "release", ![f].cluster = c, ![f].next = Table[c].link]
        /\ fat' = WriteFATEntry(c, FreeEntry) /\ UNCHANGED <<head, inUse>>
    BY <1>7, <2>1 DEF FreeEntryOf
  <2>4. fat' \in [Copies -> [Clusters -> Entry]]
    BY <1>0, <1>1, <2>3, EntryWritten
  <2>5. op' \in [Files -> OpRecords]
    <3>1. PICK o : o = op[f]
      OBVIOUS
    <3>2. PICK l \in Clusters \union {EOF} : l = Table[c].link
      BY <2>2
    <3>3. [o EXCEPT !.pc = "release", !.cluster = c, !.next = l]
            \in OpRecords
      BY <1>0, <3>1, OpTypes, OpChanged
    <3>4. op' = [op EXCEPT ![f] = [o EXCEPT !.pc = "release", !.cluster = c, !.next = l]]
      BY <1>0, <2>3, <3>1, <3>2, OpTypes
    <3>5. QED
      BY <1>0, <3>3, <3>4 DEF TypeOK, OpRecords
  <2>6. UNCHANGED <<head, inUse>>
    BY <2>3
  <2> HIDE DEF Volume
  <2>7. QED
    BY <1>0, <1>1, <2>4, <2>5, <2>6 DEF TypeOK, OpRecords, Volume
<1>8. CASE SetFreeClusterValue(f)
  <2>1. op' = [op EXCEPT ![f].pc = "free"] /\ UNCHANGED <<fat, head>> /\ inUse' \subseteq inUse
    BY <1>8 DEF SetFreeClusterValue
  <2>2. QED
    BY <1>0, <1>1, <2>1 DEF TypeOK, OpRecords
<1>9. CASE TruncateReturn(f)
  <2>1. op' = [op EXCEPT ![f] = Idle] /\ UNCHANGED <<fat, inUse>>
    BY <1>9 DEF TruncateReturn
  <2>2. head' \in [Files -> Clusters \union {EOF}]
    BY <1>0, <1>9 DEF TruncateReturn, TypeOK, OpRecords
  <2>3. QED
    BY <1>0, <1>1, <2>1, <2>2 DEF TypeOK, OpRecords
<1>10. QED
  BY <1>3, <1>4, <1>5, <1>6, <1>7, <1>8, <1>9

LEMMA VolumeTypes ==
  ASSUME TypeOK,
         \/ \E f \in Files : FlushRecord(f)
         \/ \E k \in Copies, b \in FatBlocks : FlushBlock(k, b)
         \/ Crash \/ Dismount \/ ReadFATTable \/ RepairWrite \/ RepairDone \/ VerifyChains
         \/ \E c \in Clusters : AdjustCluster(c)
         \/ MountDone
  PROVE  TypeOK'
<1>1. /\ FreeEntry \in Entry /\ NoTable \in [Clusters -> Entry]
      /\ Idle \in OpRecords
  BY Constants DEF FreeEntry, NoTable, Idle, Entry, Links, OpRecords
<1>2. CASE \E f \in Files : FlushRecord(f)
  <2>1. PICK f \in Files : FlushRecord(f)
    BY <1>2
  <2>2. diskHead' \in [Files -> Clusters \union {EOF}]
    BY <2>1 DEF FlushRecord, TypeOK, OpRecords
  <2>3. QED
    BY <2>1, <2>2 DEF FlushRecord, TypeOK, OpRecords
<1>3. CASE \E k \in Copies, b \in FatBlocks : FlushBlock(k, b)
  <2>1. PICK k \in Copies, b \in FatBlocks : FlushBlock(k, b)
    BY <1>3
  <2>2. disk' \in [Copies -> [Clusters -> Entry]]
    BY <2>1 DEF FlushBlock, TypeOK, OpRecords
  <2>3. QED
    BY <2>1, <2>2 DEF FlushBlock, TypeOK, OpRecords
<1>4. CASE Crash
  BY <1>1, <1>4 DEF Crash, TypeOK, OpRecords
<1>5. CASE Dismount
  BY <1>5 DEF Dismount, TypeOK, OpRecords
<1>6. CASE ReadFATTable
  <2>1. UNCHANGED <<disk, diskHead, fat, head, inUse, op, broken>>
    BY <1>6 DEF ReadFATTable, Cached
  <2>2. Cleared \subseteq FatBlocks
    BY DEF Cleared
  <2>3. repaired' \in [Clusters -> Entry]
    BY <1>6, FixTyped DEF ReadFATTable, TypeOK, OpRecords
  <2>4. writes' \subseteq FatBlocks \X Copies /\ zeroed' \subseteq FatBlocks
    BY <1>6, <2>2 DEF ReadFATTable, TypeOK, OpRecords
  <2>5. phase' \in {"verify", "repair"}
    BY <1>6 DEF ReadFATTable
  <2>6. QED
    BY <2>1, <2>3, <2>4, <2>5 DEF TypeOK, OpRecords
<1>7. CASE RepairWrite
  <2>1. PICK w : w = NextWrite
    OBVIOUS
  <2>2. /\ disk' = [disk EXCEPT ![w[2]] = [c \in Clusters |-> IF BlockOf(c) = w[1] THEN repaired[c] ELSE @[c]]]
        /\ writes' = writes \ {w}
        /\ UNCHANGED <<diskHead, phase, repaired, zeroed, fat, head, inUse, op, broken>>
    BY <1>7, <2>1 DEF RepairWrite, Cached
  <2>3. disk' \in [Copies -> [Clusters -> Entry]]
    BY <2>2 DEF TypeOK, OpRecords
  <2>4. QED
    BY <2>2, <2>3 DEF TypeOK, OpRecords
<1>8. CASE RepairDone
  BY <1>1, <1>8 DEF RepairDone, TypeOK, Cached
<1>9. CASE VerifyChains
  BY <1>9 DEF VerifyChains, TypeOK, OpRecords
<1>10. CASE \E c \in Clusters : AdjustCluster(c)
  <2>1. PICK c \in Clusters : AdjustCluster(c)
    BY <1>10
  <2>2. fat' \in [Copies -> [Clusters -> Entry]]
    BY <1>1, <2>1, EntryWritten DEF AdjustCluster
  <2>3. inUse' \subseteq inUse /\ UNCHANGED <<head, op>> /\ UNCHANGED Volume
    BY <2>1 DEF AdjustCluster
  <2>4. QED
    BY <2>2, <2>3 DEF TypeOK, OpRecords, Volume
<1>11. CASE MountDone
  BY <1>11 DEF MountDone, TypeOK, Cached
<1>12. QED
  BY <1>2, <1>3, <1>4, <1>5, <1>6, <1>7, <1>8, <1>9, <1>10, <1>11

-----------------------------------------------------------------------------
(* Steps of calls *)

\* The clusters of a file do not change where the table does not.
LEMMA PartsStay ==
  ASSUME NEW T, NEW U, NEW h, NEW o, \A c \in Parts(T, h, o) : U[c] = T[c]
  PROVE  /\ Parts(U, h, o) = Parts(T, h, o)
         /\ Fits(T, h, o) => Fits(U, h, o)
<1>1. /\ Kept(T, h, o) \subseteq Parts(T, h, o)
      /\ CutOff(T, o) \subseteq Parts(T, h, o)
      /\ InHand(o) \subseteq Parts(T, h, o)
  BY DEF Parts
<1>2. Kept(U, h, o) = Kept(T, h, o) /\ (NoneKept(o) \/ (Whole(U, h) <=> Whole(T, h)))
  BY <1>1, SameChain DEF Kept
<1>3. CutOff(U, o) = CutOff(T, o) /\ (Cutting(o) => (Whole(U, o.next) <=> Whole(T, o.next)))
  BY <1>1, SameChain DEF CutOff
<1>4. Parts(U, h, o) = Parts(T, h, o)
  BY <1>2, <1>3 DEF Parts
<1>5. o.pc \in {"enter", "link", "release"} => U[o.cluster] = T[o.cluster]
  BY <1>1 DEF InHand
<1>6. o.prev \in Kept(T, h, o) => U[o.prev] = T[o.prev]
  BY <1>1
<1>7. ASSUME Fits(T, h, o) PROVE Fits(U, h, o)
  BY <1>2, <1>3, <1>5, <1>6, <1>7 DEF Fits
<1>8. QED
  BY <1>4, <1>7

\* A step of a call on f, that changes table entries X, which no other file has.
LEMMA FileStep ==
  ASSUME TypeOK, phase = "mounted", FilesInv, NEW P \in SUBSET Clusters, ListInv(P),
         NEW f \in Sound, NEW X \in SUBSET Clusters,
         phase' = phase, broken' = broken, fat'[1] = fat'[2],
         \A c \in Clusters \ X : Table'[c] = Table[c],
         X \intersect P = {}, \A g \in Sound \ {f} : X \intersect Held(g) = {},
         \A g \in Files \ {f} : op'[g] = op[g] /\ head'[g] = head[g],
         Fits(Table', head'[f], op'[f]),
         NEW H, H = Parts(Table', head'[f], op'[f]),
         H \subseteq Held(f) \union (Clusters \ inUse),
         inUse' = (inUse \ Held(f)) \union H,
         \A c \in (Held(f) \union X) \ H : Table'[c].link = FREE
  PROVE  OpenInv'
<1> DEFINE A == AllHeld
<1>1. Sound' = Sound /\ f \in Files
  BY DEF Sound
<1>2. inUse \subseteq Clusters /\ A \subseteq inUse \ P /\ P \subseteq inUse
      /\ \A g \in Sound : Held(g) \subseteq A
  BY DEF TypeOK, ListInv, AllHeld
<1>3. ASSUME NEW g \in Sound, g # f
      PROVE  Held(g)' = Held(g) /\ FileOK(g)'
  <2>1. FileOK(g) /\ X \intersect Held(g) = {} /\ Held(g) \subseteq Clusters
    BY <1>2, <1>3 DEF FilesInv
  <2>2. PICK h, o : h = head[g] /\ o = op[g]
    OBVIOUS
  <2>3. h = head'[g] /\ o = op'[g]
    BY <1>3, <2>2 DEF Sound
  <2>4. \A c \in Parts(Table, h, o) : Table'[c] = Table[c]
    BY <2>1, <2>2 DEF Held
  <2>5. Parts(Table', h, o) = Parts(Table, h, o) /\ Fits(Table', h, o)
    BY <2>1, <2>2, <2>4, PartsStay DEF FileOK
  <2>6. QED
    BY <2>2, <2>3, <2>5 DEF Held, FileOK
<1>4. Held(f)' = H /\ FileOK(f)'
  BY DEF Held, FileOK
<1>5. FilesInv'
  <2>1. \A g \in Sound : FileOK(g)'
    BY <1>3, <1>4
  <2>2. \A g, e \in Sound : g # e => Held(g)' \intersect Held(e)' = {}
    <3>1. SUFFICES ASSUME NEW g \in Sound, NEW e \in Sound, g # e
                   PROVE  Held(g)' \intersect Held(e)' = {}
      OBVIOUS
    <3>2. \A d \in Sound \ {f} : H \intersect Held(d) = {}
      BY <1>2 DEF FilesInv
    <3>3. Held(g) \intersect Held(e) = {}
      BY <3>1 DEF FilesInv
    <3>4. QED
      BY <1>3, <1>4, <3>1, <3>2, <3>3
  <2>3. QED
    BY <1>1, <2>1, <2>2 DEF FilesInv
<1>6. AllHeld' = UNION {Held(g)' : g \in Sound}
  BY <1>1 DEF AllHeld
<1>7. \A c : c \in AllHeld' <=> c \in H \/ \E g \in Sound \ {f} : c \in Held(g)
  BY <1>3, <1>4, <1>6
<1>8. \A c : c \in A <=> c \in Held(f) \/ \E g \in Sound \ {f} : c \in Held(g)
  BY DEF AllHeld
<1>9. \A g \in Sound \ {f} : Held(g) \intersect Held(f) = {}
  BY DEF FilesInv
<1>10. inUse = P \union A
  BY DEF ListInv
<1>11. P \intersect Held(f) = {} /\ P \intersect H = {}
  BY <1>2
<1>12. inUse' = P \union AllHeld' /\ P \intersect AllHeld' = {}
  BY <1>2, <1>7, <1>8, <1>9, <1>10, <1>11
<1>13. \A c \in Clusters \ inUse' : Table'[c].link = FREE
  <2>1. SUFFICES ASSUME NEW c \in Clusters, c \notin inUse' PROVE Table'[c].link = FREE
    OBVIOUS
  <2>2. c \notin H
    BY <2>1
  <2>3. CASE c \in Held(f) \union X
    BY <2>2, <2>3
  <2>4. CASE c \notin Held(f) \union X
    <3>1. c \notin inUse /\ Table'[c] = Table[c]
      BY <2>1, <2>4
    <3>2. QED
      BY <3>1 DEF ListInv
  <2>5. QED
    BY <2>3, <2>4
<1>14. \A c \in P : Table'[c] = Table[c]
  OBVIOUS
<1>15. \A S \in SUBSET P : Carried(P, S)' => S = P
  <2>1. SUFFICES ASSUME NEW S \in SUBSET P, Carried(P, S)' PROVE S = P
    OBVIOUS
  <2>2. \A g \in broken : head'[g] = head[g]
    BY DEF Sound, TypeOK
  <2>3. Carried(P, S)
    BY <1>14, <2>1, <2>2 DEF Carried
  <2>4. QED
    BY <2>3 DEF ListInv
<1>16. \A c \in P : Table'[c].link # FREE
  BY <1>14 DEF ListInv
<1>17. ListInv(P)'
  BY <1>12, <1>13, <1>15, <1>16 DEF ListInv
<1>18. QED
  BY <1>5, <1>17 DEF OpenInv, Open

\* What a file in a mounted volume has is in use, and nobody else's.
LEMMA Owned ==
  ASSUME Inv, phase = "mounted", NEW f \in Sound
  PROVE  /\ TypeOK /\ FilesInv /\ fat[1] = fat[2] /\ f \in Files /\ FileOK(f)
         /\ Held(f) \subseteq inUse /\ inUse \subseteq Clusters
         /\ \A g \in Sound \ {f} : Held(f) \intersect Held(g) = {}
         /\ \A g \in Sound : Held(g) \subseteq inUse
         /\ \A c \in Clusters \ inUse : Table[c].link = FREE
         /\ \E P \in SUBSET Clusters : ListInv(P) /\ P \subseteq inUse /\ Held(f) \intersect P = {}
<1>1. TypeOK /\ FilesInv /\ fat[1] = fat[2] /\ f \in Files /\ inUse \subseteq Clusters
  BY DEF Inv, OpenInv, Open, Sound, TypeOK
<1>2. PICK P \in SUBSET Clusters : ListInv(P)
  BY DEF Inv, OpenInv, Open
<1>3. \A g \in Sound : Held(g) \subseteq AllHeld
  BY DEF AllHeld
<1>4. P \subseteq inUse /\ \A g \in Sound : Held(g) \subseteq inUse /\ Held(g) \intersect P = {}
  BY <1>2, <1>3 DEF ListInv
<1>5. \A c \in Clusters \ inUse : Table[c].link = FREE
  BY <1>2 DEF ListInv
<1>6. FileOK(f) /\ \A g \in Sound \ {f} : Held(f) \intersect Held(g) = {}
  BY <1>1 DEF FilesInv
<1>7. QED
  BY <1>1, <1>2, <1>4, <1>5, <1>6

LEMMA AllocateOpen ==
  ASSUME Inv, NEW f \in Files, NEW i \in 0 .. MaxIndex, NEW c \in Clusters, AllocateCluster(f, i, c)
  PROVE  OpenInv'
<1>1. /\ phase = "mounted" /\ f \in Sound /\ op[f].pc = "idle" /\ c \notin inUse
      /\ inUse' = inUse \union {c} /\ UNCHANGED <<fat, head, phase, broken>>
  BY DEF AllocateCluster, StartCall, Sound, Volume
<1>2. PICK p, n : p = PrevOf(f, i) /\ n = NextOf(f, p)
  OBVIOUS
<1>3. PICK o : o = [pc |-> "enter", cluster |-> c, index |-> i, prev |-> p, next |-> n]
  OBVIOUS
<1>4. op' = [op EXCEPT ![f] = o]
  BY <1>2, <1>3 DEF AllocateCluster
<1>5. PICK P \in SUBSET Clusters : ListInv(P)
  BY <1>1, Owned
<1>6. PICK h, q : h = head[f] /\ q = op[f]
  OBVIOUS
<1>7. Fits(Table, h, q) /\ Parts(Table, h, q) = Reached(Table, h) /\ Whole(Table, h) /\ Held(f) = Reached(Table, h)
  <2>1. ~ Cutting(q) /\ ~ NoneKept(q) /\ InHand(q) = {}
    BY <1>1, <1>6 DEF Cutting, NoneKept, InHand
  <2>2. Fits(Table, h, q)
    BY <1>1, <1>6, Owned DEF FileOK
  <2>3. QED
    BY <1>6, <2>1, <2>2 DEF Fits, Parts, Kept, CutOff, Held
<1>8. TypeOK /\ op'[f] = o /\ head'[f] = h /\ \A g \in Files \ {f} : op'[g] = op[g] /\ head'[g] = head[g]
  BY <1>1, <1>4, <1>6 DEF TypeOK, Inv
<1>9. Table' = Table /\ fat'[1] = fat'[2]
  BY <1>1, Owned DEF Table
<1>10. IF p = NONE THEN n = h ELSE p \in Reached(Table, h) /\ n = Table[p].link
  BY <1>2, <1>6, <1>7, <1>8, Begins
<1>11. ~ Cutting(o) /\ ~ NoneKept(o) /\ InHand(o) = {c} /\ o.pc = "enter" /\ o.prev = p /\ o.next = n /\ o.cluster = c
  BY <1>3 DEF Cutting, NoneKept, InHand
<1>12. Kept(Table, h, o) = Reached(Table, h) /\ CutOff(Table, o) = {}
  BY <1>11 DEF Kept, CutOff
<1>13. c \notin Reached(Table, h) /\ Table[c].link = FREE
  BY <1>1, <1>7, Owned
<1>14. Fits(Table, h, o)
  BY <1>7, <1>10, <1>11, <1>12, <1>13 DEF Fits
<1>15. Parts(Table, h, o) = Held(f) \union {c}
  BY <1>7, <1>11, <1>12 DEF Parts
<1> DEFINE X == {}
<1>16. \A g \in Sound \ {f} : X \intersect Held(g) = {}
  OBVIOUS
<1>17. inUse' = (inUse \ Held(f)) \union (Held(f) \union {c})
  BY <1>1, Owned
<1>18. QED
  BY <1>1, <1>5, <1>8, <1>9, <1>14, <1>15, <1>16, <1>17, Owned, FileStep, X \in SUBSET Clusters, X \intersect P = {},
     (Held(f) \union X) \ (Held(f) \union {c}) = {}, Held(f) \union {c} \subseteq Held(f) \union (Clusters \ inUse)

LEMMA EnterOpen ==
  ASSUME Inv, NEW f \in Files, EnterCluster(f)
  PROVE  OpenInv'
<1>1. phase = "mounted" /\ f \in Sound /\ op[f].pc = "enter" /\ UNCHANGED <<head, inUse, phase, broken>>
  BY InProgress DEF EnterCluster, Volume
<1>2. PICK h, q : h = head[f] /\ q = op[f]
  OBVIOUS
<1>3. PICK c, n, p : c = q.cluster /\ n = q.next /\ p = q.prev
  OBVIOUS
<1>4. PICK P \in SUBSET Clusters : ListInv(P) /\ Held(f) \intersect P = {}
  BY <1>1, Owned
<1>5. ~ Cutting(q) /\ ~ NoneKept(q) /\ InHand(q) = {c} /\ q.pc = "enter"
  BY <1>1, <1>2, <1>3 DEF Cutting, NoneKept, InHand
<1>6. Kept(Table, h, q) = Reached(Table, h) /\ CutOff(Table, q) = {}
  BY <1>5 DEF Kept, CutOff
<1>7. Fits(Table, h, q) /\ Held(f) = Reached(Table, h) \union {c}
  BY <1>1, <1>2, <1>5, <1>6, Owned DEF FileOK, Held, Parts
<1>8. c \in Clusters /\ c \notin Reached(Table, h) /\ Whole(Table, h)
  BY <1>5, <1>6, <1>7 DEF Fits
<1>9. IF p = NONE THEN n = h ELSE p \in Reached(Table, h) /\ n = Table[p].link
  BY <1>3, <1>5, <1>6, <1>7 DEF Fits
<1>10. PICK e \in Entry : e = [index |-> q.index, link |-> n]
  <2>1. q.index \in 0 .. MaxIndex /\ n \in Links
    BY <1>2, <1>3, OpTypes, Constants DEF Inv
  <2>2. QED
    BY <2>1 DEF Entry
<1>11. fat' = WriteFATEntry(c, e)
  BY <1>2, <1>3, <1>10 DEF EnterCluster
<1>12. PICK T : T = Table
  OBVIOUS
<1>13. /\ Table' = [T EXCEPT ![c] = e] /\ fat'[1] = fat'[2] /\ T \in Tables
  BY <1>1, <1>8, <1>11, <1>12, Owned, EntryWritten, Types DEF Table, Copies, Inv
<1>14. PICK U : U = Table'
  OBVIOUS
<1>15. U[c].link = n /\ \A x \in Clusters \ {c} : U[x] = T[x]
  BY <1>8, <1>10, <1>13, <1>14 DEF Tables
<1>16. PICK o : o = op'[f]
  OBVIOUS
<1>17. /\ TypeOK /\ o = [q EXCEPT !.pc = "link"] /\ head'[f] = h
       /\ \A g \in Files \ {f} : op'[g] = op[g] /\ head'[g] = head[g]
  BY <1>1, <1>2, <1>16 DEF EnterCluster, TypeOK, Inv
<1>18. o.pc = "link" /\ o.cluster = c /\ o.next = n /\ o.prev = p
  BY <1>2, <1>3, <1>17, OpTypes DEF OpRecords
<1>19. ~ Cutting(o) /\ ~ NoneKept(o) /\ InHand(o) = {c}
  BY <1>18 DEF Cutting, NoneKept, InHand
<1>20. Reached(U, h) = Reached(T, h) /\ Whole(U, h)
  <2>1. \A x \in Reached(T, h) : U[x].link = T[x].link
    BY <1>8, <1>12, <1>15, ReachedStep
  <2>2. QED
    BY <1>8, <1>12, <2>1, SameChain
<1>21. Kept(U, h, o) = Reached(T, h) /\ CutOff(U, o) = {}
  BY <1>19, <1>20 DEF Kept, CutOff
<1>22. p # NONE => U[p].link = T[p].link
  <2>1. p # NONE => p \in Clusters \ {c}
    BY <1>8, <1>9, <1>12, ReachedStep
  <2>2. QED
    BY <1>15, <2>1
<1>23. Fits(U, h, o)
  BY <1>8, <1>9, <1>12, <1>15, <1>18, <1>19, <1>20, <1>21, <1>22 DEF Fits
<1>24. Parts(U, h, o) = Held(f)
  BY <1>7, <1>12, <1>19, <1>21 DEF Parts
<1> DEFINE X == {c}
<1>25. X \intersect P = {} /\ \A g \in Sound \ {f} : X \intersect Held(g) = {}
  BY <1>1, <1>4, <1>7, Owned
<1>26. inUse' = (inUse \ Held(f)) \union Held(f)
  BY <1>1, Owned
<1>27. \A x \in Clusters \ X : Table'[x] = Table[x]
  BY <1>12, <1>14, <1>15
<1>28. (Held(f) \union X) \ Held(f) = {}
  BY <1>7
<1>29. Fits(Table', head'[f], op'[f]) /\ Parts(Table', head'[f], op'[f]) = Held(f)
  BY <1>14, <1>16, <1>17, <1>23, <1>24
<1> HIDE DEF X
<1>30. X \in SUBSET Clusters
  BY <1>8 DEF X
<1>31. QED
  BY <1>1, <1>4, <1>13, <1>17, <1>25, <1>26, <1>27, <1>28, <1>29, <1>30, Owned, FileStep

\* A file no call is on has its chain, and it is whole.
LEMMA AtRest ==
  ASSUME NEW T, NEW h, NEW o, o.pc = "idle"
  PROVE  /\ Parts(T, h, o) = Reached(T, h)
         /\ Fits(T, h, o) <=> Whole(T, h)
<1>1. ~ Cutting(o) /\ ~ NoneKept(o) /\ InHand(o) = {}
  BY DEF Cutting, NoneKept, InHand
<1>2. Kept(T, h, o) = Reached(T, h) /\ CutOff(T, o) = {}
  BY <1>1 DEF Kept, CutOff
<1>3. Parts(T, h, o) = Reached(T, h)
  BY <1>1, <1>2 DEF Parts
<1>4. Fits(T, h, o) <=> Whole(T, h)
  BY <1>1, <1>2 DEF Fits
<1>5. QED
  BY <1>3, <1>4

\* What a call that links its cluster starts from.
LEMMA BeforeLink ==
  ASSUME Inv, NEW f \in Files, op[f].pc = "link", NEW T, T = Table, NEW h, h = head[f],
         NEW c, c = op[f].cluster, NEW p, p = op[f].prev
  PROVE  /\ T \in Tables /\ c \in Clusters /\ c \notin Reached(T, h) /\ Whole(T, h)
         /\ Held(f) = Reached(T, h) \union {c}
         /\ IF p = NONE THEN T[c].link = h ELSE p \in Reached(T, h) /\ T[c].link = T[p].link
<1>1. phase = "mounted" /\ f \in Sound
  BY InProgress
<1>2. PICK q : q = op[f]
  OBVIOUS
<1>3. ~ Cutting(q) /\ ~ NoneKept(q) /\ InHand(q) = {c}
  BY <1>2 DEF Cutting, NoneKept, InHand
<1>4. Kept(T, h, q) = Reached(T, h) /\ CutOff(T, q) = {}
  BY <1>3 DEF Kept, CutOff
<1>5. Fits(T, h, q) /\ Held(f) = Reached(T, h) \union {c}
  BY <1>1, <1>2, <1>3, <1>4, Owned DEF FileOK, Held, Parts
<1>6. c \in Clusters /\ c \notin Reached(T, h) /\ Whole(T, h)
  BY <1>3, <1>4, <1>5 DEF Fits
<1>7. IF p = NONE THEN T[c].link = h ELSE p \in Reached(T, h) /\ T[c].link = T[p].link
  BY <1>2, <1>4, <1>5 DEF Fits
<1>8. QED
  BY <1>5, <1>6, <1>7, Types DEF Inv

LEMMA LinkOpen ==
  ASSUME Inv, NEW f \in Files, LinkCluster(f)
  PROVE  OpenInv'
<1>1. phase = "mounted" /\ f \in Sound /\ op[f].pc = "link" /\ UNCHANGED <<inUse, phase, broken>>
  BY InProgress DEF LinkCluster, Volume
<1>2. PICK T, h, c, p : T = Table /\ h = head[f] /\ c = op[f].cluster /\ p = op[f].prev
  OBVIOUS
<1>3. /\ T \in Tables /\ c \in Clusters /\ c \notin Reached(T, h) /\ Whole(T, h)
      /\ Held(f) = Reached(T, h) \union {c}
      /\ IF p = NONE THEN T[c].link = h ELSE p \in Reached(T, h) /\ T[c].link = T[p].link
  BY <1>1, <1>2, BeforeLink
<1>4. PICK P \in SUBSET Clusters : ListInv(P) /\ Held(f) \intersect P = {}
  BY <1>1, Owned
<1>5. op'[f] = Idle /\ \A g \in Files \ {f} : op'[g] = op[g]
  BY DEF LinkCluster, TypeOK, Inv
<1>6. op'[f].pc = "idle"
  BY <1>5 DEF Idle
<1>7. inUse' = (inUse \ Held(f)) \union Held(f)
  BY <1>1, Owned
<1>8. CASE p = NONE
  <2>1. fat' = fat /\ head' = [head EXCEPT ![f] = c]
    BY <1>2, <1>8 DEF LinkCluster
  <2>2. Table' = T /\ fat'[1] = fat'[2] /\ head'[f] = c /\ \A g \in Files \ {f} : head'[g] = head[g]
    BY <1>1, <1>2, <2>1, Owned DEF Table, TypeOK, Inv
  <2>3. Reached(T, c) = Held(f)
    BY <1>3, <1>8, ReachedFirst
  <2>4. Whole(T, c)
    BY <1>3, <1>8, WholeEnd
  <2>5. Fits(Table', head'[f], op'[f]) /\ Parts(Table', head'[f], op'[f]) = Held(f)
    BY <1>6, <2>2, <2>3, <2>4, AtRest
  <2> DEFINE X == {}
  <2>6. X \in SUBSET Clusters /\ X \intersect P = {} /\ \A g \in Sound \ {f} : X \intersect Held(g) = {}
    OBVIOUS
  <2>7. \A x \in Clusters \ X : Table'[x] = Table[x]
    BY <1>2, <2>2
  <2>8. (Held(f) \union X) \ Held(f) = {}
    OBVIOUS
  <2> HIDE DEF X
  <2>9. QED
    BY <1>1, <1>4, <1>5, <1>7, <2>2, <2>5, <2>6, <2>7, <2>8, Owned, FileStep
<1>9. CASE p # NONE
  <2>1. fat' = SetClusterValue(p, c) /\ head' = head
    BY <1>2, <1>9 DEF LinkCluster
  <2>2. p \in Reached(T, h) /\ T[c].link = T[p].link /\ p \in Clusters
    BY <1>3, <1>9, ReachedStep
  <2>3. PICK e : e = [index |-> Table[p].index, link |-> c]
    OBVIOUS
  <2>4. Table' = [T EXCEPT ![p] = e] /\ fat'[1] = fat'[2]
    <3>1. c \in Links
      BY <1>3, Constants
    <3>2. \A k \in Copies : SetClusterValue(p, c)[k] =
            [fat[k] EXCEPT ![p] = [index |-> Table[p].index, link |-> c]]
      <4>1. TypeOK
        BY DEF Inv
      <4>2. QED
        BY <2>2, <3>1, <4>1, LinkTyped
    <3>3. QED
      BY <1>1, <1>2, <2>1, <2>3, <3>2, Owned DEF Table, Copies
  <2>5. PICK U : U = Table'
    OBVIOUS
  <2>6. U[p].link = c /\ \A x \in Clusters \ {p} : U[x] = T[x]
    BY <1>3, <2>2, <2>3, <2>4, <2>5 DEF Tables
  <2>7. p # c /\ U[c].link = T[p].link
    BY <1>3, <2>2, <2>6
  <2>8. Whole(U, h) /\ Reached(U, h) = Held(f)
    <3>1. \A x \in Reached(T, h) : x # p => U[x].link = T[x].link
      BY <2>6, ReachedStep
    <3>2. QED
      BY <1>3, <2>2, <2>6, <2>7, <3>1, Inserted
  <2>9. head'[f] = h /\ \A g \in Files \ {f} : op'[g] = op[g] /\ head'[g] = head[g]
    BY <1>2, <1>5, <2>1
  <2>10. Fits(Table', head'[f], op'[f]) /\ Parts(Table', head'[f], op'[f]) = Held(f)
    BY <1>6, <2>5, <2>8, <2>9, AtRest
  <2> DEFINE X == {p}
  <2>11. X \intersect P = {} /\ \A g \in Sound \ {f} : X \intersect Held(g) = {}
    BY <1>1, <1>3, <1>4, <2>2, Owned
  <2>12. \A x \in Clusters \ X : Table'[x] = Table[x]
    BY <1>2, <2>5, <2>6
  <2>13. (Held(f) \union X) \ Held(f) = {} /\ X \in SUBSET Clusters
    BY <1>3, <2>2
  <2> HIDE DEF X
  <2>14. TypeOK /\ FilesInv
    BY <1>1, Owned
  <2>15. fat'[1] = fat'[2]
    BY <2>4
  <2>16. QED
    BY <1>1, <1>4, <1>7, <2>9, <2>10, <2>11, <2>12, <2>13, <2>14, <2>15, FileStep
<1>10. QED
  BY <1>8, <1>9

LEMMA TruncateOpen ==
  ASSUME Inv, NEW f \in Files, NEW i \in 0 .. MaxIndex, Truncate(f, i)
  PROVE  OpenInv'
<1>1. /\ phase = "mounted" /\ f \in Sound /\ op[f].pc = "idle"
      /\ UNCHANGED <<head, inUse, phase, broken>>
  BY DEF Truncate, StartCall, Sound, Volume
<1>2. PICK T, h, p, n : T = Table /\ h = head[f] /\ p = PrevOf(f, i) /\ n = NextOf(f, p)
  OBVIOUS
<1>3. PICK o : o = [Idle EXCEPT !.pc = "free", !.prev = p, !.next = n]
  OBVIOUS
<1>4. op' = [op EXCEPT ![f] = o] /\ fat' = IF p = NONE THEN fat ELSE SetClusterValue(p, EOF)
  BY <1>2, <1>3 DEF Truncate
<1>5. op'[f] = o /\ head'[f] = h /\ \A g \in Files \ {f} : op'[g] = op[g] /\ head'[g] = head[g]
  BY <1>1, <1>2, <1>4 DEF TypeOK, Inv
<1>6. T \in Tables /\ Held(f) = Reached(T, h) /\ Whole(T, h)
  BY <1>1, <1>2, AtRest, Owned, Types DEF Held, FileOK
<1>7. IF p = NONE THEN n = h ELSE p \in Reached(T, h) /\ n = T[p].link
  BY <1>1, <1>2, <1>6, Owned, Begins
<1>8. PICK P \in SUBSET Clusters : ListInv(P) /\ Held(f) \intersect P = {}
  BY <1>1, Owned
<1>9. inUse' = (inUse \ Held(f)) \union Held(f)
  BY <1>1, Owned
<1>10. o.pc = "free" /\ o.prev = p /\ o.next = n
  BY <1>3 DEF Idle
<1>11. Cutting(o) /\ InHand(o) = {} /\ (NoneKept(o) <=> p = NONE)
  BY <1>10 DEF Cutting, InHand, NoneKept
<1>12. CASE p = NONE
  <2>1. Table' = T /\ fat'[1] = fat'[2]
    BY <1>1, <1>2, <1>4, <1>12, Owned DEF Table
  <2>2. Kept(T, h, o) = {} /\ CutOff(T, o) = Reached(T, h)
    BY <1>7, <1>10, <1>11, <1>12 DEF Kept, CutOff
  <2>3. Fits(T, h, o) /\ Parts(T, h, o) = Held(f)
    BY <1>6, <1>7, <1>10, <1>11, <1>12, <2>2 DEF Fits, Parts
  <2> DEFINE X == {}
  <2>4. X \in SUBSET Clusters /\ X \intersect P = {} /\ \A g \in Sound \ {f} : X \intersect Held(g) = {}
    OBVIOUS
  <2>5. \A x \in Clusters \ X : Table'[x] = Table[x]
    BY <1>2, <2>1
  <2>6. (Held(f) \union X) \ Held(f) = {}
    OBVIOUS
  <2>7. Fits(Table', head'[f], op'[f]) /\ Parts(Table', head'[f], op'[f]) = Held(f)
    BY <1>5, <2>1, <2>3
  <2> HIDE DEF X
  <2>8. QED
    BY <1>1, <1>5, <1>8, <1>9, <2>1, <2>4, <2>5, <2>6, <2>7, Owned, FileStep
<1>13. CASE p # NONE
  <2>1. p \in Reached(T, h) /\ n = T[p].link /\ p \in Clusters
    BY <1>7, <1>13, ReachedStep
  <2>2. PICK e : e = [index |-> Table[p].index, link |-> EOF]
    OBVIOUS
  <2>3. Table' = [T EXCEPT ![p] = e] /\ fat'[1] = fat'[2]
    <3>1. EOF \in Links /\ fat' = SetClusterValue(p, EOF)
      BY <1>4, <1>13, Constants
    <3>2. \A k \in Copies : fat'[k] = [fat[k] EXCEPT ![p] = e]
      BY <2>1, <2>2, <3>1, LinkTyped DEF Inv
    <3>3. QED
      BY <1>1, <1>2, <3>2, Owned DEF Table, Copies
  <2>4. PICK U : U = Table'
    OBVIOUS
  <2>5. U[p].link = EOF /\ \A x \in Clusters \ {p} : U[x] = T[x]
    BY <1>6, <2>1, <2>2, <2>3, <2>4 DEF Tables
  <2>6. /\ Whole(U, h) /\ Whole(U, n)
        /\ Reached(U, h) \intersect Reached(U, n) = {}
        /\ Reached(U, h) \union Reached(U, n) = Reached(T, h)
    <3>1. \A x \in Reached(T, h) : x # p => U[x].link = T[x].link
      BY <2>5, ReachedStep
    <3>2. QED
      BY <1>6, <2>1, <2>5, <3>1, Cut
  <2>7. Kept(U, h, o) = Reached(U, h) /\ CutOff(U, o) = Reached(U, n)
    BY <1>10, <1>11, <1>13 DEF Kept, CutOff
  <2>8. Fits(U, h, o) /\ Parts(U, h, o) = Held(f)
    BY <1>6, <1>10, <1>11, <2>6, <2>7 DEF Fits, Parts
  <2> DEFINE X == {p}
  <2>9. X \intersect P = {} /\ \A g \in Sound \ {f} : X \intersect Held(g) = {}
    BY <1>1, <1>6, <1>8, <2>1, Owned
  <2>10. \A x \in Clusters \ X : Table'[x] = Table[x]
    BY <1>2, <2>4, <2>5
  <2>11. (Held(f) \union X) \ Held(f) = {} /\ X \in SUBSET Clusters
    BY <1>6, <2>1
  <2>12. Fits(Table', head'[f], op'[f]) /\ Parts(Table', head'[f], op'[f]) = Held(f)
    BY <1>5, <2>4, <2>8
  <2> HIDE DEF X
  <2>13. QED
    BY <1>1, <1>5, <1>8, <1>9, <2>3, <2>9, <2>10, <2>11, <2>12, Owned, FileStep
<1>14. QED
  BY <1>12, <1>13

LEMMA FreeEntryOpen ==
  ASSUME Inv, NEW f \in Files, FreeEntryOf(f)
  PROVE  OpenInv'
<1>1. /\ phase = "mounted" /\ f \in Sound /\ op[f].pc = "free" /\ op[f].next \in Clusters
      /\ UNCHANGED <<head, inUse, phase, broken>>
  BY InProgress DEF FreeEntryOf, Volume
<1>2. PICK T, h, q, c : T = Table /\ h = head[f] /\ q = op[f] /\ c = op[f].next
  OBVIOUS
<1>3. PICK n : n = T[c].link
  OBVIOUS
<1>4. PICK o : o = [q EXCEPT !.pc = "release", !.cluster = c, !.next = n]
  OBVIOUS
<1>5. op' = [op EXCEPT ![f] = o] /\ fat' = WriteFATEntry(c, FreeEntry)
  BY <1>2, <1>3, <1>4 DEF FreeEntryOf
<1>6. op'[f] = o /\ head'[f] = h /\ \A g \in Files \ {f} : op'[g] = op[g] /\ head'[g] = head[g]
  BY <1>1, <1>2, <1>5 DEF TypeOK, Inv
<1>7. PICK P \in SUBSET Clusters : ListInv(P) /\ Held(f) \intersect P = {}
  BY <1>1, Owned
<1>8. Cutting(q) /\ InHand(q) = {} /\ CutOff(T, q) = Reached(T, c)
  BY <1>1, <1>2 DEF Cutting, InHand, CutOff
<1>9. Fits(T, h, q) /\ Held(f) = Kept(T, h, q) \union Reached(T, c)
  BY <1>1, <1>2, <1>8, Owned DEF FileOK, Held, Parts
<1>10. /\ Whole(T, c) /\ Kept(T, h, q) \intersect Reached(T, c) = {}
       /\ NoneKept(q) \/ Whole(T, h)
  BY <1>2, <1>8, <1>9 DEF Fits
<1>11. T \in Tables /\ c \in Clusters
  BY <1>1, <1>2, Types DEF Inv
<1>12. /\ Reached(T, c) = {c} \union Reached(T, n) /\ c \notin Reached(T, n)
       /\ Whole(T, n) /\ n \in Clusters \union {EOF}
  <2>1. Reached(T, c) = {c} \union Reached(T, n)
    BY <1>3, <1>11, ReachedFirst
  <2>2. c \notin Reached(T, n)
    BY <1>3, <1>10, <1>11, NoCircle
  <2>3. Whole(T, n) /\ n \in Clusters \union {EOF}
    BY <1>3, <1>10, <1>11, <2>1, WholeTails
  <2>4. QED
    BY <2>1, <2>2, <2>3
<1>13. Table' = [T EXCEPT ![c] = FreeEntry] /\ fat'[1] = fat'[2]
  <2>1. FreeEntry \in Entry
    BY Constants DEF FreeEntry, Entry
  <2>2. \A k \in Copies : fat'[k] = [fat[k] EXCEPT ![c] = FreeEntry]
    BY <1>5, <1>11, <2>1, EntryWritten DEF Inv
  <2>3. QED
    BY <1>1, <1>2, <2>2, Owned DEF Table, Copies
<1>14. PICK U : U = Table'
  OBVIOUS
<1>15. U[c].link = FREE /\ \A x \in Clusters \ {c} : U[x] = T[x]
  BY <1>11, <1>13, <1>14 DEF Tables, FreeEntry
<1>16. Reached(U, n) = Reached(T, n) /\ Whole(U, n)
  <2>1. \A x \in Reached(T, n) : U[x].link = T[x].link
    BY <1>12, <1>15, ReachedStep
  <2>2. QED
    BY <1>12, <2>1, SameChain
<1>17. o.pc = "release" /\ o.cluster = c /\ o.next = n /\ o.prev = q.prev
  BY <1>1, <1>2, <1>4, OpTypes DEF OpRecords, Inv
<1>18. Cutting(o) /\ InHand(o) = {c} /\ CutOff(U, o) = Reached(T, n) /\ (NoneKept(o) <=> NoneKept(q))
  BY <1>8, <1>16, <1>17 DEF Cutting, InHand, CutOff, NoneKept
<1>19. Kept(U, h, o) = Kept(T, h, q) /\ (NoneKept(o) \/ Whole(U, h))
  <2>1. CASE NoneKept(q)
    BY <1>18, <2>1 DEF Kept
  <2>2. CASE ~NoneKept(q)
    <3>1. Kept(T, h, q) = Reached(T, h) /\ Kept(U, h, o) = Reached(U, h)
      BY <1>18, <2>2 DEF Kept
    <3>2. \A x \in Reached(T, h) : U[x].link = T[x].link
      BY <1>10, <1>12, <1>15, <3>1, ReachedStep
    <3>3. QED
      BY <1>10, <2>2, <3>1, <3>2, SameChain
  <2>3. QED
    BY <2>1, <2>2
<1>20. Fits(U, h, o) /\ Parts(U, h, o) = Held(f)
  <2>1. Parts(U, h, o) = Held(f)
    BY <1>9, <1>12, <1>18, <1>19 DEF Parts
  <2>2. {c} \intersect (Kept(U, h, o) \union CutOff(U, o)) = {}
    BY <1>10, <1>12, <1>18, <1>19
  <2>3. Kept(U, h, o) \intersect CutOff(U, o) = {}
    BY <1>10, <1>12, <1>18, <1>19
  <2>4. Fits(U, h, o)
    BY <1>11, <1>15, <1>16, <1>17, <1>18, <1>19, <2>2, <2>3 DEF Fits
  <2>5. QED
    BY <2>1, <2>4
<1>21. inUse' = (inUse \ Held(f)) \union Held(f)
  BY <1>1, Owned
<1> DEFINE X == {c}
<1>22. X \intersect P = {} /\ \A g \in Sound \ {f} : X \intersect Held(g) = {}
  BY <1>1, <1>7, <1>9, <1>12, Owned
<1>23. \A x \in Clusters \ X : Table'[x] = Table[x]
  BY <1>2, <1>14, <1>15
<1>24. (Held(f) \union X) \ Held(f) = {} /\ X \in SUBSET Clusters
  BY <1>9, <1>11, <1>12
<1>25. Fits(Table', head'[f], op'[f]) /\ Parts(Table', head'[f], op'[f]) = Held(f)
  BY <1>6, <1>14, <1>20
<1> HIDE DEF X
<1>26. TypeOK /\ FilesInv
  BY <1>1, Owned
<1>27. QED
  BY <1>1, <1>6, <1>7, <1>13, <1>21, <1>22, <1>23, <1>24, <1>25, <1>26, FileStep

LEMMA SetFreeOpen ==
  ASSUME Inv, NEW f \in Files, SetFreeClusterValue(f)
  PROVE  OpenInv'
<1>1. /\ phase = "mounted" /\ f \in Sound /\ op[f].pc = "release"
      /\ UNCHANGED <<fat, head, phase, broken>>
  BY InProgress DEF SetFreeClusterValue, Volume
<1>2. PICK T, h, q, c : T = Table /\ h = head[f] /\ q = op[f] /\ c = op[f].cluster
  OBVIOUS
<1>3. PICK o : o = op'[f]
  OBVIOUS
<1>4. /\ o = [q EXCEPT !.pc = "free"] /\ inUse' = inUse \ {c}
      /\ \A g \in Files \ {f} : op'[g] = op[g] /\ head'[g] = head[g]
  BY <1>1, <1>2, <1>3 DEF SetFreeClusterValue, TypeOK, Inv
<1>5. PICK P \in SUBSET Clusters : ListInv(P) /\ Held(f) \intersect P = {}
  BY <1>1, Owned
<1>6. o.pc = "free" /\ o.prev = q.prev /\ o.next = q.next
  BY <1>1, <1>2, <1>4, OpTypes DEF OpRecords, Inv
<1>7. Cutting(q) /\ InHand(q) = {c} /\ Cutting(o) /\ InHand(o) = {} /\ (NoneKept(o) <=> NoneKept(q))
  BY <1>1, <1>2, <1>6 DEF Cutting, InHand, NoneKept
<1>8. Kept(T, h, o) = Kept(T, h, q) /\ CutOff(T, o) = CutOff(T, q)
  BY <1>6, <1>7 DEF Kept, CutOff
<1>9. Fits(T, h, q) /\ Held(f) = Parts(T, h, q)
  BY <1>1, <1>2, Owned DEF FileOK, Held
<1>10. T[c].link = FREE /\ c \notin Parts(T, h, o) /\ Held(f) = Parts(T, h, o) \union {c}
  BY <1>1, <1>2, <1>7, <1>8, <1>9 DEF Fits, Parts
<1>11. Fits(T, h, o)
  BY <1>6, <1>7, <1>8, <1>9 DEF Fits
<1>12. PICK H : H = Parts(T, h, o)
  OBVIOUS
<1>13. Table' = T /\ fat'[1] = fat'[2] /\ head'[f] = h
  BY <1>1, <1>2, Owned DEF Table
<1>14. inUse' = (inUse \ Held(f)) \union H
  BY <1>1, <1>4, <1>10, <1>12, Owned
<1>15. H \subseteq Held(f) \union (Clusters \ inUse)
  BY <1>10, <1>12
<1> DEFINE X == {}
<1>16. X \in SUBSET Clusters /\ X \intersect P = {} /\ \A g \in Sound \ {f} : X \intersect Held(g) = {}
  OBVIOUS
<1>17. \A x \in Clusters \ X : Table'[x] = Table[x]
  BY <1>2, <1>13
<1>18. \A x \in (Held(f) \union X) \ H : Table'[x].link = FREE
  BY <1>10, <1>12, <1>13
<1>19. Fits(Table', head'[f], op'[f]) /\ H = Parts(Table', head'[f], op'[f])
  BY <1>3, <1>11, <1>12, <1>13
<1>20. TypeOK /\ FilesInv
  BY <1>1, Owned
<1> HIDE DEF X
<1>21. QED
  BY <1>1, <1>4, <1>5, <1>13, <1>14, <1>15, <1>16, <1>17, <1>18, <1>19, <1>20, FileStep

LEMMA TruncateReturnOpen ==
  ASSUME Inv, NEW f \in Files, TruncateReturn(f)
  PROVE  OpenInv'
<1>1. /\ phase = "mounted" /\ f \in Sound /\ op[f].pc = "free" /\ op[f].next = EOF
      /\ UNCHANGED <<fat, inUse, phase, broken>>
  BY InProgress DEF TruncateReturn, Volume
<1>2. PICK T, h, q : T = Table /\ h = head[f] /\ q = op[f]
  OBVIOUS
<1>3. PICK P \in SUBSET Clusters : ListInv(P) /\ Held(f) \intersect P = {}
  BY <1>1, Owned
<1>4. Cutting(q) /\ InHand(q) = {} /\ CutOff(T, q) = {}
  BY <1>1, <1>2, ReachedNone, Constants DEF Cutting, InHand, CutOff
<1>5. Fits(T, h, q) /\ Held(f) = Kept(T, h, q)
  BY <1>1, <1>2, <1>4, Owned DEF FileOK, Held, Parts
<1>6. op'[f] = Idle /\ \A g \in Files \ {f} : op'[g] = op[g] /\ head'[g] = head[g]
  BY DEF TruncateReturn, TypeOK, Inv
<1>7. op'[f].pc = "idle"
  BY <1>6 DEF Idle
<1>8. Table' = T /\ fat'[1] = fat'[2]
  BY <1>1, <1>2, Owned DEF Table
<1>9. PICK n : n = head'[f]
  OBVIOUS
<1>10. Whole(T, n) /\ Reached(T, n) = Held(f)
  <2>1. CASE q.prev = NONE
    <3>1. n = EOF
      BY <1>2, <1>9, <2>1 DEF TruncateReturn, TypeOK, Inv
    <3>2. NoneKept(q)
      BY <1>4, <2>1 DEF NoneKept
    <3>3. Reached(T, n) = {} /\ Whole(T, n)
      BY <3>1, Constants, ReachedNone, WholeEnd
    <3>4. QED
      BY <1>5, <3>2, <3>3 DEF Kept
  <2>2. CASE q.prev # NONE
    <3>1. n = h
      BY <1>2, <1>9, <2>2 DEF TruncateReturn
    <3>2. ~NoneKept(q)
      BY <2>2 DEF NoneKept
    <3>3. QED
      BY <1>5, <3>1, <3>2 DEF Kept, Fits
  <2>3. QED
    BY <2>1, <2>2
<1>11. Fits(Table', head'[f], op'[f]) /\ Parts(Table', head'[f], op'[f]) = Held(f)
  BY <1>7, <1>8, <1>9, <1>10, AtRest
<1>12. inUse' = (inUse \ Held(f)) \union Held(f)
  BY <1>1, Owned
<1> DEFINE X == {}
<1>13. X \in SUBSET Clusters /\ X \intersect P = {} /\ \A g \in Sound \ {f} : X \intersect Held(g) = {}
  OBVIOUS
<1>14. \A x \in Clusters \ X : Table'[x] = Table[x]
  BY <1>2, <1>8
<1>15. (Held(f) \union X) \ Held(f) = {}
  OBVIOUS
<1>16. TypeOK /\ FilesInv
  BY <1>1, Owned
<1> HIDE DEF X
<1>17. QED
  BY <1>1, <1>3, <1>6, <1>8, <1>11, <1>12, <1>13, <1>14, <1>15, <1>16, FileStep

-----------------------------------------------------------------------------
(* Steps of the volume *)

LEMMA CacheSame ==
  ASSUME UNCHANGED <<fat, head, inUse, op, broken>>
  PROVE  /\ FilesInv' <=> FilesInv
         /\ AllHeld' = AllHeld /\ Assigned' = Assigned /\ Table' = Table /\ Sound' = Sound
         /\ \A P, S : Carried(P, S)' <=> Carried(P, S)
<1>1. Table' = Table /\ Sound' = Sound
  BY DEF Table, Sound
<1>2. \A f : Held(f)' = Held(f) /\ (FileOK(f)' <=> FileOK(f)) /\ Chain(f)' = Chain(f)
  BY <1>1 DEF Held, FileOK, Chain
<1>3. FilesInv' <=> FilesInv
  BY <1>1, <1>2 DEF FilesInv
<1>4. AllHeld' = AllHeld /\ Assigned' = Assigned
  BY <1>1, <1>2 DEF AllHeld, Assigned
<1>5. \A P, S : Carried(P, S)' <=> Carried(P, S)
  BY <1>1 DEF Carried
<1>6. QED
  BY <1>1, <1>3, <1>4, <1>5

\* What is on the disk and in the repair is not part of it.
LEMMA OpenSame ==
  ASSUME OpenInv, UNCHANGED <<fat, head, inUse, op, broken, phase>>
  PROVE  OpenInv'
<1>1. \A P : ListInv(P)' <=> ListInv(P)
  BY CacheSame DEF ListInv
<1>2. QED
  BY <1>1, CacheSame DEF OpenInv, Open

LEMMA VerifyOpen ==
  ASSUME Inv, VerifyChains
  PROVE  OpenInv'
<1>1. CASE Overlap
  BY <1>1 DEF VerifyChains, OpenInv, Open
<1>2. CASE ~Overlap
  <2>1. /\ phase = "verify" /\ fat' = disk /\ head' = diskHead /\ op' = op /\ phase' = "adjust"
        /\ inUse' = {c \in Clusters : disk[1][c].link # FREE}
        /\ broken' = {f \in Files : ~Whole(disk[1], diskHead[f])}
    BY <1>2 DEF VerifyChains
  <2>2. disk[1] = disk[2] /\ \A f \in Files : op[f].pc = "idle"
    BY <2>1 DEF Inv, CallInv
  <2>3. \A f \in Files : op'[f].pc = "idle"
    BY <2>1, <2>2
  <2>4. PICK T \in Tables : T = disk[1]
    BY Types DEF Inv
  <2>5. PICK r : r = [f \in Files |-> Reached(T, diskHead[f])]
    OBVIOUS
  <2>6. PICK k : k = [f \in Files |-> ChainOf(T, diskHead[f])]
    OBVIOUS
  <2>7. Table' = T /\ fat'[1] = fat'[2] /\ \A c \in inUse' : T[c].link # FREE
    BY <2>1, <2>2, <2>4 DEF Table
  <2>8. \A f \in Files : Held(f)' = r[f] /\ Chain(f)' = k[f]
    BY <2>1, <2>3, <2>5, <2>6, <2>7, AtRest DEF Held, Chain
  <2>9. /\ Sound' \subseteq Files
        /\ \A f \in Sound' : k[f] = r[f] /\ FileOK(f)'
    <3>1. \A f \in Sound' : f \in Files /\ Whole(T, diskHead[f])
      BY <2>1, <2>4 DEF Sound
    <3>2. \A f \in Sound' : ChainOf(T, diskHead[f]) = Reached(T, diskHead[f])
      BY <3>1, WholeChain
    <3>3. \A f \in Sound' : FileOK(f)'
      BY <2>1, <2>3, <2>7, <3>1, AtRest DEF FileOK
    <3>4. QED
      BY <2>5, <2>6, <3>1, <3>2, <3>3
  <2>10. \A f, g \in Files : f # g => k[f] \intersect k[g] = {}
    BY <1>2, <2>4, <2>6 DEF Overlap
  <2>11. \A f \in Files : k[f] \subseteq inUse' /\ k[f] = {c \in r[f] : T[c].link # FREE}
    <3>1. \A f \in Files : k[f] = {c \in r[f] : T[c].link # FREE}
      BY <2>5, <2>6 DEF ChainOf
    <3>2. \A f \in Files : r[f] \subseteq Clusters
      BY <2>5, ReachedStep
    <3>3. QED
      BY <2>1, <2>4, <3>1, <3>2
  <2>12. FilesInv'
    BY <2>8, <2>9, <2>10 DEF FilesInv
  <2>0. PICK P, A : P = UNION {k[f] : f \in broken'} /\ A = UNION {k[f] : f \in Sound'}
    OBVIOUS
  <2>13. AllHeld' = A /\ Assigned' = P \union A
    <3>1. Files = broken' \union Sound' /\ broken' \intersect Sound' = {}
      BY <2>1 DEF Sound
    <3>2. AllHeld' = A
      BY <2>0, <2>8, <2>9 DEF AllHeld
    <3>3. Assigned' = UNION {k[f] : f \in Files}
      BY <2>8 DEF Assigned
    <3>4. QED
      BY <2>0, <3>1, <3>2, <3>3
  <2>14. P \subseteq inUse' /\ A \subseteq inUse' \ P
    <3>1. \A f \in broken', g \in Sound' : f # g /\ f \in Files /\ g \in Files
      BY <2>1 DEF Sound
    <3>2. \A f \in broken' : f \in Files
      BY <2>1
    <3>3. A \intersect P = {}
      BY <2>0, <2>10, <3>1
    <3>4. QED
      BY <2>0, <2>9, <2>11, <3>2, <3>3
  <2>15. \A S \in SUBSET P : Carried(P, S)' => S = P
    <3>1. SUFFICES ASSUME NEW S \in SUBSET P, Carried(P, S)', NEW c \in P PROVE c \in S
      OBVIOUS
    <3>2. PICK f \in broken' : c \in k[f]
      BY <2>0
    <3> DEFINE Q == {x \in r[f] : x \in S \/ x \notin P}
    <3>3. f \in Files /\ k[f] \subseteq P /\ r[f] = Reached(T, diskHead[f])
      BY <2>0, <2>1, <2>5
    <3>4. /\ diskHead[f] \in P => diskHead[f] \in S
          /\ \A x \in S : T[x].link \in P => T[x].link \in S
      BY <2>1, <2>7, <3>1, <3>2 DEF Carried
    <3>5. Q \in SUBSET Clusters /\ (diskHead[f] \in Clusters => diskHead[f] \in Q)
      BY <3>3, <3>4, ReachedStep
    <3>6. \A x \in Q : T[x].link \in Clusters => T[x].link \in Q
      <4>1. SUFFICES ASSUME NEW x \in Q, T[x].link \in Clusters PROVE T[x].link \in Q
        OBVIOUS
      <4>2. T[x].link \in r[f]
        BY <3>3, <4>1, ReachedStep
      <4>3. x \in k[f]
        BY <2>11, <3>3, <4>1, Constants
      <4>4. x \in S
        BY <3>3, <4>3
      <4>5. QED
        BY <3>4, <4>2, <4>4
    <3> HIDE DEF Q
    <3>7. r[f] \subseteq Q
      BY <3>3, <3>5, <3>6, ReachedLeast
    <3>8. QED
      BY <2>11, <3>1, <3>2, <3>3, <3>7 DEF Q
  <2>16. \A c \in P : T[c].link # FREE
    BY <2>7, <2>14
  <2>17. \A c \in Clusters \ inUse' : T[c].link = FREE
    BY <2>1, <2>4
  <2>18. ListInv(P)' /\ P \in SUBSET Clusters
    <3>1. phase' # "mounted" /\ P \subseteq Clusters
      BY <2>1, <2>14
    <3>2. QED
      BY <2>7, <2>13, <2>14, <2>15, <2>16, <2>17, <3>1 DEF ListInv
  <2>19. QED
    BY <2>7, <2>12, <2>18 DEF OpenInv
<1>3. QED
  BY <1>1, <1>2

\* Clusters that no chain has are not reached from any file either.
LEMMA AdjustApart ==
  ASSUME Inv, NEW c \in Clusters, AdjustCluster(c), NEW f \in Files
  PROVE  c \notin Reached(Table, head[f])
<1>1. phase = "adjust" /\ c \in inUse /\ c \notin Chain(f)
  BY DEF AdjustCluster, Assigned
<1>2. Table[c].link # FREE
  BY <1>1 DEF Inv, OpenInv, Open, ListInv
<1>3. QED
  BY <1>1, <1>2 DEF Chain, ChainOf

LEMMA AdjustOpen ==
  ASSUME Inv, NEW c \in Clusters, AdjustCluster(c)
  PROVE  OpenInv'
<1>1. /\ phase = "adjust" /\ c \in inUse /\ c \notin Assigned /\ inUse' = inUse \ {c}
      /\ fat' = WriteFATEntry(c, FreeEntry) /\ UNCHANGED <<head, op, phase, broken>>
  BY DEF AdjustCluster, Volume
<1>2. TypeOK /\ fat[1] = fat[2] /\ FilesInv /\ inUse \subseteq Clusters
  BY <1>1 DEF Inv, OpenInv, Open, TypeOK
<1>3. PICK P \in SUBSET Clusters : ListInv(P)
  BY <1>1 DEF Inv, OpenInv, Open
<1>4. PICK T \in Tables : T = Table
  BY <1>2, Types
<1>5. Table' = [T EXCEPT ![c] = FreeEntry] /\ fat'[1] = fat'[2]
  <2>1. FreeEntry \in Entry
    BY Constants DEF FreeEntry, Entry
  <2>2. \A k \in Copies : fat'[k] = [fat[k] EXCEPT ![c] = FreeEntry]
    BY <1>1, <1>2, <2>1, EntryWritten
  <2>3. QED
    BY <1>2, <1>4, <2>2 DEF Table, Copies
<1>6. PICK U : U = Table'
  OBVIOUS
<1>7. U[c].link = FREE /\ \A x \in Clusters \ {c} : U[x] = T[x]
  BY <1>4, <1>5, <1>6 DEF Tables, FreeEntry
<1>8. c \notin P /\ c \notin AllHeld /\ Assigned = P \union AllHeld
  BY <1>1, <1>3 DEF ListInv
<1>9. Sound' = Sound /\ Sound \subseteq Files
  BY <1>1 DEF Sound
<1>10. \A f \in Files : Chain(f)' = Chain(f)
  <2>1. SUFFICES ASSUME NEW f \in Files PROVE Chain(f)' = Chain(f)
    OBVIOUS
  <2>2. PICK h : h = head[f]
    OBVIOUS
  <2>3. h = head'[f] /\ c \notin Reached(T, h)
    BY <1>1, <1>4, <2>2, AdjustApart
  <2>4. \A x \in Reached(T, h) : U[x] = T[x]
    BY <1>7, <2>3, ReachedStep
  <2>5. Reached(U, h) = Reached(T, h)
    BY <2>4, SameChain
  <2>6. ChainOf(U, h) = ChainOf(T, h)
    BY <2>4, <2>5 DEF ChainOf
  <2>7. QED
    BY <1>4, <1>6, <2>2, <2>3, <2>6 DEF Chain
<1>11. ASSUME NEW f \in Sound PROVE Held(f)' = Held(f) /\ FileOK(f)'
  <2>1. PICK h, o : h = head[f] /\ o = op[f]
    OBVIOUS
  <2>2. Held(f) \subseteq Clusters \ {c} /\ FileOK(f)
    BY <1>2, <1>3, <1>8 DEF AllHeld, FilesInv, ListInv
  <2>3. \A x \in Parts(T, h, o) : U[x] = T[x]
    BY <1>4, <1>7, <2>1, <2>2 DEF Held
  <2>4. Parts(U, h, o) = Parts(T, h, o) /\ Fits(U, h, o)
    BY <1>4, <2>1, <2>2, <2>3, PartsStay DEF FileOK
  <2>5. h = head'[f] /\ o = op'[f]
    BY <1>1, <2>1
  <2>6. QED
    BY <1>4, <1>6, <2>1, <2>4, <2>5 DEF Held, FileOK
<1>12. FilesInv'
  BY <1>2, <1>9, <1>11 DEF FilesInv
<1>13. AllHeld' = AllHeld
  BY <1>9, <1>11 DEF AllHeld
<1>14. Assigned' = Assigned
  BY <1>10 DEF Assigned
<1>15. \A x \in P : U[x] = T[x]
  BY <1>7, <1>8
<1>16. \A S \in SUBSET P : Carried(P, S)' => S = P
  <2>1. SUFFICES ASSUME NEW S \in SUBSET P, Carried(P, S)' PROVE S = P
    OBVIOUS
  <2>2. Carried(P, S)
    BY <1>1, <1>4, <1>6, <1>15, <2>1 DEF Carried
  <2>3. QED
    BY <1>3, <2>2 DEF ListInv
<1>17. ListInv(P)'
  <2>1. P \subseteq inUse' /\ AllHeld \subseteq inUse' \ P
    BY <1>1, <1>3, <1>8 DEF ListInv
  <2>2. \A x \in P : U[x].link # FREE
    BY <1>3, <1>4, <1>15 DEF ListInv
  <2>3. \A x \in Clusters \ inUse' : U[x].link = FREE
    BY <1>1, <1>3, <1>4, <1>7 DEF ListInv
  <2>4. \A x \in inUse' : U[x].link # FREE
    BY <1>1, <1>2, <1>3, <1>4, <1>7 DEF ListInv
  <2>5. QED
    BY <1>1, <1>6, <1>8, <1>13, <1>14, <1>16, <2>1, <2>2, <2>3, <2>4 DEF ListInv
<1>18. QED
  BY <1>5, <1>12, <1>17 DEF OpenInv

LEMMA MountDoneOpen ==
  ASSUME Inv, MountDone
  PROVE  OpenInv'
<1>1. phase = "adjust" /\ phase' = "mounted" /\ inUse \subseteq Assigned
      /\ UNCHANGED <<fat, head, inUse, op, broken>>
  BY DEF MountDone, Cached
<1>2. fat[1] = fat[2] /\ FilesInv
  BY <1>1 DEF Inv, OpenInv, Open
<1>3. PICK P \in SUBSET Clusters : ListInv(P)
  BY <1>1 DEF Inv, OpenInv, Open
<1>4. inUse = P \union AllHeld
  BY <1>1, <1>3 DEF ListInv
<1>5. ListInv(P)'
  BY <1>1, <1>3, <1>4, CacheSame DEF ListInv
<1>6. QED
  BY <1>1, <1>2, <1>5, CacheSame DEF OpenInv

\* A step of a call on f, seen from the volume.
CallStep(f) ==
  \/ \E i \in 0 .. MaxIndex, c \in Clusters : AllocateCluster(f, i, c)
  \/ EnterCluster(f)
  \/ LinkCluster(f)
  \/ \E i \in 0 .. MaxIndex : Truncate(f, i)
  \/ FreeEntryOf(f)
  \/ SetFreeClusterValue(f)
  \/ TruncateReturn(f)

LEMMA CallStepIs ==
  ASSUME Inv, NEW f \in Files, CallStep(f)
  PROVE  /\ phase = "mounted" /\ f \in Sound /\ UNCHANGED Volume
         /\ \A g \in Files \ {f} : op'[g] = op[g] /\ head'[g] = head[g]
         /\ saved' = saved \/ saved' = [saved EXCEPT ![f] = {}]
         /\ op[f].pc = "idle" => saved' = [saved EXCEPT ![f] = {}]
<1> USE DEF Volume, Inv, TypeOK
<1>1. CASE \E i \in 0 .. MaxIndex, c \in Clusters : AllocateCluster(f, i, c)
  BY <1>1 DEF AllocateCluster, StartCall, Sound
<1>2. CASE EnterCluster(f)
  BY <1>2, InProgress DEF EnterCluster
<1>3. CASE LinkCluster(f)
  <2>1. op' = [op EXCEPT ![f] = Idle] /\ (head' = head \/ head' = [head EXCEPT ![f] = op[f].cluster])
    BY <1>3 DEF LinkCluster
  <2>2. QED
    BY <1>3, <2>1, InProgress DEF LinkCluster
<1>4. CASE \E i \in 0 .. MaxIndex : Truncate(f, i)
  BY <1>4 DEF Truncate, StartCall, Sound
<1>5. CASE FreeEntryOf(f)
  BY <1>5, InProgress DEF FreeEntryOf
<1>6. CASE SetFreeClusterValue(f)
  BY <1>6, InProgress DEF SetFreeClusterValue
<1>7. CASE TruncateReturn(f)
  <2>1. op' = [op EXCEPT ![f] = Idle] /\ (head' = head \/ head' = [head EXCEPT ![f] = EOF])
    BY <1>7 DEF TruncateReturn
  <2>2. QED
    BY <1>7, <2>1, InProgress DEF TruncateReturn
<1>8. QED
  BY <1>1, <1>2, <1>3, <1>4, <1>5, <1>6, <1>7 DEF CallStep

LEMMA CallStepOpen ==
  ASSUME Inv, NEW f \in Files, CallStep(f)
  PROVE  OpenInv'
<1>1. ASSUME NEW i \in 0 .. MaxIndex, NEW c \in Clusters, AllocateCluster(f, i, c) PROVE OpenInv'
  BY <1>1, AllocateOpen
<1>2. ASSUME NEW i \in 0 .. MaxIndex, Truncate(f, i) PROVE OpenInv'
  BY <1>2, TruncateOpen
<1>3. QED
  BY <1>1, <1>2, EnterOpen, LinkOpen, FreeEntryOpen, SetFreeOpen, TruncateReturnOpen DEF CallStep

\* The alternatives of a step.
LEMMA Steps ==
  ASSUME Next
  PROVE  \/ \E f \in Files : CallStep(f) \/ FlushRecord(f)
         \/ \E k \in Copies, b \in FatBlocks : FlushBlock(k, b)
         \/ Crash \/ Dismount \/ ReadFATTable \/ RepairWrite \/ RepairDone \/ VerifyChains
         \/ \E c \in Clusters : AdjustCluster(c)
         \/ MountDone
  BY DEF Next, CallStep

LEMMA OpenNext ==
  ASSUME Inv, [Next]_vars
  PROVE  OpenInv'
<1>1. CASE UNCHANGED vars
  BY <1>1, OpenSame DEF vars, Inv
<1>2. CASE \E f \in Files : FlushRecord(f)
  BY <1>2, OpenSame DEF FlushRecord, Inv
<1>3. CASE \E k \in Copies, b \in FatBlocks : FlushBlock(k, b)
  BY <1>3, OpenSame DEF FlushBlock, Inv
<1>4. CASE Crash \/ Dismount \/ ReadFATTable \/ RepairWrite \/ RepairDone
  <2>1. ~Open'
    BY <1>4 DEF Crash, Dismount, ReadFATTable, RepairWrite, RepairDone, Open
  <2>2. QED
    BY <2>1 DEF OpenInv
<1>5. CASE VerifyChains
  BY <1>5, VerifyOpen
<1>6. CASE \E c \in Clusters : AdjustCluster(c)
  BY <1>6, AdjustOpen
<1>7. CASE MountDone
  BY <1>7, MountDoneOpen
<1>8. CASE \E f \in Files : CallStep(f)
  BY <1>8, CallStepOpen
<1>9. QED
  BY <1>1, <1>2, <1>3, <1>4, <1>5, <1>6, <1>7, <1>8, Steps

LEMMA CallNext ==
  ASSUME Inv, [Next]_vars
  PROVE  CallInv'
<1>0. CallInv /\ TypeOK
  BY DEF Inv
<1>1. CASE UNCHANGED vars
  BY <1>0, <1>1 DEF CallInv, vars
<1>2. CASE \E f \in Files : CallStep(f)
  <2>1. PICK f \in Files : CallStep(f)
    BY <1>2
  <2>2. /\ phase' = "mounted" /\ broken' = broken /\ f \notin broken
        /\ \A g \in Files \ {f} : op'[g] = op[g]
    BY <2>1, CallStepIs DEF Volume, Sound
  <2>3. QED
    BY <1>0, <2>2 DEF CallInv, TypeOK
<1>3. CASE (\E f \in Files : FlushRecord(f)) \/ \E k \in Copies, b \in FatBlocks : FlushBlock(k, b)
  BY <1>0, <1>3 DEF CallInv, FlushRecord, FlushBlock
<1>4. CASE Crash
  <2>1. \A f \in Files : op'[f].pc = "idle"
    BY <1>4 DEF Crash, Idle
  <2>2. QED
    BY <1>4, <2>1 DEF Crash, CallInv
<1>5. CASE Dismount
  BY <1>5 DEF Dismount, CallInv
<1>6. CASE ReadFATTable
  <2>1. phase = "down" /\ (phase' = "verify" => disk[1] = disk[2]) /\ UNCHANGED <<disk, op, broken>>
    BY <1>6 DEF ReadFATTable, Cached
  <2>2. QED
    BY <1>0, <2>1 DEF CallInv
<1>7. CASE RepairWrite
  BY <1>0, <1>7 DEF RepairWrite, Cached, CallInv
<1>8. CASE RepairDone
  <2>1. phase = "repair" /\ (phase' = "verify" => disk[1] = disk[2]) /\ UNCHANGED <<disk, op, broken>>
    BY <1>8 DEF RepairDone, Cached
  <2>2. QED
    BY <1>0, <2>1 DEF CallInv
<1>9. CASE VerifyChains
  <2>1. /\ phase = "verify" /\ phase' # "verify" /\ op' = op
        /\ broken' \subseteq Files
    BY <1>9 DEF VerifyChains
  <2>2. QED
    BY <1>0, <2>1 DEF CallInv
<1>10. CASE \E c \in Clusters : AdjustCluster(c)
  BY <1>0, <1>10 DEF AdjustCluster, Volume, CallInv
<1>11. CASE MountDone
  BY <1>0, <1>11 DEF MountDone, Cached, CallInv
<1>12. QED
  BY <1>1, <1>2, <1>3, <1>4, <1>5, <1>6, <1>7, <1>8, <1>9, <1>10, <1>11, Steps

-----------------------------------------------------------------------------
(* Files that were on the disk *)

\* A table that has an image has its chain.
LEMMA ImageChain ==
  ASSUME NEW image, Chained(image), NEW h, NEW T, Has(image, h, T)
  PROVE  /\ Whole(T, h) /\ Reached(T, h) = DOMAIN image.entries
         /\ DOMAIN image.entries \subseteq Clusters
<1>1. PICK U \in Tables :
        /\ Whole(U, image.head) /\ DOMAIN image.entries = Reached(U, image.head)
        /\ \A c \in Reached(U, image.head) : image.entries[c] = U[c]
  BY DEF Chained
<1>2. h = image.head /\ \A c \in Reached(U, h) : T[c] = U[c]
  BY <1>1 DEF Has
<1>3. Reached(T, h) = Reached(U, h) /\ Whole(T, h)
  BY <1>1, <1>2, SameChain
<1>4. QED
  BY <1>1, <1>2, <1>3, ReachedStep

\* The image of a whole chain.
LEMMA ImageOf ==
  ASSUME TypeOK, NEW f \in Files, Whole(Table, head[f]), NEW image \in Image(f)
  PROVE  /\ Chained(image) /\ image.head = head[f] /\ DOMAIN image.entries = Chain(f)
         /\ \A c \in Chain(f) : image.entries[c] = Table[c]
<1>1. image.head = head[f] /\ DOMAIN image.entries = Chain(f)
      /\ \A c \in Chain(f) : image.entries[c] = Table[c]
  BY DEF Image
<1>2. Table \in Tables /\ head[f] \in Clusters \union {EOF}
  BY Types
<1>3. Chain(f) = Reached(Table, head[f])
  BY <1>2, WholeChain DEF Chain
<1>4. Chained(image)
  BY <1>1, <1>2, <1>3 DEF Chained
<1>5. QED
  BY <1>1, <1>4

\* What a step of a call on g leaves alone.
LEMMA OthersUntouched ==
  ASSUME Inv, NEW g \in Files, CallStep(g), NEW f \in Sound \ {g}, NEW c \in Held(f)
  PROVE  \A k \in Copies : fat'[k][c] = fat[k][c]
<1>1. phase = "mounted" /\ g \in Sound
  BY CallStepIs
<1>2. TypeOK /\ c \notin Held(g) /\ c \in Clusters
  BY <1>1, Owned
<1>3. PICK T, h, q : T = Table /\ h = head[g] /\ q = op[g]
  OBVIOUS
<1>4. Fits(T, h, q) /\ Held(g) = Parts(T, h, q)
  BY <1>1, <1>3, Owned DEF FileOK, Held
<1>5. ASSUME fat' = fat PROVE \A k \in Copies : fat'[k][c] = fat[k][c]
  BY <1>5
<1>6. ASSUME NEW d \in Clusters, d \in Held(g), NEW e, fat' = WriteFATEntry(d, e)
      PROVE  \A k \in Copies : fat'[k][c] = fat[k][c]
  BY <1>2, <1>6 DEF WriteFATEntry, TypeOK
<1>7. ASSUME NEW d \in Clusters, d \in Held(g), NEW x, fat' = SetClusterValue(d, x)
      PROVE  \A k \in Copies : fat'[k][c] = fat[k][c]
  BY <1>6, <1>7 DEF SetClusterValue
<1>8. CASE \E i \in 0 .. MaxIndex, d \in Clusters : AllocateCluster(g, i, d)
  BY <1>5, <1>8 DEF AllocateCluster
<1>9. CASE EnterCluster(g)
  <2>1. q.cluster \in InHand(q)
    BY <1>3, <1>9 DEF EnterCluster, InHand
  <2>2. q.cluster \in Held(g) /\ q.cluster \in Clusters
    BY <1>4, <2>1 DEF Fits, Parts
  <2>3. QED
    BY <1>3, <1>6, <1>9, <2>2 DEF EnterCluster
<1>10. CASE LinkCluster(g)
  <2>1. q.prev = NONE \/ (q.prev \in Held(g) /\ q.prev \in Clusters)
    BY <1>3, <1>10, BeforeLink, ReachedStep DEF LinkCluster
  <2>2. CASE q.prev = NONE
    BY <1>3, <1>5, <1>10, <2>2 DEF LinkCluster
  <2>3. CASE q.prev # NONE
    BY <1>3, <1>7, <1>10, <2>1, <2>3 DEF LinkCluster
  <2>4. QED
    BY <2>2, <2>3
<1>11. CASE \E i \in 0 .. MaxIndex : Truncate(g, i)
  <2>1. PICK i \in 0 .. MaxIndex : Truncate(g, i)
    BY <1>11
  <2>2. PICK p : p = PrevOf(g, i)
    OBVIOUS
  <2>3. q.pc = "idle"
    BY <1>3, <2>1 DEF Truncate, StartCall
  <2>4. Whole(T, h) /\ Held(g) = Reached(T, h)
    BY <1>4, <2>3, AtRest
  <2>5. p = NONE \/ (p \in Held(g) /\ p \in Clusters)
    BY <1>2, <1>3, <2>2, <2>4, Begins, ReachedStep
  <2>6. fat' = IF p = NONE THEN fat ELSE SetClusterValue(p, EOF)
    BY <2>1, <2>2 DEF Truncate
  <2>7. QED
    BY <1>5, <1>7, <2>5, <2>6
<1>12. CASE FreeEntryOf(g)
  <2>1. q.next \in CutOff(T, q) /\ q.next \in Clusters
    BY <1>3, <1>12, ReachedStep DEF FreeEntryOf, CutOff, Cutting
  <2>2. q.next \in Held(g)
    BY <1>4, <2>1 DEF Parts
  <2>3. QED
    BY <1>3, <1>6, <1>12, <2>1, <2>2 DEF FreeEntryOf
<1>13. CASE SetFreeClusterValue(g)
  BY <1>5, <1>13 DEF SetFreeClusterValue
<1>14. CASE TruncateReturn(g)
  BY <1>5, <1>14 DEF TruncateReturn
<1>15. QED
  BY <1>8, <1>9, <1>10, <1>11, <1>12, <1>13, <1>14 DEF CallStep

LEMMA CallStepSaved ==
  ASSUME Inv, NEW g \in Files, CallStep(g)
  PROVE  SavedInv'
<1>1. /\ phase = "mounted" /\ phase' = "mounted" /\ zeroed' = zeroed /\ Sound' = Sound
      /\ \A f \in Files \ {g} : op'[f] = op[f] /\ head'[f] = head[f]
      /\ saved' = saved \/ saved' = [saved EXCEPT ![g] = {}]
      /\ op[g].pc = "idle" => saved' = [saved EXCEPT ![g] = {}]
  BY CallStepIs DEF Volume, Sound
<1>2. DOMAIN saved = Files /\ \A f \in Files : \A image \in saved[f] : ImageOK(f, image)
  BY DEF Inv, SavedInv
<1>3. DOMAIN saved' = Files
  BY <1>1, <1>2
<1>4. ASSUME NEW f \in Files, NEW image \in saved'[f] PROVE ImageOK(f, image)'
  <2>1. image \in saved[f] /\ (op[g].pc = "idle" => f # g)
    BY <1>1, <1>2, <1>4
  <2>2. ImageOK(f, image)
    BY <1>2, <2>1
  <2>3. SUFFICES ASSUME \A c \in DOMAIN image.entries : BlockOf(c) \notin zeroed
                 PROVE  /\ f \in Sound /\ op'[f].pc = "idle"
                        /\ \A k \in Copies : Has(image, head'[f], fat'[k])
    BY <1>1, <2>2 DEF ImageOK, Open
  <2>4. /\ Chained(image) /\ f \in Sound /\ op[f].pc = "idle"
        /\ \A k \in Copies : Has(image, head[f], fat[k])
    BY <1>1, <2>2, <2>3 DEF ImageOK, Open
  <2>5. f # g
    BY <2>1, <2>4
  <2>6. op'[f] = op[f] /\ head'[f] = head[f]
    BY <1>1, <2>5
  <2>7. DOMAIN image.entries = Held(f)
    <3>1. Has(image, head[f], Table)
      BY <2>4 DEF Table, Copies
    <3>2. QED
      BY <2>4, <3>1, ImageChain, AtRest DEF Held
  <2>8. \A k \in Copies, c \in DOMAIN image.entries : fat'[k][c] = fat[k][c]
    BY <2>4, <2>5, <2>7, OthersUntouched
  <2>9. \A k \in Copies : Has(image, head'[f], fat'[k])
    BY <2>4, <2>6, <2>8 DEF Has
  <2>10. QED
    BY <2>4, <2>6, <2>9
<1>5. QED
  BY <1>3, <1>4 DEF SavedInv

LEMMA FlushSaved ==
  ASSUME Inv, (\E f \in Files : FlushRecord(f)) \/ (\E k \in Copies, b \in FatBlocks : FlushBlock(k, b))
  PROVE  SavedInv'
<1>1. /\ Open /\ UNCHANGED <<fat, head, op, phase, saved, zeroed, broken>>
      /\ \A f \in Files : diskHead'[f] \in {diskHead[f], head[f]}
      /\ \A k \in Copies, c \in Clusters : disk'[k][c] \in {disk[k][c], fat[k][c]}
  <2>1. CASE \E f \in Files : FlushRecord(f)
    BY <2>1 DEF FlushRecord, Open, Inv, TypeOK
  <2>2. CASE \E k \in Copies, b \in FatBlocks : FlushBlock(k, b)
    <3>1. PICK k \in Copies, b \in FatBlocks : FlushBlock(k, b)
      BY <2>2
    <3>2. PICK new : new = [c \in Clusters |-> IF BlockOf(c) = b THEN fat[k][c] ELSE disk[k][c]]
      OBVIOUS
    <3>3. disk' = [disk EXCEPT ![k] = new]
      BY <3>1, <3>2 DEF FlushBlock
    <3>4. \A j \in Copies : disk'[j] = IF j = k THEN new ELSE disk[j]
      BY <3>3 DEF Inv, TypeOK
    <3>5. \A c \in Clusters : new[c] \in {disk[k][c], fat[k][c]}
      BY <3>2
    <3>6. \A j \in Copies, c \in Clusters : disk'[j][c] \in {disk[j][c], fat[j][c]}
      BY <3>4, <3>5
    <3>7. QED
      BY <3>1, <3>6 DEF FlushBlock, Open
  <2>3. QED
    BY <2>1, <2>2
<1>2. DOMAIN saved' = Files /\ Sound' = Sound
  BY <1>1 DEF Inv, SavedInv, Sound
<1>3. ASSUME NEW f \in Files, NEW image \in saved'[f] PROVE ImageOK(f, image)'
  <2>1. ImageOK(f, image)
    BY <1>1, <1>3 DEF Inv, SavedInv
  <2>2. ASSUME \A c \in DOMAIN image.entries : BlockOf(c) \notin zeroed, phase # "mounted", NEW k \in Copies
        PROVE  Has(image, diskHead'[f], disk'[k])
    <3>1. /\ Chained(image) /\ Has(image, diskHead[f], disk[k]) /\ Has(image, head[f], fat[k])
      BY <1>1, <2>1, <2>2 DEF ImageOK
    <3>2. DOMAIN image.entries \subseteq Clusters
      BY <3>1, ImageChain
    <3>3. QED
      BY <1>1, <3>1, <3>2 DEF Has
  <2>3. phase # "repair"
    BY <1>1 DEF Open
  <2>4. QED
    BY <1>1, <1>2, <2>1, <2>2, <2>3 DEF ImageOK, Open
<1>4. QED
  BY <1>2, <1>3 DEF SavedInv

LEMMA CrashSaved ==
  ASSUME Inv, Crash
  PROVE  SavedInv'
<1>1. phase' = "down" /\ UNCHANGED <<disk, diskHead, zeroed>>
  BY DEF Crash
<1>2. DOMAIN saved' = Files
  BY DEF Crash, Inv, SavedInv
<1>3. ASSUME NEW f \in Files, NEW image \in saved'[f]
      PROVE  /\ Chained(image)
             /\ (\A c \in DOMAIN image.entries : BlockOf(c) \notin zeroed) =>
                  \A k \in Copies : Has(image, diskHead[f], disk[k])
  <2>1. CASE phase # "mounted"
    <3>1. image \in saved[f]
      BY <1>3, <2>1 DEF Crash
    <3>2. QED
      BY <2>1, <3>1 DEF Inv, SavedInv, ImageOK
  <2>2. CASE phase = "mounted"
    <3>1. Synced(f) /\ image \in Image(f)
      BY <1>3, <2>2 DEF Crash
    <3>2. diskHead[f] = head[f] /\ Whole(Table, head[f]) /\ \A k \in Copies, c \in Chain(f) : disk[k][c] = Table[c]
      BY <3>1 DEF Synced
    <3>3. /\ Chained(image) /\ image.head = head[f] /\ DOMAIN image.entries = Chain(f)
          /\ \A c \in Chain(f) : image.entries[c] = Table[c]
      BY <3>1, <3>2, ImageOf DEF Inv
    <3>4. QED
      BY <3>2, <3>3 DEF Has
  <2>3. QED
    BY <2>1, <2>2
<1>4. \A f \in Files : \A image \in saved'[f] : ImageOK(f, image)'
  BY <1>1, <1>3 DEF ImageOK, Open
<1>5. QED
  BY <1>2, <1>4 DEF SavedInv

LEMMA DismountSaved ==
  ASSUME Inv, Dismount
  PROVE  SavedInv'
<1>1. /\ phase = "mounted" /\ phase' = "down" /\ disk' = fat /\ diskHead' = head
      /\ \A f \in Files : op[f].pc = "idle"
      /\ saved' = [f \in Files |-> IF f \in broken THEN {} ELSE Image(f)]
  BY DEF Dismount
<1>2. ASSUME NEW f \in Files, NEW image \in saved'[f]
      PROVE  Chained(image) /\ \A k \in Copies : Has(image, diskHead'[f], disk'[k])
  <2>1. image \in Image(f) /\ f \in Sound
    BY <1>1, <1>2 DEF Sound
  <2>2. TypeOK /\ fat[1] = fat[2] /\ Whole(Table, head[f])
    BY <1>1, <2>1, Owned, AtRest DEF FileOK
  <2>3. /\ Chained(image) /\ image.head = head[f] /\ DOMAIN image.entries = Chain(f)
        /\ \A c \in Chain(f) : image.entries[c] = Table[c]
    BY <2>1, <2>2, ImageOf
  <2>4. \A k \in Copies : fat[k] = Table
    BY <2>2 DEF Table, Copies
  <2>5. QED
    BY <1>1, <2>3, <2>4 DEF Has
<1>3. \A f \in Files : \A image \in saved'[f] : ImageOK(f, image)'
  BY <1>1, <1>2 DEF ImageOK, Open
<1>4. QED
  BY <1>1, <1>3 DEF SavedInv

\* What the repair decides on for a block that a copy has right, if any has.
LEMMA FixHas ==
  ASSUME TypeOK, NEW image, Chained(image), NEW h,
         \A k \in Copies : Has(image, h, disk[k]),
         \A c \in DOMAIN image.entries : BlockOf(c) \notin Cleared
  PROVE  Has(image, h, FatTableFix)
<1>1. DOMAIN image.entries \subseteq Clusters
  BY ImageChain, 1 \in Copies DEF Copies
<1>2. ASSUME NEW c \in DOMAIN image.entries, NEW k \in Copies
      PROVE  Candidate(k)[c] = image.entries[c]
  <2>1. \E j \in Copies : ValidBlock(j, BlockOf(c))
    BY <1>1 DEF Cleared, FatBlocks
  <2>2. k \in {1, 2} /\ 3 - k \in Copies /\ Copies = {k, 3 - k}
    BY DEF Copies
  <2>3. ValidBlock(k, BlockOf(c)) \/ ValidBlock(3 - k, BlockOf(c))
    BY <2>1, <2>2
  <2>4. disk[k][c] = image.entries[c] /\ disk[3 - k][c] = image.entries[c]
    BY <2>2 DEF Has
  <2>5. QED
    BY <1>1, <2>3, <2>4 DEF Candidate
<1>3. \A c \in DOMAIN image.entries : FatTableFix[c] = image.entries[c]
  <2>1. SUFFICES ASSUME NEW c \in DOMAIN image.entries PROVE FatTableFix[c] = image.entries[c]
    OBVIOUS
  <2>2. Candidate(1)[c] = image.entries[c] /\ Candidate(2)[c] = image.entries[c]
    BY <1>2 DEF Copies
  <2>3. FatTableFix[c] \in {Candidate(1)[c], Candidate(2)[c]}
    BY <1>1 DEF FatTableFix
  <2>4. QED
    BY <2>2, <2>3
<1>4. h = image.head
  BY DEF Has, Copies
<1>5. QED
  BY <1>3, <1>4 DEF Has

LEMMA ReadSaved ==
  ASSUME Inv, ReadFATTable
  PROVE  SavedInv'
<1>1. /\ phase = "down" /\ UNCHANGED <<disk, diskHead, saved>>
      /\ \/ phase' = "verify" /\ zeroed' = zeroed
         \/ phase' = "repair" /\ zeroed' = zeroed \union Cleared /\ repaired' = FatTableFix
  BY DEF ReadFATTable, Cached
<1>2. TypeOK /\ DOMAIN saved' = Files
  BY <1>1 DEF Inv, SavedInv
<1>3. ASSUME NEW f \in Files, NEW image \in saved'[f] PROVE ImageOK(f, image)'
  <2>1. /\ Chained(image)
        /\ (\A c \in DOMAIN image.entries : BlockOf(c) \notin zeroed) =>
             \A k \in Copies : Has(image, diskHead[f], disk[k])
    BY <1>1, <1>3 DEF Inv, SavedInv, ImageOK
  <2>2. CASE phase' = "verify"
    BY <1>1, <2>1, <2>2 DEF ImageOK, Open
  <2>3. CASE phase' = "repair"
    <3>1. ASSUME \A c \in DOMAIN image.entries : BlockOf(c) \notin zeroed'
          PROVE  /\ \A k \in Copies : Has(image, diskHead[f], disk[k])
                 /\ Has(image, diskHead[f], repaired')
      BY <1>1, <1>2, <2>1, <2>3, <3>1, FixHas
    <3>2. QED
      BY <1>1, <2>1, <2>3, <3>1 DEF ImageOK, Open
  <2>4. QED
    BY <1>1, <2>2, <2>3
<1>4. QED
  BY <1>2, <1>3 DEF SavedInv

LEMMA RepairWriteSaved ==
  ASSUME Inv, RepairWrite
  PROVE  SavedInv'
<1>1. phase = "repair" /\ UNCHANGED <<diskHead, saved, zeroed, repaired, phase>>
  BY DEF RepairWrite, Cached
<1>2. DOMAIN saved' = Files
  BY <1>1 DEF Inv, SavedInv
<1>3. PICK j, b : j = NextWrite[2] /\ b = NextWrite[1]
  OBVIOUS
<1>4. disk' = [disk EXCEPT ![j] = [c \in Clusters |-> IF BlockOf(c) = b THEN repaired[c] ELSE disk[j][c]]]
  BY <1>3 DEF RepairWrite
<1>5. \A k \in Copies, c \in Clusters : disk'[k][c] \in {disk[k][c], repaired[c]}
  <2>1. PICK new : new = [c \in Clusters |-> IF BlockOf(c) = b THEN repaired[c] ELSE disk[j][c]]
    OBVIOUS
  <2>2. \A k \in Copies : disk'[k] = IF k = j THEN new ELSE disk[k]
    BY <1>4, <2>1 DEF Inv, TypeOK
  <2>3. \A c \in Clusters : new[c] \in {disk[j][c], repaired[c]}
    BY <2>1
  <2>4. QED
    BY <2>2, <2>3
<1>6. ASSUME NEW f \in Files, NEW image \in saved'[f] PROVE ImageOK(f, image)'
  <2>1. ImageOK(f, image)
    BY <1>1, <1>6 DEF Inv, SavedInv
  <2>2. ASSUME \A c \in DOMAIN image.entries : BlockOf(c) \notin zeroed, NEW k \in Copies
        PROVE  Has(image, diskHead[f], disk'[k])
    <3>1. Chained(image) /\ Has(image, diskHead[f], disk[k]) /\ Has(image, diskHead[f], repaired)
      BY <1>1, <2>1, <2>2 DEF ImageOK
    <3>2. DOMAIN image.entries \subseteq Clusters
      BY <3>1, ImageChain
    <3>3. QED
      BY <1>5, <3>1, <3>2 DEF Has
  <2>3. QED
    BY <1>1, <2>1, <2>2 DEF ImageOK, Open
<1>7. QED
  BY <1>2, <1>6 DEF SavedInv

LEMMA RepairDoneSaved ==
  ASSUME Inv, RepairDone
  PROVE  SavedInv'
<1>1. phase = "repair" /\ phase' \in {"verify", "failed"} /\ UNCHANGED <<disk, diskHead, saved, zeroed>>
  BY DEF RepairDone, Cached
<1>2. DOMAIN saved' = Files
  BY <1>1 DEF Inv, SavedInv
<1>3. ASSUME NEW f \in Files, NEW image \in saved'[f] PROVE ImageOK(f, image)'
  <2>1. ImageOK(f, image)
    BY <1>1, <1>3 DEF Inv, SavedInv
  <2>2. QED
    BY <1>1, <2>1 DEF ImageOK, Open
<1>4. QED
  BY <1>2, <1>3 DEF SavedInv

LEMMA VerifySaved ==
  ASSUME Inv, VerifyChains
  PROVE  SavedInv'
<1>1. /\ phase = "verify" /\ phase' \in {"failed", "adjust"} /\ UNCHANGED <<disk, diskHead, op, saved, zeroed>>
      /\ fat' = disk /\ head' = diskHead
      /\ broken' = {f \in Files : ~Whole(disk[1], diskHead[f])}
  BY DEF VerifyChains
<1>2. DOMAIN saved' = Files /\ \A f \in Files : op[f].pc = "idle"
  BY <1>1 DEF Inv, SavedInv, CallInv
<1>3. ASSUME NEW f \in Files, NEW image \in saved'[f] PROVE ImageOK(f, image)'
  <2>1. ImageOK(f, image)
    BY <1>1, <1>3 DEF Inv, SavedInv
  <2>2. ASSUME \A c \in DOMAIN image.entries : BlockOf(c) \notin zeroed
        PROVE  f \in Sound' /\ \A k \in Copies : Has(image, diskHead[f], disk[k])
    <3>1. Chained(image) /\ \A k \in Copies : Has(image, diskHead[f], disk[k])
      BY <1>1, <2>1, <2>2 DEF ImageOK
    <3>2. Whole(disk[1], diskHead[f])
      BY <3>1, ImageChain DEF Copies
    <3>3. QED
      BY <1>1, <3>1, <3>2 DEF Sound
  <2>3. QED
    BY <1>1, <1>2, <2>1, <2>2 DEF ImageOK, Open
<1>4. QED
  BY <1>2, <1>3 DEF SavedInv

LEMMA AdjustSaved ==
  ASSUME Inv, NEW c \in Clusters, AdjustCluster(c)
  PROVE  SavedInv'
<1>1. /\ phase = "adjust" /\ UNCHANGED <<disk, diskHead, head, op, phase, saved, zeroed, broken>>
      /\ fat' = WriteFATEntry(c, FreeEntry)
  BY DEF AdjustCluster, Volume
<1>2. DOMAIN saved' = Files /\ Sound' = Sound /\ TypeOK
  BY <1>1 DEF Inv, SavedInv, Sound
<1>3. \A k \in Copies, x \in Clusters \ {c} : fat'[k][x] = fat[k][x]
  BY <1>1, <1>2 DEF WriteFATEntry, TypeOK
<1>4. ASSUME NEW f \in Files, NEW image \in saved'[f] PROVE ImageOK(f, image)'
  <2>1. ImageOK(f, image)
    BY <1>1, <1>4 DEF Inv, SavedInv
  <2>2. ASSUME \A x \in DOMAIN image.entries : BlockOf(x) \notin zeroed, NEW k \in Copies
        PROVE  Has(image, head[f], fat'[k])
    <3>1. Chained(image) /\ Has(image, head[f], fat[k]) /\ Has(image, head[f], Table)
      BY <1>1, <2>1, <2>2 DEF ImageOK, Open, Table, Copies
    <3>2. c \notin DOMAIN image.entries /\ DOMAIN image.entries \subseteq Clusters
      BY <3>1, ImageChain, AdjustApart
    <3>3. QED
      BY <1>3, <3>1, <3>2 DEF Has
  <2>3. QED
    BY <1>1, <1>2, <2>1, <2>2 DEF ImageOK, Open
<1>5. QED
  BY <1>2, <1>4 DEF SavedInv

LEMMA SavedNext ==
  ASSUME Inv, [Next]_vars
  PROVE  SavedInv'
<1>1. CASE UNCHANGED vars
  <2>1. \A f, image : ImageOK(f, image)' <=> ImageOK(f, image)
    BY <1>1 DEF vars, ImageOK, Open, Sound
  <2>2. QED
    BY <1>1, <2>1 DEF vars, Inv, SavedInv
<1>2. CASE MountDone
  <2>1. /\ phase = "adjust" /\ phase' = "mounted"
        /\ UNCHANGED <<fat, head, op, saved, broken, disk, diskHead, zeroed, repaired>>
    BY <1>2 DEF MountDone, Cached
  <2>2. \A f, image : ImageOK(f, image) => ImageOK(f, image)'
    BY <2>1 DEF ImageOK, Open, Sound
  <2>3. QED
    BY <2>1, <2>2 DEF Inv, SavedInv
<1>3. QED
  BY <1>1, <1>2, Steps, CallStepSaved, FlushSaved, CrashSaved, DismountSaved, ReadSaved,
     RepairWriteSaved, RepairDoneSaved, VerifySaved, AdjustSaved

-----------------------------------------------------------------------------
(* The invariant and what follows from it *)

LEMMA InitTypes ==
  ASSUME Init
  PROVE  TypeOK
<1>1. FreeEntry \in Entry
  BY Constants DEF FreeEntry, Entry
<1>2. NoTable \in [Clusters -> Entry]
  BY <1>1 DEF NoTable
<1>3. Idle \in OpRecords
  BY Constants DEF Idle, OpRecords
<1>4. op \in [Files -> OpRecords]
  BY <1>3 DEF Init
<1>5. QED
  BY <1>2, <1>4, Constants DEF Init, TypeOK, OpRecords

LEMMA InitInv ==
  ASSUME Init
  PROVE  Inv
<1>1. TypeOK
  BY InitTypes
<1>2. /\ fat[1] = NoTable /\ fat[2] = NoTable /\ Table = NoTable /\ Sound = Files
      /\ inUse = {} /\ phase = "mounted" /\ broken = {}
      /\ \A f \in Files : head[f] = EOF /\ op[f] = Idle /\ op[f].pc = "idle"
  BY DEF Init, Table, Sound, Copies, Idle
<1>3. \A f \in Files : Held(f) = {} /\ FileOK(f)
  <2>1. \A T : Reached(T, EOF) = {} /\ Whole(T, EOF)
    BY Constants, ReachedNone, WholeEnd
  <2>2. QED
    BY <1>2, <2>1, AtRest DEF Held, FileOK
<1>4. FilesInv /\ AllHeld = {}
  BY <1>2, <1>3 DEF FilesInv, AllHeld
<1>5. \A c \in Clusters : Table[c].link = FREE
  BY <1>2 DEF NoTable, FreeEntry
<1>6. ListInv({})
  BY <1>2, <1>4, <1>5 DEF ListInv
<1>7. OpenInv
  BY <1>2, <1>4, <1>6 DEF OpenInv
<1>8. CallInv
  BY <1>2 DEF CallInv
<1>9. SavedInv
  BY DEF Init, SavedInv
<1>10. QED
  BY <1>1, <1>7, <1>8, <1>9 DEF Inv

LEMMA TypeNext ==
  ASSUME Inv, [Next]_vars
  PROVE  TypeOK'
<1>1. CASE UNCHANGED vars
  BY <1>1 DEF vars, TypeOK, Inv
<1>2. CASE \E f \in Files : CallStep(f)
  BY <1>2, CallTypes DEF CallStep
<1>3. CASE /\ ~\E f \in Files : CallStep(f)
           /\ Next
  BY <1>3, Steps, VolumeTypes DEF Inv
<1>4. QED
  BY <1>1, <1>2, <1>3

\* The inductive invariant: types, what calls may be in progress in which phase
\* (CallInv), whose each cluster of an open volume is (OpenInv), and where the files
\* that were on the disk are until the volume is mounted again (SavedInv).
THEOREM Invariance == Spec => []Inv
<1>1. Init => Inv
  BY InitInv
<1>2. Inv /\ [Next]_vars => Inv'
  <2>1. SUFFICES ASSUME Inv, [Next]_vars PROVE Inv'
    OBVIOUS
  <2>2. TypeOK'
    BY <2>1, TypeNext
  <2>3. QED
    BY <2>1, <2>2, OpenNext, CallNext, SavedNext DEF Inv
<1>3. QED
  BY <1>1, <1>2, PTL DEF Spec

\* The copies of the table, the list of free clusters and the calls in progress stay
\* in their types (WriteFATEntry, AllocateCluster, TruncateClusterChain, the mount).
THEOREM TypeCorrect == Spec => []TypeOK
<1>1. Inv => TypeOK
  BY DEF Inv
<1>2. QED
  BY <1>1, Invariance, PTL

\* The clusters of a file at rest.
LEMMA ChainAtRest ==
  ASSUME Inv, phase = "mounted", NEW f \in Sound, op[f].pc = "idle"
  PROVE  Whole(Table, head[f]) /\ Chain(f) = Reached(Table, head[f]) /\ Chain(f) = Held(f)
<1>1. Table \in Tables /\ FileOK(f)
  BY Owned, Types
<1>2. Whole(Table, head[f]) /\ Held(f) = Reached(Table, head[f])
  BY <1>1, AtRest DEF FileOK, Held
<1>3. QED
  BY <1>1, <1>2, WholeChain DEF Chain

\* Between calls the list of free clusters, both copies of the table and the chains
\* of the files agree, whatever the number of files and clusters, and whatever a
\* crash and its repair left (FreeCluster, AllocateCluster, AdjustAllocatedClusters).
THEOREM AllocationStaysExact == Spec => []AllocationExact
<1>1. ASSUME Inv, phase = "mounted", \A f \in Files : op[f].pc = "idle"
      PROVE  inUse = Assigned /\ \A k \in Copies : inUse = {c \in Clusters : fat[k][c].link # FREE}
  <2>1. PICK P \in SUBSET Clusters : ListInv(P)
    BY <1>1 DEF Inv, OpenInv, Open
  <2>2. fat[1] = fat[2] /\ inUse \subseteq Clusters
    BY <1>1 DEF Inv, OpenInv, Open, TypeOK
  <2>3. Sound \subseteq Files /\ broken = Files \ Sound
    BY <1>1 DEF Sound, Inv, TypeOK
  <2>4. \A f \in Sound : Chain(f) = Held(f)
    BY <1>1, <2>3, ChainAtRest
  <2>5. \A f \in Files : \A c \in Chain(f) : c \in Clusters /\ Table[c].link # FREE
    BY ReachedStep DEF Chain, ChainOf
  <2>6. inUse = P \union AllHeld
    BY <1>1, <2>1 DEF ListInv
  <2>7. \A c \in Clusters : c \in inUse <=> Table[c].link # FREE
    <3>1. \A c \in P : Table[c].link # FREE
      BY <2>1 DEF ListInv
    <3>2. \A c \in AllHeld : Table[c].link # FREE
      BY <2>3, <2>4, <2>5 DEF AllHeld
    <3>3. \A c \in Clusters \ inUse : Table[c].link = FREE
      BY <2>1 DEF ListInv
    <3>4. QED
      BY <2>6, <3>1, <3>2, <3>3
  <2>8. Assigned \subseteq inUse
    BY <2>5, <2>7 DEF Assigned
  <2>9. AllHeld \subseteq Assigned
    BY <2>3, <2>4 DEF AllHeld, Assigned
  <2>10. P \subseteq Assigned
    <3> DEFINE S == {c \in P : \E f \in broken : c \in Reached(Table, head[f])}
    <3>1. S \subseteq P /\ \A f \in broken : head[f] \in P => head[f] \in S
      BY ReachedStep
    <3>2. \A c \in S : Table[c].link \in P => Table[c].link \in S
      <4>1. SUFFICES ASSUME NEW c \in S, Table[c].link \in P PROVE Table[c].link \in S
        OBVIOUS
      <4>2. PICK f \in broken : c \in Reached(Table, head[f])
        OBVIOUS
      <4>3. Table[c].link \in Reached(Table, head[f])
        BY <4>1, <4>2, ReachedStep
      <4>4. QED
        BY <4>1, <4>2, <4>3
    <3>3. \A c \in S : \E f \in Files : c \in Reached(Table, head[f])
      BY <2>3
    <3> HIDE DEF S
    <3>4. Carried(P, S)
      BY <3>1, <3>2 DEF Carried
    <3>5. S = P
      BY <2>1, <3>1, <3>4 DEF ListInv
    <3>6. \A c \in P : Table[c].link # FREE /\ c \in Clusters
      BY <2>1 DEF ListInv
    <3>7. \A c \in P : \E f \in Files : c \in Chain(f)
      BY <3>3, <3>5, <3>6 DEF Chain, ChainOf
    <3>8. QED
      BY <3>7 DEF Assigned
  <2>11. inUse = Assigned
    BY <2>6, <2>8, <2>9, <2>10
  <2>12. \A k \in Copies : fat[k] = Table
    BY <2>2 DEF Table, Copies
  <2>13. QED
    BY <2>2, <2>7, <2>11, <2>12
<1>2. Inv => AllocationExact
  BY <1>1 DEF AllocationExact
<1>3. QED
  BY <1>2, Invariance, PTL

\* No cluster is in the chains of two files at rest, and these are whole: two calls
\* on different files never take or keep the same cluster (FindFreeCluster,
\* TruncateClusterChain, BuildChainAssignment).
THEOREM ChainsStayApart == Spec => []ChainsApart
<1>1. ASSUME Inv, phase = "mounted", NEW f \in Sound, op[f].pc = "idle"
      PROVE  /\ Whole(Table, head[f])
             /\ \A g \in Sound \ {f} : op[g].pc = "idle" => Chain(f) \intersect Chain(g) = {}
  BY <1>1, ChainAtRest, Owned
<1>2. Inv => ChainsApart
  <2>1. \A f : Files \ (broken \union {f}) = Sound \ {f}
    BY DEF Sound
  <2>2. QED
    BY <1>1, <2>1 DEF ChainsApart, Sound
<1>3. QED
  BY <1>2, Invariance, PTL

\* A file whose chain was on the disk when the volume went down is there, entry by
\* entry, when it is mounted again, after any number of crashes, also in the middle
\* of a repair, unless the repair cleared one of its blocks (nwvp_fat_table_fix).
THEOREM SyncedFilesSurviveCrashes == Spec => []SyncedFilesSurvive
<1>1. ASSUME Inv, phase = "mounted", NEW f \in Files, NEW image \in saved[f],
             \A c \in DOMAIN image.entries : BlockOf(c) \notin zeroed
      PROVE  /\ head[f] = image.head /\ DOMAIN image.entries \subseteq inUse
             /\ \A k \in Copies, c \in DOMAIN image.entries : fat[k][c] = image.entries[c]
  <2>1. ImageOK(f, image)
    BY <1>1 DEF Inv, SavedInv
  <2>2. /\ Chained(image) /\ f \in Sound /\ op[f].pc = "idle"
        /\ \A k \in Copies : Has(image, head[f], fat[k])
    BY <1>1, <2>1 DEF ImageOK, Open
  <2>3. Has(image, head[f], Table)
    BY <2>2 DEF Table, Copies
  <2>4. DOMAIN image.entries = Held(f)
    BY <2>2, <2>3, ImageChain, AtRest DEF Held
  <2>5. Held(f) \subseteq inUse
    BY <1>1, <2>2, Owned
  <2>6. QED
    BY <2>2, <2>3, <2>4, <2>5 DEF Has
<1>2. Inv => SyncedFilesSurvive
  BY <1>1 DEF SyncedFilesSurvive
<1>3. QED
  BY <1>2, Invariance, PTL
=============================================================================

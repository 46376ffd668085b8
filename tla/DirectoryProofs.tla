---------------------------- MODULE DirectoryProofs ----------------------------
(***************************************************************************)
(* Proofs about Directory: the bit lists of the directory file and the     *)
(* owners of its blocks are exact, for any number of tasks, name spaces    *)
(* and blocks.  Inv is the inductive invariant: what calls hold (StructInv)*)
(* decides what they may free, and no two hold the same.  DirectoryMounts  *)
(* goes on from it.                                                        *)
(***************************************************************************)
EXTENDS Directory, SequenceTheorems, FiniteSetTheorems, WellFoundedInduction, TLAPS

-----------------------------------------------------------------------------
(* Constants, numbers and sequences *)

K == NameSpaceCount

LEMMA Constants ==
  /\ K \in Nat /\ K > 0 /\ NameSpaceCount = K
  /\ DirsPerBlock \in Nat /\ DirsPerBlock > 0
  /\ BlocksPerCluster \in Nat /\ BlocksPerCluster > 0
  /\ MaxBlocks \in Nat /\ MaxBlocks > 0
  /\ MaxCalls \in Nat /\ MaxErrors \in Nat
  /\ 2 * K <= MaxBlocks * DirsPerBlock
  /\ FREE_NODE \notin Nat /\ FREE_NODE \notin Records
  BY DirectoryAssumption, FreeNodeAssumption DEF K

\* The order of the numbers as a relation, for WFMin.
Less == {p \in Nat \X Nat : p[1] < p[2]}

LEMMA LessWellFounded == IsWellFoundedOn(Less, Nat)
  BY NatLessThanWellFounded DEF OpToRel, Less

LEMMA LeastIn ==
  ASSUME NEW S, S \subseteq Nat, S # {}
  PROVE  \E m \in S : \A k \in S : m <= k
<1>1. \E m \in S : \A k \in S : ~(<<k, m>> \in Less)
  BY WFMin, LessWellFounded
<1>2. \A k, m \in S : <<k, m>> \in Less \/ m <= k
  BY DEF Less
<1>3. QED
  BY <1>1, <1>2

LEMMA DirNosSize == MaxBlocks * DirsPerBlock \in Nat /\ 0 \in DirNos /\ 2 * K - 1 \in DirNos /\ DirNos \subseteq Nat
<1>1. MaxBlocks * DirsPerBlock \in Nat
  BY Constants
<1>2. QED
  BY <1>1, Constants DEF DirNos

\* A record is in a block of the directory file.
LEMMA InBlock ==
  ASSUME NEW n \in DirNos
  PROVE  BlockOf(n) \in Blocks /\ n \in RecordsOf(BlockOf(n))
<1> DEFINE d == DirsPerBlock
           q == n \div d
<1>1. /\ d \in Nat /\ d > 0 /\ MaxBlocks \in Nat /\ n \in Nat /\ n < MaxBlocks * d
  BY Constants DEF DirNos
<1>2. q \in Nat /\ d * q <= n
  BY <1>1
<1>3. ASSUME MaxBlocks <= q PROVE FALSE
  <2>1. MaxBlocks * d <= d * q
    BY <1>1, <1>2, <1>3
  <2>2. MaxBlocks * d \in Nat /\ d * q \in Nat
    BY <1>1, <1>2
  <2>3. QED
    BY <1>1, <1>2, <2>1, <2>2
<1>4. QED
  BY <1>1, <1>2, <1>3 DEF BlockOf, Blocks, RecordsOf

\* The elements of a sequence.
Distinct(s) == \A i, j \in DOMAIN s : s[i] = s[j] => i = j

LEMMA SetOf ==
  ASSUME NEW S, NEW s \in Seq(S)
  PROVE  /\ InSequence(s) \subseteq S
         /\ Len(s) \in Nat /\ DOMAIN s = 1 .. Len(s)
         /\ \A x : x \in InSequence(s) <=> \E i \in 1 .. Len(s) : s[i] = x
         /\ \A i \in 1 .. Len(s) : s[i] \in InSequence(s) /\ s[i] \in S
         /\ s = <<>> <=> Len(s) = 0
         /\ s = <<>> <=> InSequence(s) = {}
  BY LenProperties, ElementOfSeq, EmptySeq DEF InSequence

LEMMA EmptyFacts ==
  ASSUME NEW S
  PROVE  <<>> \in Seq(S) /\ InSequence(<<>>) = {} /\ Len(<<>>) = 0 /\ Distinct(<<>>)
  BY EmptySeq DEF InSequence, Distinct

LEMMA Appended ==
  ASSUME NEW S, NEW s \in Seq(S), NEW x \in S
  PROVE  /\ Append(s, x) \in Seq(S) /\ Len(Append(s, x)) = Len(s) + 1
         /\ InSequence(Append(s, x)) = InSequence(s) \cup {x}
         /\ Distinct(s) /\ x \notin InSequence(s) => Distinct(Append(s, x))
<1> DEFINE a == Append(s, x)
<1>1. /\ a \in Seq(S) /\ Len(a) = Len(s) + 1 /\ Len(s) \in Nat
      /\ \A i \in 1 .. Len(s) : a[i] = s[i]
      /\ a[Len(s) + 1] = x
  BY AppendProperties, LenProperties
<1> HIDE DEF a
<1>2. \A i \in 1 .. Len(a) : i \in 1 .. Len(s) \/ i = Len(s) + 1
  BY <1>1
<1>3. InSequence(a) = InSequence(s) \cup {x}
  BY <1>1, <1>2, SetOf
<1>4. ASSUME Distinct(s), x \notin InSequence(s) PROVE Distinct(a)
  BY <1>1, <1>2, <1>4, SetOf DEF Distinct
<1>5. QED
  BY <1>1, <1>3, <1>4 DEF a

LEMMA TailOf ==
  ASSUME NEW S, NEW s \in Seq(S), s # <<>>
  PROVE  /\ Head(s) = s[1] /\ Head(s) \in InSequence(s) /\ Head(s) \in S
         /\ Tail(s) \in Seq(S) /\ Len(Tail(s)) = Len(s) - 1
         /\ Len(s) \in Nat /\ Len(s) > 0
         /\ \A i \in 1 .. Len(Tail(s)) : Tail(s)[i] = s[i + 1]
         /\ InSequence(s) = InSequence(Tail(s)) \cup {Head(s)}
         /\ Distinct(s) => Distinct(Tail(s)) /\ Head(s) \notin InSequence(Tail(s))
<1> DEFINE r == Tail(s)
<1>1. /\ Head(s) = s[1] /\ r \in Seq(S) /\ Len(r) = Len(s) - 1 /\ Len(s) \in Nat /\ Len(s) > 0
      /\ \A i \in 1 .. Len(r) : r[i] = s[i + 1]
      /\ DOMAIN s = 1 .. Len(s) /\ DOMAIN r = 1 .. Len(r)
  BY HeadTailProperties, LenProperties, EmptySeq
<1> HIDE DEF r
<1>2. Head(s) \in InSequence(s) /\ Head(s) \in S
  BY <1>1, SetOf
<1>3. InSequence(s) = InSequence(r) \cup {Head(s)}
  <2>1. ASSUME NEW x \in InSequence(s) PROVE x \in InSequence(r) \cup {Head(s)}
    <3>1. PICK i \in 1 .. Len(s) : s[i] = x
      BY SetOf
    <3>2. CASE i = 1
      BY <1>1, <3>1, <3>2
    <3>3. CASE i # 1
      <4>1. i - 1 \in 1 .. Len(r) /\ r[i - 1] = x
        BY <1>1, <3>1, <3>3
      <4>2. QED
        BY <1>1, <4>1, SetOf
    <3>4. QED
      BY <3>2, <3>3
  <2>2. ASSUME NEW x \in InSequence(r) PROVE x \in InSequence(s)
    <3>1. PICK i \in 1 .. Len(r) : r[i] = x
      BY <1>1, SetOf
    <3>2. i + 1 \in 1 .. Len(s) /\ s[i + 1] = x
      BY <1>1, <3>1
    <3>3. QED
      BY <3>2, SetOf
  <2>3. QED
    BY <1>2, <2>1, <2>2
<1>4. ASSUME Distinct(s) PROVE Distinct(r) /\ Head(s) \notin InSequence(r)
  <2>1. ASSUME NEW i \in DOMAIN r, NEW j \in DOMAIN r, r[i] = r[j] PROVE i = j
    <3>1. i + 1 \in DOMAIN s /\ j + 1 \in DOMAIN s /\ s[i + 1] = s[j + 1]
      BY <1>1, <2>1
    <3>2. QED
      BY <1>1, <1>4, <3>1 DEF Distinct
  <2>2. ASSUME Head(s) \in InSequence(r) PROVE FALSE
    <3>1. PICK i \in 1 .. Len(r) : r[i] = Head(s)
      BY <1>1, <2>2, SetOf
    <3>2. i + 1 \in DOMAIN s /\ 1 \in DOMAIN s /\ s[i + 1] = s[1] /\ i + 1 # 1
      BY <1>1, <3>1
    <3>3. QED
      BY <1>4, <3>2 DEF Distinct
  <2>3. QED
    BY <2>1, <2>2 DEF Distinct
<1>5. QED
  BY <1>1, <1>2, <1>3, <1>4 DEF r

LEMMA Prefixed ==
  ASSUME NEW S, NEW x \in S, NEW s \in Seq(S)
  PROVE  /\ <<x>> \o s \in Seq(S) /\ Len(<<x>> \o s) = Len(s) + 1
         /\ (<<x>> \o s)[1] = x
         /\ \A i \in 2 .. Len(s) + 1 : (<<x>> \o s)[i] = s[i - 1]
         /\ InSequence(<<x>> \o s) = {x} \cup InSequence(s)
         /\ Head(<<x>> \o s) = x /\ <<x>> \o s # <<>>
<1> DEFINE l == <<x>> \o s
<1>1. <<x>> \in Seq(S) /\ Len(<<x>>) = 1 /\ <<x>>[1] = x /\ Len(s) \in Nat
  BY LenProperties
<1>2. /\ l \in Seq(S) /\ Len(l) = Len(s) + 1
      /\ \A i \in 1 .. Len(s) + 1 : l[i] = IF i <= 1 THEN <<x>>[i] ELSE s[i - 1]
  BY <1>1, ConcatProperties
<1> HIDE DEF l
<1>3. l[1] = x /\ \A i \in 2 .. Len(s) + 1 : l[i] = s[i - 1]
  BY <1>1, <1>2
<1>4. InSequence(l) = {x} \cup InSequence(s)
  <2>1. ASSUME NEW y \in InSequence(l) PROVE y \in {x} \cup InSequence(s)
    <3>1. PICK i \in 1 .. Len(s) + 1 : l[i] = y
      BY <1>2, SetOf
    <3>2. i = 1 \/ (i \in 2 .. Len(s) + 1 /\ i - 1 \in 1 .. Len(s))
      BY <1>1
    <3>3. QED
      BY <1>3, <3>1, <3>2, SetOf
  <2>2. x \in InSequence(l)
    BY <1>1, <1>2, <1>3, SetOf
  <2>3. ASSUME NEW y \in InSequence(s) PROVE y \in InSequence(l)
    <3>1. PICK i \in 1 .. Len(s) : s[i] = y
      BY SetOf
    <3>2. i + 1 \in 2 .. Len(s) + 1 /\ (i + 1) - 1 = i
      BY <1>1
    <3>3. l[i + 1] = y /\ i + 1 \in 1 .. Len(l)
      BY <1>1, <1>2, <1>3, <3>1, <3>2
    <3>4. QED
      BY <1>2, <3>3, SetOf
  <2>4. QED
    BY <2>1, <2>2, <2>3
<1>5. Head(l) = x /\ l # <<>>
  BY <1>1, <1>2, <1>3, TailOf, SetOf
<1>6. QED
  BY <1>2, <1>3, <1>4, <1>5 DEF l

-----------------------------------------------------------------------------
(* What the invariant says *)

DOS     == {n \in DOMAIN hash : hash[n].NameSpace = 1}
List(n) == InSequence(NameSpaceList(n))

\* The records a call has allocated, and those it deletes or renames.
Entry(t)  == InSequence(call[t].entries)
Chain(t)  == InSequence(call[t].chain)
Claims(t) == Entry(t) \cup Chain(t)

Making   == {"prealloc", "preextend", "alloc", "extend", "retry", "write", "unwind"}
Deleting == {"drop", "free"}

\* What the place of a call says of its other parts.
CallOK(c) ==
  /\ c.op = "none" <=> c.pc = "idle"
  /\ c.pc = "idle" => c = NoCall
  /\ c.pc \in Making => c.op \in {"create", "rename"} /\ c.src = 0
  /\ c.op = "create" => c.pc \in Making
  /\ c.op = "remove" => c.pc \in Deleting /\ c.src = 0
  /\ c.chain = <<>> <=> c.op \in {"none", "create"} \/ c.pc = "move"
  /\ c.pc \in {"move", "inplace"} => c.op = "rename" /\ c.src # 0
  /\ c.pc = "inplace" => c.kind = "dir"
  /\ c.pc \notin Making => c.entries = <<>>
  /\ c.pc \in {"prealloc", "preextend"} => c.entries = <<>>
  /\ c.pc \in {"alloc", "extend", "retry"} => Len(c.entries) < K
  /\ c.pc \notin {"write", "unwind"} => c.written = 0
  /\ c.pc = "write" => Len(c.entries) = K /\ c.written < K
  /\ c.op \in {"create", "rename"} => c.dir \in c.locks
  /\ c.src # 0 \/ c.kind = "dir" => c.data = 0
  /\ Distinct(c.entries) /\ Distinct(c.chain)

\* While a call writes its records those that are written are hashed.
EntriesOK(t) ==
  LET c == call[t]
  IN IF c.pc = "write"
     THEN /\ \A i \in 1 .. K : (c.entries[i] \in DOMAIN hash) <=> i <= c.written
          /\ \A i \in 1 .. K : i <= c.written => table[c.entries[i]] = NewRecord(c, i)
          /\ c.written > 0 => /\ hash[c.entries[1]].Name = c.name
                              /\ hash[c.entries[1]].nl = SubSeq(c.entries, 2, c.written)
     ELSE Entry(t) \cap DOMAIN hash = {}

\* Records of other name spaces whose DOS record is not hashed any more.
Rest(S) == S \subseteq DOMAIN hash \ DOS /\ \A n \in DOS : S \cap List(n) = {}

\* A whole entry is to be deleted.
Whole(t) == Head(call[t].chain) \in DOS /\ call[t].chain = NameSpaceList(Head(call[t].chain))

ChainOK(t) ==
  LET c == call[t]
  IN /\ c.pc \in Making /\ c.op = "rename" => Whole(t) /\ hash[Head(c.chain)].FirstBlock = c.data
     /\ c.pc = "drop" => Whole(t) \/ Rest(Chain(t))
     /\ c.pc = "free" => /\ Head(c.chain) \in Used(table) \ DOMAIN hash
                         /\ Rest(InSequence(Tail(c.chain)))
     /\ c.pc = "inplace" => Chain(t) \subseteq List(c.src)

\* The entry that is to be renamed is hashed, in a directory that is locked.
SrcOK(t) ==
  LET c == call[t]
  IN c.src # 0 => /\ c.src \in DOS /\ hash[c.src].Parent \in c.locks /\ hash[c.src].Kind = c.kind
                  /\ c.pc \in Deleting => List(c.src) \cap Chain(t) = {}

TaskOK(t) ==
  /\ CallOK(call[t])
  /\ 0 \notin Claims(t) /\ Entry(t) \cap Chain(t) = {}
  /\ EntriesOK(t) /\ ChainOK(t) /\ SrcOK(t)

Apart(t, u) == Claims(t) \cap Claims(u) = {} /\ call[t].locks \cap call[u].locks = {}

\* The hash of a record says what the record does.
RecordOK(n) ==
  LET r == table[n]
      h == hash[n]
  IN /\ n \in Used(table)
     /\ h.Parent = r.Subdirectory /\ h.NameSpace = r.NameSpace /\ h.Kind = r.Kind
     /\ h.FirstBlock = r.FirstBlock /\ h.Root = r.PrimaryEntry
     /\ h.Kind = "dir" => h.FirstBlock = 0

\* The list of an entry: its records are hashed, who claims one has locked the
\* directory, and once it is written it is whole.
Linked(n) ==
  LET list == NameSpaceList(n)
  IN \A i \in DOMAIN list : /\ list[i] \in DOMAIN hash
                            /\ hash[list[i]].NameSpace = i /\ hash[list[i]].Root = n
                            /\ hash[list[i]].Parent = hash[n].Parent

Written(n) ==
  LET list == NameSpaceList(n)
  IN /\ Len(list) = K
     /\ \A i \in 1 .. K : table[list[i]].NameList = IF i = K THEN 0 ELSE list[i + 1]
     /\ hash[n].Kind = "file" => \A i \in 1 .. K : table[list[i]].Name = table[n].Name

ListOK(n) ==
  /\ Linked(n)
  /\ \A t \in Tasks : List(n) \cap Claims(t) # {} => hash[n].Parent \in call[t].locks
  /\ (\A t \in Tasks : n \notin Entry(t)) => Written(n)

StructInv ==
  /\ \A t \in Tasks : TaskOK(t)
  /\ \A t, u \in Tasks : t # u => Apart(t, u)
  /\ \A n \in DOMAIN hash : RecordOK(n)
  /\ \A n \in DOS : ListOK(n)
  /\ 0 \in DOS

\* The types, without the bounds on numbers that need more than the types.
TypeInv ==
  /\ table \in [DirNos -> Records \cup {FREE_NODE}]
  /\ ending \in 1 .. MaxBlocks
  /\ owner \in [Blocks -> DirNos \cup {FREE_NODE}]
  /\ bits \subseteq DirNos
  /\ hash = [n \in DOMAIN hash |-> hash[n]]
  /\ DOMAIN hash \subseteq DirNos /\ \A n \in DOMAIN hash : hash[n] \in Hashes
  /\ call \in [Tasks -> Calls]
  /\ calls \in Nat /\ errors \in Nat
  /\ orphaned \in BOOLEAN

BlockInv == RecordsAccounted /\ BlocksOneOwner

Inv == TypeInv /\ StructInv /\ BlockInv
-----------------------------------------------------------------------------
(* Consequences *)

LEMMA CallFacts ==
  ASSUME TypeInv, NEW t \in Tasks
  PROVE  /\ call[t] \in Calls
         /\ call[t].entries \in Seq(DirNos) /\ call[t].chain \in Seq(DirNos)
         /\ call[t].written \in 0 .. K /\ call[t].dir \in DirNos /\ call[t].src \in DirNos
         /\ call[t].locks \subseteq DirNos /\ call[t].name \in Names /\ call[t].old \in Names
         /\ call[t].data \in Streams /\ call[t].kind \in {"dir", "file"}
         /\ Entry(t) \subseteq DirNos /\ Chain(t) \subseteq DirNos
<1>1. call[t] \in Calls
  BY DEF TypeInv
<1>2. /\ call[t].entries \in Seq(DirNos) /\ call[t].chain \in Seq(DirNos)
      /\ call[t].written \in 0 .. K /\ call[t].dir \in DirNos /\ call[t].src \in DirNos
      /\ call[t].locks \subseteq DirNos /\ call[t].name \in Names /\ call[t].old \in Names
      /\ call[t].data \in Streams /\ call[t].kind \in {"dir", "file"}
  BY <1>1 DEF Calls, K
<1>3. QED
  BY <1>1, <1>2, SetOf DEF Entry, Chain

LEMMA HashFacts ==
  ASSUME TypeInv, NEW n \in DOMAIN hash
  PROVE  /\ n \in DirNos /\ hash[n] \in Hashes
         /\ hash[n].Parent \in DirNos /\ hash[n].Name \in Names /\ hash[n].NameSpace \in 1 .. K
         /\ hash[n].Kind \in {"dir", "file"} /\ hash[n].Root \in DirNos
         /\ hash[n].FirstBlock \in Streams /\ hash[n].Blocks \in Int /\ hash[n].nl \in Seq(DirNos)
<1>1. n \in DirNos /\ hash[n] \in Hashes
  BY DEF TypeInv
<1>2. QED
  BY <1>1 DEF Hashes, NameSpaces, K

LEMMA RecordFacts ==
  ASSUME TypeInv, NEW n \in Used(table)
  PROVE  /\ n \in DirNos /\ table[n] \in Records
         /\ table[n].Subdirectory \in DirNos /\ table[n].Name \in Names
         /\ table[n].NameSpace \in 1 .. K /\ table[n].Kind \in {"dir", "file"}
         /\ table[n].NameList \in DirNos /\ table[n].PrimaryEntry \in DirNos
         /\ table[n].FirstBlock \in Streams
<1>1. n \in DirNos /\ table[n] \in Records
  BY DEF TypeInv, Used
<1>2. QED
  BY <1>1 DEF Records, NameSpaces, K

LEMMA ListFacts ==
  ASSUME TypeInv, NEW n \in DOMAIN hash
  PROVE  /\ NameSpaceList(n) \in Seq(DirNos)
         /\ Len(NameSpaceList(n)) = Len(hash[n].nl) + 1 /\ Len(hash[n].nl) \in Nat
         /\ DOMAIN NameSpaceList(n) = 1 .. Len(NameSpaceList(n))
         /\ NameSpaceList(n)[1] = n /\ Head(NameSpaceList(n)) = n /\ NameSpaceList(n) # <<>>
         /\ \A i \in 2 .. Len(hash[n].nl) + 1 : NameSpaceList(n)[i] = hash[n].nl[i - 1]
         /\ List(n) = {n} \cup InSequence(hash[n].nl)
         /\ n \in List(n) /\ List(n) \subseteq DirNos
         /\ \A x : x \in List(n) <=> \E i \in DOMAIN NameSpaceList(n) : NameSpaceList(n)[i] = x
<1>1. n \in DirNos /\ hash[n].nl \in Seq(DirNos)
  BY HashFacts
<1>2. NameSpaceList(n) = <<n>> \o hash[n].nl
  BY DEF NameSpaceList
<1>3. /\ NameSpaceList(n) \in Seq(DirNos)
      /\ Len(NameSpaceList(n)) = Len(hash[n].nl) + 1
      /\ NameSpaceList(n)[1] = n /\ Head(NameSpaceList(n)) = n /\ NameSpaceList(n) # <<>>
      /\ \A i \in 2 .. Len(hash[n].nl) + 1 : NameSpaceList(n)[i] = hash[n].nl[i - 1]
      /\ List(n) = {n} \cup InSequence(hash[n].nl)
  BY <1>1, <1>2, Prefixed DEF List
<1>4. DOMAIN NameSpaceList(n) = 1 .. Len(NameSpaceList(n)) /\ Len(hash[n].nl) \in Nat
  BY <1>1, <1>3, SetOf
<1>5. QED
  BY <1>1, <1>3, <1>4, SetOf DEF List

\* A list names a record once, and only the lists of the same DOS record share one.
LEMMA LinkedFacts ==
  ASSUME TypeInv, NEW n \in DOS, Linked(n)
  PROVE  /\ hash[n].Root = n /\ Distinct(NameSpaceList(n))
         /\ \A m \in List(n) : m \in DOMAIN hash /\ hash[m].Root = n /\ hash[m].Parent = hash[n].Parent
         /\ \A m \in List(n) : m \in DOS => m = n
<1> DEFINE list == NameSpaceList(n)
<1>1. n \in DOMAIN hash /\ hash[n].NameSpace = 1
  BY DEF DOS
<1>2. /\ DOMAIN list = 1 .. Len(list) /\ list[1] = n /\ Len(list) \in Nat /\ Len(list) > 0
      /\ \A x : x \in List(n) <=> \E i \in DOMAIN list : list[i] = x
  BY <1>1, ListFacts
<1>3. \A i \in DOMAIN list : /\ list[i] \in DOMAIN hash
                            /\ hash[list[i]].NameSpace = i /\ hash[list[i]].Root = n
                            /\ hash[list[i]].Parent = hash[n].Parent
  BY DEF Linked
<1> HIDE DEF list
<1>4. 1 \in DOMAIN list
  BY <1>2
<1>5. hash[n].Root = n
  BY <1>2, <1>3, <1>4
<1>6. Distinct(list)
  BY <1>3 DEF Distinct
<1>7. \A m \in List(n) : m \in DOMAIN hash /\ hash[m].Root = n /\ hash[m].Parent = hash[n].Parent
  BY <1>2, <1>3
<1>8. ASSUME NEW m \in List(n), m \in DOS PROVE m = n
  <2>1. PICK i \in DOMAIN list : list[i] = m
    BY <1>2
  <2>2. hash[m].NameSpace = 1
    BY <1>8 DEF DOS
  <2>3. i = 1
    BY <1>3, <2>1, <2>2
  <2>4. QED
    BY <1>2, <2>1, <2>3
<1>9. QED
  BY <1>5, <1>6, <1>7, <1>8 DEF list

\* What a call works on: its claims and the entry it renames.
Reach(t) == Claims(t) \cup (IF call[t].src # 0 THEN List(call[t].src) ELSE {})

LEMMA ReachApart ==
  ASSUME TypeInv, StructInv, NEW t \in Tasks, NEW u \in Tasks, t # u
  PROVE  Reach(t) \cap Reach(u) = {}
<1>1. Claims(t) \cap Claims(u) = {} /\ call[t].locks \cap call[u].locks = {}
  BY DEF StructInv, Apart
<1>2. \A v \in Tasks : call[v].src # 0 => /\ call[v].src \in DOS /\ hash[call[v].src].Parent \in call[v].locks
                                          /\ ListOK(call[v].src)
  BY DEF StructInv, TaskOK, SrcOK
<1>3. ASSUME NEW v \in Tasks, NEW w \in Tasks, call[v].locks \cap call[w].locks = {}, call[v].src # 0
      PROVE  List(call[v].src) \cap Claims(w) = {}
  BY <1>2, <1>3 DEF ListOK
<1>4. ASSUME call[t].src # 0, call[u].src # 0 PROVE List(call[t].src) \cap List(call[u].src) = {}
  <2>1. \A m \in List(call[t].src) : hash[m].Parent = hash[call[t].src].Parent
    BY <1>2, <1>4, LinkedFacts DEF ListOK
  <2>2. \A m \in List(call[u].src) : hash[m].Parent = hash[call[u].src].Parent
    BY <1>2, <1>4, LinkedFacts DEF ListOK
  <2>3. QED
    BY <1>1, <1>2, <1>4, <2>1, <2>2
<1>5. QED
  BY <1>1, <1>3, <1>4 DEF Reach

LEMMA ListsApart ==
  ASSUME TypeInv, StructInv, NEW n \in DOS, NEW m \in DOS, n # m
  PROVE  List(n) \cap List(m) = {}
  BY LinkedFacts DEF StructInv, ListOK

LEMMA OpFacts ==
  ASSUME NEW c \in Calls, CallOK(c)
  PROVE  /\ c.pc \in Making \cup Deleting \cup {"idle", "move", "inplace"}
         /\ c.pc \in Making <=> c.op = "create" \/ (c.op = "rename" /\ c.pc \in Making)
         /\ c.pc \in Making => c.op \in {"create", "rename"} /\ c.src = 0
         /\ c.op = "create" <=> c.pc \in Making /\ c.chain = <<>>
         /\ c.pc \in Making /\ c.op = "rename" => c.chain # <<>>
         /\ c.pc \in Deleting => /\ c.op \in {"remove", "rename"} /\ c.chain # <<>>
                                 /\ c.entries = <<>> /\ c.written = 0
         /\ c.pc = "move" => c.op = "rename" /\ c.src # 0 /\ c.entries = <<>> /\ c.chain = <<>> /\ c.written = 0
         /\ c.pc = "inplace" => c.op = "rename" /\ c.src # 0 /\ c.entries = <<>> /\ c.chain # <<>> /\ c.written = 0
         /\ c.op = "rename" => c.pc \in Making \cup Deleting \cup {"move", "inplace"}
<1>1. /\ c.op \in {"none", "create", "remove", "rename"}
      /\ c.pc \in {"idle", "prealloc", "preextend", "alloc", "extend", "retry", "write", "unwind",
                   "drop", "free", "move", "inplace"}
  BY DEF Calls
<1>2. QED
  BY <1>1 DEF CallOK, Making, Deleting

\* What is hashed or claimed is in use, and marked.
LEMMA InUse ==
  ASSUME TypeInv, StructInv, BlockInv
  PROVE  /\ DOMAIN hash \subseteq Used(table) /\ Used(table) \subseteq bits
         /\ \A t \in Tasks : Chain(t) \subseteq Used(table) /\ Entry(t) \subseteq bits
<1>1. DOMAIN hash \subseteq Used(table)
  BY DEF StructInv, RecordOK
<1>2. Used(table) \subseteq bits /\ \A t \in Tasks : Entry(t) \subseteq bits
  BY DEF BlockInv, RecordsAccounted, Entry
<1>3. ASSUME NEW t \in Tasks PROVE Chain(t) \subseteq Used(table)
  <2> DEFINE c == call[t]
  <2>1. CallOK(c) /\ ChainOK(t) /\ SrcOK(t) /\ c \in Calls /\ c.chain \in Seq(DirNos)
    BY CallFacts DEF StructInv, TaskOK
  <2>2. c.pc \in {"idle", "move"} \cup Making \cup Deleting \cup {"inplace"}
    BY <2>1 DEF Calls, Making, Deleting
  <2>3. CASE c.chain = <<>>
    BY <2>3, EmptyFacts DEF Chain
  <2>4. ASSUME Whole(t) PROVE Chain(t) \subseteq DOMAIN hash
    BY <2>4, LinkedFacts DEF Whole, StructInv, ListOK, Chain, List
  <2>5. CASE c.chain # <<>> /\ c.pc \in Making
    BY <1>1, <2>1, <2>4, <2>5 DEF CallOK, ChainOK
  <2>6. CASE c.pc = "drop"
    BY <1>1, <2>1, <2>4, <2>6 DEF ChainOK, Rest
  <2>7. CASE c.pc = "free"
    <3>1. c.chain # <<>>
      BY <2>1, <2>7, OpFacts DEF Deleting
    <3>2. Chain(t) = InSequence(Tail(c.chain)) \cup {Head(c.chain)}
      BY <2>1, <3>1, TailOf DEF Chain
    <3>3. QED
      BY <1>1, <2>1, <2>7, <3>2 DEF ChainOK, Rest
  <2>8. CASE c.pc = "inplace"
    <3>1. c.src # 0 /\ c.src \in DOS
      BY <2>1, <2>8 DEF CallOK, SrcOK
    <3>2. List(c.src) \subseteq DOMAIN hash
      BY <3>1, LinkedFacts DEF StructInv, ListOK
    <3>3. QED
      BY <1>1, <2>1, <2>8, <3>2 DEF ChainOK
  <2>9. CASE c.pc \in {"idle", "move"}
    BY <2>1, <2>3, <2>9 DEF CallOK
  <2>10. QED
    BY <2>2, <2>3, <2>5, <2>6, <2>7, <2>8, <2>9 DEF Deleting
<1>4. QED
  BY <1>1, <1>2, <1>3

-----------------------------------------------------------------------------
(* What a step leaves alone *)

\* The record and its hash stay, but for the number of entries.
Untouched(n) ==
  /\ n \in DOMAIN hash <=> n \in DOMAIN hash'
  /\ n \in DOMAIN hash =>
       /\ hash'[n].Parent = hash[n].Parent /\ hash'[n].Name = hash[n].Name
       /\ hash'[n].NameSpace = hash[n].NameSpace /\ hash'[n].Kind = hash[n].Kind
       /\ hash'[n].Root = hash[n].Root /\ hash'[n].FirstBlock = hash[n].FirstBlock
       /\ hash'[n].nl = hash[n].nl
  /\ table'[n] = table[n]

\* Step of call t touches the records X, and these belong to nobody else.
Touches(t, X) ==
  /\ X \subseteq DirNos
  /\ \A n \in DirNos \ X : Untouched(n)
  /\ \A u \in Tasks \ {t} : X \cap Reach(u) = {}
  /\ \A n \in DOS \ X : List(n) \cap X = {}
  /\ \A n \in DOS' \cap X : List(n)' \subseteq X

LEMMA SameList ==
  ASSUME NEW n \in DOMAIN hash, Untouched(n)
  PROVE  NameSpaceList(n)' = NameSpaceList(n) /\ List(n)' = List(n) /\ n \in DOMAIN hash'
         /\ (n \in DOS <=> n \in DOS')
  BY DEF Untouched, NameSpaceList, List, DOS

LEMMA SameRecord ==
  ASSUME NEW n \in DOMAIN hash, Untouched(n), RecordOK(n)
  PROVE  RecordOK(n)'
<1>1. n \in Used(table)'
  BY DEF RecordOK, Untouched, Used
<1>2. QED
  BY <1>1 DEF RecordOK, Untouched

\* A list that no step touches, while nobody claims more of it but who has locked
\* its directory, and its records do not cease to be new ones.
LEMMA SameListOK ==
  ASSUME TypeInv, TypeInv', NEW t \in Tasks, NEW X, Touches(t, X),
         NEW n \in DOS, n \notin X, ListOK(n),
         \A u \in Tasks \ {t} : call'[u] = call[u],
         List(n) \cap Claims(t)' # {} => hash[n].Parent \in call'[t].locks,
         n \in Entry(t) => n \in Entry(t)'
  PROVE  ListOK(n)' /\ n \in DOS'
<1> DEFINE list == NameSpaceList(n)
<1>1. n \in DOMAIN hash /\ n \in DirNos
  BY HashFacts DEF DOS
<1>2. Untouched(n)
  BY <1>1 DEF Touches
<1>3. NameSpaceList(n)' = list /\ List(n)' = List(n) /\ n \in DOS' /\ n \in DOMAIN hash'
  BY <1>1, <1>2, SameList
<1>4. Linked(n)
  BY DEF ListOK
<1>5. \A m \in List(n) : m \in DirNos \ X /\ m \in DOMAIN hash /\ Untouched(m)
  <2>1. List(n) \cap X = {}
    BY DEF Touches
  <2>2. QED
    BY <1>4, <2>1, LinkedFacts, HashFacts DEF Touches
<1>6. \A i \in DOMAIN list : list[i] \in List(n)
  BY <1>1, ListFacts
<1>7. Linked(n)'
  <2>1. SUFFICES ASSUME NEW i \in DOMAIN list
                 PROVE  /\ list[i] \in DOMAIN hash'
                        /\ hash'[list[i]].NameSpace = i /\ hash'[list[i]].Root = n
                        /\ hash'[list[i]].Parent = hash'[n].Parent
    BY <1>3 DEF Linked
  <2>2. list[i] \in DOMAIN hash /\ hash[list[i]].NameSpace = i /\ hash[list[i]].Root = n
        /\ hash[list[i]].Parent = hash[n].Parent
    BY <1>4 DEF Linked
  <2>3. Untouched(list[i])
    BY <1>5, <1>6
  <2>4. QED
    BY <1>1, <1>2, <2>2, <2>3 DEF Untouched
<1>8. ASSUME NEW u \in Tasks, List(n)' \cap Claims(u)' # {} PROVE hash'[n].Parent \in call'[u].locks
  <2>1. hash'[n].Parent = hash[n].Parent
    BY <1>1, <1>2 DEF Untouched
  <2>2. CASE u = t
    BY <1>3, <1>8, <2>1, <2>2
  <2>3. CASE u # t
    <3>1. Claims(u)' = Claims(u)
      BY <2>3 DEF Claims, Entry, Chain
    <3>2. hash[n].Parent \in call[u].locks
      BY <1>3, <1>8, <3>1 DEF ListOK
    <3>3. QED
      BY <2>1, <2>3, <3>2
  <2>4. QED
    BY <2>2, <2>3
<1>9. ASSUME \A u \in Tasks : n \notin Entry(u)' PROVE Written(n)'
  <2>1. \A u \in Tasks : n \notin Entry(u)
    BY <1>9 DEF Entry
  <2>2. Written(n)
    BY <2>1 DEF ListOK
  <2>3. Len(list) = K /\ DOMAIN list = 1 .. K
    BY <1>1, <2>2, ListFacts DEF Written
  <2>4. \A i \in 1 .. K : table'[list[i]] = table[list[i]]
    BY <1>5, <1>6, <2>3 DEF Untouched
  <2>5. table'[n] = table[n] /\ hash'[n].Kind = hash[n].Kind
    BY <1>1, <1>2 DEF Untouched
  <2>6. QED
    BY <1>3, <2>2, <2>3, <2>4, <2>5 DEF Written
<1>10. QED
  BY <1>3, <1>7, <1>8, <1>9 DEF ListOK

LEMMA NoNewLists ==
  ASSUME TypeInv, TypeInv', NEW t \in Tasks, NEW X, Touches(t, X), NEW S, S \cap X = {}, Rest(S)
  PROVE  Rest(S)'
<1>1. \A m \in S : m \in DOMAIN hash /\ m \notin DOS /\ m \in DirNos \ X
  BY HashFacts DEF Rest
<1>2. \A m \in S : m \in DOMAIN hash' /\ m \notin DOS'
  BY <1>1, SameList DEF Touches
<1>3. ASSUME NEW n \in DOS' PROVE S \cap List(n)' = {}
  <2>1. n \in DirNos /\ n \in DOMAIN hash'
    BY DEF DOS, TypeInv
  <2>2. CASE n \in X
    BY <2>2 DEF Touches
  <2>3. CASE n \notin X
    <3>1. n \in DOMAIN hash /\ Untouched(n)
      BY <2>1, <2>3 DEF Touches, Untouched
    <3>2. n \in DOS /\ List(n)' = List(n)
      BY <3>1, SameList
    <3>3. QED
      BY <3>2 DEF Rest
  <2>4. QED
    BY <2>2, <2>3
<1>4. QED
  BY <1>2, <1>3 DEF Rest

\* A call that the step is not of.
LEMMA SameTask ==
  ASSUME TypeInv, TypeInv', StructInv, BlockInv, NEW t \in Tasks, NEW X, Touches(t, X),
         NEW u \in Tasks, u # t, call'[u] = call[u]
  PROVE  TaskOK(u)' /\ Claims(u)' = Claims(u)
<1> DEFINE c == call[u]
<1>1. Entry(u)' = Entry(u) /\ Chain(u)' = Chain(u) /\ Claims(u)' = Claims(u)
  BY DEF Entry, Chain, Claims
<1>2. c \in Calls /\ CallOK(c) /\ EntriesOK(u) /\ ChainOK(u) /\ SrcOK(u)
  BY CallFacts DEF StructInv, TaskOK
<1>3. \A n \in Claims(u) : n \in DirNos \ X /\ Untouched(n)
  BY CallFacts DEF Touches, Reach, Claims
<1>4. ASSUME c.src # 0 PROVE /\ c.src \in DOS /\ c.src \in DOMAIN hash /\ Untouched(c.src)
                             /\ List(c.src)' = List(c.src) /\ c.src \in DOS'
  <2>1. c.src \in DOS /\ c.src \in DOMAIN hash
    BY <1>2, <1>4 DEF SrcOK, DOS
  <2>2. c.src \in List(c.src) /\ c.src \in DirNos
    BY <2>1, ListFacts, HashFacts
  <2>3. Untouched(c.src)
    BY <1>4, <2>2 DEF Touches, Reach
  <2>4. QED
    BY <2>1, <2>3, SameList
<1>5. EntriesOK(u)'
  <2>1. CASE c.pc = "write"
    <3>1. /\ \A i \in 1 .. K : (c.entries[i] \in DOMAIN hash) <=> i <= c.written
          /\ \A i \in 1 .. K : i <= c.written => table[c.entries[i]] = NewRecord(c, i)
          /\ c.written > 0 => /\ hash[c.entries[1]].Name = c.name
                              /\ hash[c.entries[1]].nl = SubSeq(c.entries, 2, c.written)
      BY <1>2, <2>1 DEF EntriesOK
    <3>2. Len(c.entries) = K /\ c.entries \in Seq(DirNos) /\ c.written \in 0 .. K
      BY <1>2, <2>1, CallFacts DEF CallOK
    <3>3. \A i \in 1 .. K : c.entries[i] \in Claims(u) /\ Untouched(c.entries[i])
      BY <1>3, <3>2, SetOf DEF Claims, Entry
    <3>4. \A i \in 1 .. K : (c.entries[i] \in DOMAIN hash') <=> i <= c.written
      BY <3>1, <3>3 DEF Untouched
    <3>5. \A i \in 1 .. K : i <= c.written => table'[c.entries[i]] = NewRecord(c, i)
      BY <3>1, <3>3 DEF Untouched
    <3>6. c.written > 0 => /\ hash'[c.entries[1]].Name = c.name
                           /\ hash'[c.entries[1]].nl = SubSeq(c.entries, 2, c.written)
      <4>1. ASSUME c.written > 0 PROVE 1 \in 1 .. K /\ c.entries[1] \in DOMAIN hash
        BY <3>1, <3>2, <4>1, Constants
      <4>2. QED
        BY <3>1, <3>3, <4>1 DEF Untouched
    <3>7. QED
      BY <2>1, <3>4, <3>5, <3>6 DEF EntriesOK, NewRecord
  <2>2. CASE c.pc # "write"
    <3>1. Entry(u) \cap DOMAIN hash = {}
      BY <1>2, <2>2 DEF EntriesOK
    <3>2. Entry(u) \cap DOMAIN hash' = {}
      BY <1>3, <3>1 DEF Claims, Untouched
    <3>3. QED
      BY <1>1, <2>2, <3>2 DEF EntriesOK
  <2>3. QED
    BY <2>1, <2>2
<1>6. ASSUME Whole(u), c.chain # <<>>
      PROVE  Whole(u)' /\ hash'[Head(c.chain)].FirstBlock = hash[Head(c.chain)].FirstBlock
  <2>1. Head(c.chain) \in Claims(u)
    BY <1>6, CallFacts, TailOf DEF Claims, Chain
  <2>2. Head(c.chain) \in DOMAIN hash /\ Untouched(Head(c.chain)) /\ Head(c.chain) \in DOS
    BY <1>3, <1>6, <2>1 DEF Whole, DOS
  <2>3. QED
    BY <1>6, <2>2, SameList DEF Whole, Untouched
<1>7. ChainOK(u)'
  <2>1. ASSUME c.pc \in Making, c.op = "rename" PROVE Whole(u)' /\ hash'[Head(c.chain)].FirstBlock = c.data
    BY <1>2, <1>6, <2>1, OpFacts DEF ChainOK
  <2>2. ASSUME c.pc = "drop" PROVE Whole(u)' \/ Rest(Chain(u))'
    <3>1. c.chain # <<>> /\ (Whole(u) \/ Rest(Chain(u)))
      BY <1>2, <2>2, OpFacts DEF ChainOK, Deleting
    <3>2. Chain(u) \cap X = {}
      BY <1>3 DEF Claims
    <3>3. ASSUME Rest(Chain(u)) PROVE Rest(Chain(u))'
      <4> DEFINE S == Chain(u)
      <4>1. S' = S
        BY <1>1
      <4> HIDE DEF S
      <4>2. ASSUME NEW R, R \cap X = {}, Rest(R) PROVE Rest(R)'
        BY <4>2, NoNewLists
      <4>3. S \cap X = {} /\ Rest(S)
        BY <3>2, <3>3 DEF S
      <4>4. PICK R : R = S
        OBVIOUS
      <4>5. Rest(R)'
        BY <4>2, <4>3, <4>4
      <4>6. QED
        BY <4>1, <4>4, <4>5 DEF S, Rest
    <3>4. QED
      BY <1>6, <3>1, <3>3
  <2>3. ASSUME c.pc = "free" PROVE /\ Head(c.chain) \in Used(table)' \ DOMAIN hash'
                                   /\ Rest(InSequence(Tail(c.chain)))'
    <3>1. c.chain # <<>> /\ Head(c.chain) \in Used(table) \ DOMAIN hash /\ Rest(InSequence(Tail(c.chain)))
      BY <1>2, <2>3, OpFacts DEF ChainOK, Deleting
    <3>2. c.chain \in Seq(DirNos) /\ Chain(u) = InSequence(Tail(c.chain)) \cup {Head(c.chain)}
      BY <3>1, CallFacts, TailOf DEF Chain
    <3>3. Head(c.chain) \in Used(table)' \ DOMAIN hash'
      BY <1>3, <3>1, <3>2 DEF Claims, Untouched, Used
    <3>4. PICK R : R = InSequence(Tail(c.chain))
      OBVIOUS
    <3>5. R \cap X = {} /\ Rest(R)
      BY <1>3, <3>1, <3>2, <3>4 DEF Claims
    <3>6. Rest(R)'
      BY <3>5, NoNewLists
    <3>7. InSequence(Tail(c.chain))' = R
      BY <3>4 DEF InSequence
    <3>8. QED
      BY <3>3, <3>6, <3>7 DEF Rest
  <2>4. ASSUME c.pc = "inplace" PROVE Chain(u)' \subseteq List(c.src)'
    BY <1>1, <1>2, <1>4, <2>4, OpFacts DEF ChainOK
  <2>5. QED
    BY <2>1, <2>2, <2>3, <2>4 DEF ChainOK
<1>8. SrcOK(u)'
  <2>1. SUFFICES ASSUME c.src # 0
                 PROVE  /\ c.src \in DOS' /\ hash'[c.src].Parent \in c.locks /\ hash'[c.src].Kind = c.kind
                        /\ c.pc \in Deleting => List(c.src)' \cap Chain(u)' = {}
    BY DEF SrcOK
  <2>2. /\ hash[c.src].Parent \in c.locks /\ hash[c.src].Kind = c.kind
        /\ c.pc \in Deleting => List(c.src) \cap Chain(u) = {}
    BY <1>2, <2>1 DEF SrcOK
  <2>3. QED
    BY <1>1, <1>4, <2>1, <2>2 DEF Untouched
<1>9. CallOK(c)' /\ 0 \notin Claims(u)' /\ (Entry(u) \cap Chain(u) = {})'
  <2>1. CallOK(call[u])'
    <3>1. CallOK(call'[u])
      BY <1>2
    <3>2. QED
      BY <3>1 DEF CallOK
  <2>2. QED
    BY <1>1, <2>1 DEF StructInv, TaskOK
<1>10. QED
  BY <1>1, <1>5, <1>7, <1>8, <1>9 DEF TaskOK

LEMMA StructStep ==
  ASSUME TypeInv, TypeInv', StructInv, BlockInv, NEW t \in Tasks, NEW X, Touches(t, X), 0 \notin X,
         \A u \in Tasks \ {t} : call'[u] = call[u],
         TaskOK(t)',
         \A u \in Tasks \ {t} : Claims(t)' \cap Claims(u) = {} /\ call'[t].locks \cap call[u].locks = {},
         \A n \in DOS \ X : /\ List(n) \cap Claims(t)' # {} => hash[n].Parent \in call'[t].locks
                            /\ n \in Entry(t) => n \in Entry(t)',
         \A n \in DOMAIN hash' \cap X : RecordOK(n)',
         \A n \in DOS' \cap X : ListOK(n)'
  PROVE  StructInv'
<1>1. \A u \in Tasks : TaskOK(u)'
  BY SameTask
<1>2. ASSUME NEW u \in Tasks, NEW v \in Tasks, u # v PROVE Apart(u, v)'
  <2>1. \A w \in Tasks \ {t} : Claims(w)' = Claims(w) /\ call'[w].locks = call[w].locks
    BY SameTask
  <2>2. CASE u = t
    BY <1>2, <2>1, <2>2 DEF Apart
  <2>3. CASE v = t
    BY <1>2, <2>1, <2>3 DEF Apart
  <2>4. CASE u # t /\ v # t
    BY <1>2, <2>1, <2>4 DEF Apart, StructInv
  <2>5. QED
    BY <2>2, <2>3, <2>4
<1>3. ASSUME NEW n \in DOMAIN hash', n \notin X PROVE n \in DOMAIN hash /\ Untouched(n)
  BY <1>3 DEF Touches, Untouched, TypeInv
<1>4. \A n \in DOMAIN hash' : RecordOK(n)'
  BY <1>3, SameRecord DEF StructInv
<1>5. ASSUME NEW n \in DOS', n \notin X PROVE ListOK(n)'
  <2>1. n \in DOMAIN hash'
    BY DEF DOS
  <2>2. n \in DOS
    BY <1>3, <1>5, <2>1, SameList
  <2>3. QED
    BY <1>5, <2>2, SameListOK DEF StructInv
<1>6. 0 \in DOS'
  <2>1. 0 \in DOS /\ 0 \in DOMAIN hash
    BY DEF StructInv, DOS
  <2>2. Untouched(0)
    BY <2>1, HashFacts DEF Touches
  <2>3. QED
    BY <2>1, <2>2, SameList
<1>7. QED
  BY <1>1, <1>2, <1>4, <1>5, <1>6 DEF StructInv

\* Steps that change what a call does next, but no record and no hash.
LEMMA CallStep ==
  ASSUME TypeInv, TypeInv', StructInv, BlockInv, NEW t \in Tasks,
         hash' = hash, table' = table,
         \A u \in Tasks \ {t} : call'[u] = call[u],
         TaskOK(t)',
         \A u \in Tasks \ {t} : Claims(t)' \cap Claims(u) = {} /\ call'[t].locks \cap call[u].locks = {},
         \A n \in DOS : /\ List(n) \cap Claims(t)' # {} => hash[n].Parent \in call'[t].locks
                        /\ n \in Entry(t) => n \in Entry(t)'
  PROVE  StructInv'
<1> DEFINE X == {}
<1>1. Touches(t, X)
  BY DEF Touches, Untouched
<1>2. QED
  BY <1>1, StructStep

\* Nothing more is claimed or locked.
LEMMA FewerClaims ==
  ASSUME TypeInv, TypeInv', StructInv, BlockInv, NEW t \in Tasks,
         hash' = hash, table' = table,
         \A u \in Tasks \ {t} : call'[u] = call[u],
         TaskOK(t)', Claims(t)' \subseteq Claims(t),
         call'[t].locks = call[t].locks \/ (call'[t].locks = {} /\ Claims(t)' = {}),
         \A n \in DOS : n \in Entry(t) => n \in Entry(t)'
  PROVE  StructInv'
<1>1. \A u \in Tasks \ {t} : Claims(t)' \cap Claims(u) = {} /\ call'[t].locks \cap call[u].locks = {}
  BY DEF StructInv, Apart
<1>2. \A n \in DOS : List(n) \cap Claims(t)' # {} => hash[n].Parent \in call'[t].locks
  BY DEF StructInv, ListOK
<1>3. QED
  BY <1>1, <1>2, CallStep

-----------------------------------------------------------------------------
(* What the operations do to the hashes *)

IsHash(h) == /\ h = [n \in DOMAIN h |-> h[n]] /\ DOMAIN h \subseteq DirNos
             /\ \A n \in DOMAIN h : h[n] \in Hashes

\* The same record, but for the number of entries.
SameHash(r, s) ==
  /\ r.Parent = s.Parent /\ r.Name = s.Name /\ r.NameSpace = s.NameSpace /\ r.Kind = s.Kind
  /\ r.Root = s.Root /\ r.FirstBlock = s.FirstBlock /\ r.nl = s.nl

LEMMA CountedEffect ==
  ASSUME NEW h, IsHash(h), NEW p, NEW d \in Int
  PROVE  LET g == Counted(h, p, d)
         IN /\ IsHash(g) /\ DOMAIN g = DOMAIN h
            /\ \A n \in DOMAIN h : /\ SameHash(g[n], h[n])
                                   /\ g[n].Blocks = h[n].Blocks + (IF n = p THEN d ELSE 0)
<1> DEFINE g == Counted(h, p, d)
<1>1. CASE p \notin DOMAIN h
  <2>1. g = h
    BY <1>1 DEF Counted
  <2>2. \A n \in DOMAIN h : h[n].Blocks \in Int
    BY DEF IsHash, Hashes
  <2>3. QED
    BY <1>1, <2>1, <2>2 DEF SameHash
<1>2. CASE p \in DOMAIN h
  <2>1. g = [h EXCEPT ![p].Blocks = @ + d]
    BY <1>2 DEF Counted
  <2>2. DOMAIN g = DOMAIN h /\ g = [n \in DOMAIN g |-> g[n]]
    BY <2>1
  <2>3. \A n \in DOMAIN h : n # p => g[n] = h[n]
    BY <2>1
  <2>4. g[p] = [h[p] EXCEPT !.Blocks = @ + d]
    BY <1>2, <2>1
  <2>5. h[p] \in Hashes /\ h[p].Blocks \in Int
    BY <1>2 DEF IsHash, Hashes
  <2>6. g[p] \in Hashes /\ SameHash(g[p], h[p]) /\ g[p].Blocks = h[p].Blocks + d
    BY <2>4, <2>5 DEF Hashes, SameHash
  <2>7. \A n \in DOMAIN h : n # p => g[n] \in Hashes /\ SameHash(g[n], h[n]) /\ g[n].Blocks = h[n].Blocks + 0
    BY <2>3 DEF IsHash, Hashes, SameHash
  <2>8. QED
    BY <2>2, <2>6, <2>7 DEF IsHash
<1>3. QED
  BY <1>1, <1>2

LEMMA FreeHashEffect ==
  ASSUME NEW h, IsHash(h), NEW n \in DOMAIN h
  PROVE  LET g == FreeHash(h, n)
         IN /\ IsHash(g) /\ DOMAIN g = DOMAIN h \ {n}
            /\ \A m \in DOMAIN g :
                 /\ SameHash(g[m], h[m])
                 /\ g[m].Blocks = h[m].Blocks - (IF h[n].NameSpace = 1 /\ m = h[n].Parent THEN 1 ELSE 0)
<1> DEFINE left == [m \in DOMAIN h \ {n} |-> h[m]]
           p == h[n].Parent
<1>1. IsHash(left) /\ DOMAIN left = DOMAIN h \ {n} /\ \A m \in DOMAIN left : left[m] = h[m] /\ h[m].Blocks \in Int
  BY DEF IsHash, Hashes
<1>2. FreeHash(h, n) = IF h[n].NameSpace = 1 THEN Counted(left, p, -1) ELSE left
  BY DEF FreeHash
<1> HIDE DEF left, p
<1>3. CASE h[n].NameSpace = 1
  <2>1. LET g == Counted(left, p, -1)
         IN /\ IsHash(g) /\ DOMAIN g = DOMAIN left
            /\ \A m \in DOMAIN left : /\ SameHash(g[m], left[m])
                                      /\ g[m].Blocks = left[m].Blocks + (IF m = p THEN -1 ELSE 0)
    BY <1>1, CountedEffect
  <2>2. QED
    BY <1>1, <1>2, <1>3, <2>1 DEF p
<1>4. CASE h[n].NameSpace # 1
  BY <1>1, <1>2, <1>4 DEF SameHash
<1>5. QED
  BY <1>3, <1>4

LEMMA FreeHashesEffect ==
  ASSUME NEW h, IsHash(h), NEW s \in Seq(DirNos), s # <<>> => s[1] \in DOMAIN h
  PROVE  LET g == FreeHashes(h, s)
         IN /\ IsHash(g) /\ DOMAIN g = DOMAIN h \ InSequence(s)
            /\ \A m \in DOMAIN g :
                 /\ SameHash(g[m], h[m])
                 /\ g[m].Blocks = h[m].Blocks - (IF s # <<>> /\ m = h[s[1]].Parent THEN 1 ELSE 0)
<1> DEFINE left == [m \in DOMAIN h \ InSequence(s) |-> h[m]]
           p == h[s[1]].Parent
<1>1. IsHash(left) /\ DOMAIN left = DOMAIN h \ InSequence(s) /\ \A m \in DOMAIN left : left[m] = h[m]
  BY DEF IsHash
<1>2. FreeHashes(h, s) = IF s = <<>> THEN h ELSE Counted(left, p, -1)
  BY DEF FreeHashes
<1>3. \A m \in DOMAIN h : h[m].Blocks \in Int
  BY DEF IsHash, Hashes
<1> HIDE DEF left, p
<1>4. CASE s # <<>>
  <2>1. LET g == Counted(left, p, -1)
         IN /\ IsHash(g) /\ DOMAIN g = DOMAIN left
            /\ \A m \in DOMAIN left : /\ SameHash(g[m], left[m])
                                      /\ g[m].Blocks = left[m].Blocks + (IF m = p THEN -1 ELSE 0)
    BY <1>1, CountedEffect
  <2>2. QED
    BY <1>1, <1>2, <1>3, <1>4, <2>1 DEF p
<1>5. CASE s = <<>>
  <2>1. InSequence(s) = {}
    BY <1>5, SetOf
  <2>2. FreeHashes(h, s) = h /\ DOMAIN h = DOMAIN h \ InSequence(s)
    BY <1>2, <1>5, <2>1
  <2>3. \A m \in DOMAIN h : SameHash(h[m], h[m]) /\ h[m].Blocks = h[m].Blocks - 0
    BY <1>3 DEF SameHash
  <2>4. QED
    BY <1>5, <2>2, <2>3
<1>6. QED
  BY <1>4, <1>5

\* Hashes g are hashes h with the record r under number n.
AllocHashed(g, h, n, r) ==
  /\ IsHash(g) /\ DOMAIN g = DOMAIN h \cup {n}
  /\ g[n].Parent = (IF r.NameSpace = 1 THEN r.Subdirectory ELSE h[r.PrimaryEntry].Parent)
  /\ g[n].Name = r.Name /\ g[n].NameSpace = r.NameSpace /\ g[n].Kind = r.Kind
  /\ g[n].Root = r.PrimaryEntry /\ g[n].FirstBlock = r.FirstBlock /\ g[n].nl = <<>>
  /\ g[n].Blocks = (IF r.NameSpace = 1 /\ r.Subdirectory = n THEN 1 ELSE 0)
  /\ \A m \in DOMAIN h :
       /\ r.NameSpace = 1 \/ m # r.PrimaryEntry => SameHash(g[m], h[m])
       /\ g[m].Blocks = h[m].Blocks + (IF r.NameSpace = 1 /\ m = r.Subdirectory THEN 1 ELSE 0)
  /\ r.NameSpace # 1 =>
       LET p == r.PrimaryEntry
       IN /\ g[p].nl = Append(h[p].nl, n)
          /\ SameHash(g[p], [h[p] EXCEPT !.nl = Append(@, n)])

LEMMA AllocHashEffect ==
  ASSUME NEW h, IsHash(h), NEW n \in DirNos, n \notin DOMAIN h, NEW r \in Records,
         r.NameSpace = 1 \/ r.PrimaryEntry \in DOMAIN h
  PROVE  AllocHashed(AllocHash(h, n, r), h, n, r)
<1> DEFINE new == [Parent |-> IF r.NameSpace = 1 THEN r.Subdirectory ELSE h[r.PrimaryEntry].Parent,
                   Name |-> r.Name, NameSpace |-> r.NameSpace, Kind |-> r.Kind,
                   Root |-> r.PrimaryEntry, FirstBlock |-> r.FirstBlock, Blocks |-> 0, nl |-> <<>>]
           added == [m \in DOMAIN h \cup {n} |-> IF m = n THEN new ELSE h[m]]
           g == AllocHash(h, n, r)
           p == r.PrimaryEntry
<1>1. /\ r.NameSpace \in NameSpaces /\ r.Subdirectory \in DirNos /\ r.Name \in Names
      /\ r.Kind \in {"dir", "file"} /\ r.PrimaryEntry \in DirNos /\ r.FirstBlock \in Streams
  BY DEF Records
<1>2. \A m \in DOMAIN h : /\ h[m] \in Hashes /\ h[m].Parent \in DirNos /\ h[m].Blocks \in Int
                          /\ h[m].nl \in Seq(DirNos)
  BY DEF IsHash, Hashes
<1>3. new \in Hashes
  <2>1. (IF r.NameSpace = 1 THEN r.Subdirectory ELSE h[r.PrimaryEntry].Parent) \in DirNos
    BY <1>1, <1>2
  <2>2. <<>> \in Seq(DirNos) /\ 0 \in Int
    BY EmptyFacts
  <2>3. QED
    BY <1>1, <2>1, <2>2 DEF Hashes
<1>4. /\ DOMAIN added = DOMAIN h \cup {n} /\ added = [m \in DOMAIN added |-> added[m]]
      /\ added[n] = new /\ \A m \in DOMAIN h : added[m] = h[m]
  OBVIOUS
<1>5. IsHash(added)
  BY <1>2, <1>3, <1>4 DEF IsHash
<1>6. g = IF r.NameSpace = 1 THEN Counted(added, r.Subdirectory, 1)
          ELSE [added EXCEPT ![p].nl = Append(@, n)]
  BY DEF AllocHash, InsertNameSpaceElement
<1>7. /\ new.Parent = (IF r.NameSpace = 1 THEN r.Subdirectory ELSE h[r.PrimaryEntry].Parent)
      /\ new.Name = r.Name /\ new.NameSpace = r.NameSpace /\ new.Kind = r.Kind
      /\ new.Root = r.PrimaryEntry /\ new.FirstBlock = r.FirstBlock /\ new.nl = <<>> /\ new.Blocks = 0
  OBVIOUS
<1> HIDE DEF new, added, g
<1>8. CASE r.NameSpace = 1
  <2>1. LET f == Counted(added, r.Subdirectory, 1)
        IN /\ IsHash(f) /\ DOMAIN f = DOMAIN added
           /\ \A m \in DOMAIN added : /\ SameHash(f[m], added[m])
                                      /\ f[m].Blocks = added[m].Blocks + (IF m = r.Subdirectory THEN 1 ELSE 0)
    BY <1>5, CountedEffect
  <2>2. /\ IsHash(g) /\ DOMAIN g = DOMAIN h \cup {n}
        /\ \A m \in DOMAIN added : /\ SameHash(g[m], added[m])
                                   /\ g[m].Blocks = added[m].Blocks + (IF m = r.Subdirectory THEN 1 ELSE 0)
    BY <1>4, <1>6, <1>8, <2>1
  <2>3. \A m \in DOMAIN h : /\ SameHash(g[m], h[m])
                            /\ g[m].Blocks = h[m].Blocks + (IF m = r.Subdirectory THEN 1 ELSE 0)
    BY <1>4, <2>2
  <2>4. SameHash(g[n], new) /\ g[n].Blocks = 0 + (IF n = r.Subdirectory THEN 1 ELSE 0)
    BY <1>4, <1>7, <2>2
  <2>5. g[n].Blocks = (IF r.Subdirectory = n THEN 1 ELSE 0)
    BY <2>4
  <2>6. QED
    BY <1>7, <1>8, <2>2, <2>3, <2>4, <2>5 DEF SameHash, AllocHashed, g
<1>9. CASE r.NameSpace # 1
  <2>1. g = [added EXCEPT ![p].nl = Append(@, n)] /\ p \in DOMAIN h /\ p # n
    BY <1>6, <1>9
  <2>2. /\ DOMAIN g = DOMAIN h \cup {n} /\ g = [m \in DOMAIN g |-> g[m]]
        /\ \A m \in DOMAIN added : m # p => g[m] = added[m]
        /\ g[p] = [added[p] EXCEPT !.nl = Append(@, n)]
    BY <1>4, <2>1
  <2>3. h[p] \in Hashes /\ h[p].nl \in Seq(DirNos) /\ Append(h[p].nl, n) \in Seq(DirNos)
    BY <1>2, <2>1, Appended
  <2>4. g[p] = [h[p] EXCEPT !.nl = Append(h[p].nl, n)]
    BY <1>4, <2>1, <2>2
  <2>5. g[p] \in Hashes /\ g[p].nl = Append(h[p].nl, n) /\ g[p].Blocks = h[p].Blocks
    BY <2>3, <2>4 DEF Hashes
  <2>6. IsHash(g)
    BY <1>4, <1>5, <2>2, <2>5 DEF IsHash
  <2>7. g[n] = new
    BY <1>4, <2>1, <2>2
  <2>8. \A m \in DOMAIN h : m # p => g[m] = h[m]
    BY <1>4, <2>2
  <2>9. \A m \in DOMAIN h : g[m].Blocks = h[m].Blocks + 0
    BY <1>2, <2>5, <2>8
  <2>10. QED
    BY <1>7, <1>9, <2>2, <2>4, <2>5, <2>6, <2>7, <2>8, <2>9 DEF SameHash, AllocHashed, g
<1>10. QED
  BY <1>8, <1>9

LEMMA RenamedEffect ==
  ASSUME NEW h, IsHash(h), NEW s, NEW m \in Names
  PROVE  LET g == Renamed(h, s, m)
         IN /\ IsHash(g) /\ DOMAIN g = DOMAIN h
            /\ \A n \in DOMAIN h \ InSequence(s) : g[n] = h[n]
            /\ \A n \in DOMAIN h : /\ SameHash([g[n] EXCEPT !.Name = h[n].Name], h[n])
                                   /\ g[n].Blocks = h[n].Blocks
                                   /\ n \in InSequence(s) => g[n].Name = m
<1> DEFINE g == Renamed(h, s, m)
<1>1. /\ g = [n \in DOMAIN g |-> g[n]] /\ DOMAIN g = DOMAIN h
      /\ \A n \in DOMAIN h : g[n] = IF n \in InSequence(s) THEN [h[n] EXCEPT !.Name = m] ELSE h[n]
  BY DEF Renamed
<1> HIDE DEF g
<1>2. ASSUME NEW n \in DOMAIN h
      PROVE  /\ SameHash([g[n] EXCEPT !.Name = h[n].Name], h[n])
             /\ g[n].Blocks = h[n].Blocks /\ g[n] \in Hashes
             /\ n \in InSequence(s) => g[n].Name = m
  <2>1. h[n] \in Hashes
    BY DEF IsHash
  <2>2. QED
    BY <1>1, <2>1 DEF SameHash, Hashes
<1>3. QED
  BY <1>1, <1>2 DEF IsHash, g

-----------------------------------------------------------------------------
(* Data streams *)

StreamsUsed == {x \in Streams \ {0} : \/ \E n \in Used(table) : table[n].FirstBlock = x
                                      \/ \E t \in Tasks : call[t].data = x}

\* There are no more streams than calls that could have made one.
StreamInv == Cardinality(StreamsUsed) <= calls

LEMMA StreamsFinite == IsFiniteSet(Streams) /\ IsFiniteSet(StreamsUsed)
<1>1. IsFiniteSet(Streams)
  BY Constants, FS_Interval DEF Streams
<1>2. StreamsUsed \subseteq Streams
  BY DEF StreamsUsed
<1>3. QED
  BY <1>1, <1>2, FS_Subset

LEMMA StreamLeft ==
  ASSUME TypeInv, StreamInv, calls < MaxCalls
  PROVE  UnusedStream \in Streams \ {0}
<1> DEFINE used == {table[n].FirstBlock : n \in Used(table)} \cup {call[t].data : t \in Tasks}
           S == Streams \ {0}
<1>1. S = 1 .. MaxCalls + 1
  BY Constants DEF Streams
<1>2. Cardinality(S) = MaxCalls + 1
  <2>1. 1 \in Int /\ MaxCalls + 1 \in Int
    BY Constants
  <2> DEFINE e == MaxCalls + 1
  <2>2. Cardinality(1 .. e) = IF 1 > e THEN 0 ELSE e - 1 + 1
    BY <2>1, FS_Interval
  <2>3. e \in Int /\ e >= 1
    BY Constants
  <2> HIDE DEF e
  <2>4. Cardinality(1 .. e) = e
    BY <2>2, <2>3
  <2>5. QED
    BY <1>1, <2>4 DEF e
<1>3. StreamsUsed # S
  <2>1. Cardinality(StreamsUsed) \in Nat
    BY StreamsFinite, FS_CardinalityType
  <2>2. Cardinality(StreamsUsed) < MaxCalls + 1
    BY <2>1, Constants DEF StreamInv, TypeInv
  <2> HIDE DEF S
  <2>3. ASSUME StreamsUsed = S PROVE FALSE
    <3>1. Cardinality(StreamsUsed) = MaxCalls + 1
      BY <1>2, <2>3
    <3>2. QED
      BY <2>1, <2>2, <3>1, Constants
  <2>4. QED
    BY <2>3
<1>4. PICK x \in S : x \notin StreamsUsed
  BY <1>3 DEF StreamsUsed
<1>5. x \notin used
  BY <1>4 DEF StreamsUsed
<1>6. UnusedStream = CHOOSE y \in S : y \notin used
  BY DEF UnusedStream
<1>7. QED
  BY <1>4, <1>5, <1>6

LEMMA StreamsStay ==
  ASSUME TypeInv, TypeInv', StreamInv, calls' = calls, StreamsUsed' \subseteq StreamsUsed
  PROVE  StreamInv'
<1>1. Cardinality(StreamsUsed') <= Cardinality(StreamsUsed)
  BY StreamsFinite, FS_Subset
<1>2. Cardinality(StreamsUsed) \in Nat /\ Cardinality(StreamsUsed') \in Nat
  BY <1>1, StreamsFinite, FS_Subset, FS_CardinalityType
<1>3. QED
  BY <1>1, <1>2 DEF StreamInv, TypeInv

LEMMA StreamAdded ==
  ASSUME TypeInv, TypeInv', StreamInv, calls' = calls + 1, NEW x, StreamsUsed' \subseteq StreamsUsed \cup {x}
  PROVE  StreamInv'
<1> DEFINE S == StreamsUsed \cup {x}
<1>1. IsFiniteSet(S) /\ Cardinality(S) <= Cardinality(StreamsUsed) + 1 /\ Cardinality(StreamsUsed) \in Nat
      /\ Cardinality(S) \in Nat
  <2>1. IsFiniteSet(S) /\ (Cardinality(S) = Cardinality(StreamsUsed) \/ Cardinality(S) = Cardinality(StreamsUsed) + 1)
    BY StreamsFinite, FS_AddElement
  <2>2. QED
    BY <2>1, StreamsFinite, FS_CardinalityType
<1>2. Cardinality(StreamsUsed') <= Cardinality(S) /\ Cardinality(StreamsUsed') \in Nat
  BY <1>1, FS_Subset, FS_CardinalityType
<1>3. QED
  BY <1>1, <1>2 DEF StreamInv, TypeInv

-----------------------------------------------------------------------------
(* What the steps do to the call *)

\* Streams that are in use before are the only ones after.
LEMMA NoNewStream ==
  ASSUME TypeInv, TypeInv', StreamInv, calls' = calls, NEW t \in Tasks,
         \A u \in Tasks \ {t} : call'[u] = call[u],
         call'[t].data \in {0, call[t].data} \cup StreamsUsed,
         \A n \in Used(table)' : table'[n].FirstBlock \in {0, call[t].data}
                                 \/ (n \in Used(table) /\ table'[n].FirstBlock = table[n].FirstBlock)
  PROVE  StreamInv'
<1>1. StreamsUsed' \subseteq StreamsUsed
  <2>1. SUFFICES ASSUME NEW x \in StreamsUsed' PROVE x \in StreamsUsed
    OBVIOUS
  <2>2. x \in Streams \ {0}
    BY DEF StreamsUsed
  <2>3. CASE \E n \in Used(table)' : table'[n].FirstBlock = x
    BY <2>2, <2>3 DEF StreamsUsed
  <2>4. CASE \E u \in Tasks : call'[u].data = x
    <3>1. PICK u \in Tasks : call'[u].data = x
      BY <2>4
    <3>2. CASE u = t
      BY <2>2, <3>1, <3>2 DEF StreamsUsed
    <3>3. CASE u # t
      BY <2>2, <3>1, <3>3 DEF StreamsUsed
    <3>4. QED
      BY <3>2, <3>3
  <2>5. QED
    BY <2>3, <2>4 DEF StreamsUsed
<1>2. QED
  BY <1>1, StreamsStay

LEMMA NewCall ==
  ASSUME TypeInv, NEW t \in Tasks, NEW c \in Calls, call' = [call EXCEPT ![t] = c]
  PROVE  /\ call' \in [Tasks -> Calls] /\ call'[t] = c
         /\ \A u \in Tasks \ {t} : call'[u] = call[u]
  BY DEF TypeInv

PCs == {"idle", "prealloc", "preextend", "alloc", "extend", "retry", "write", "unwind",
        "drop", "free", "move", "inplace"}

LEMMA NoCallType ==
  ASSUME StructInv, TypeInv
  PROVE  /\ NoCall \in Calls
         /\ NoCall.op = "none" /\ NoCall.pc = "idle" /\ NoCall.locks = {} /\ NoCall.dir = 0
         /\ NoCall.data = 0 /\ NoCall.src = 0 /\ NoCall.entries = <<>> /\ NoCall.written = 0
         /\ NoCall.chain = <<>> /\ NoCall.name \in Names /\ NoCall.old \in Names /\ NoCall.kind = "file"
<1>1. hash[0].Name \in Names
  BY HashFacts DEF StructInv, DOS
<1>2. (CHOOSE m \in Names : TRUE) \in Names
  BY <1>1
<1>3. 0 \in DirNos /\ 0 \in Streams /\ 0 \in 0 .. NameSpaceCount /\ <<>> \in Seq(DirNos) /\ {} \in SUBSET DirNos
  BY DirNosSize, Constants, EmptyFacts DEF Streams
<1>4. NoCall \in Calls
  BY <1>2, <1>3 DEF NoCall, Calls
<1>5. QED
  BY <1>2, <1>4 DEF NoCall

LEMMA ReturnEffect ==
  ASSUME StructInv, TypeInv, NEW t \in Tasks, Return(t)
  PROVE  /\ call' \in [Tasks -> Calls] /\ call'[t] = NoCall
         /\ \A u \in Tasks \ {t} : call'[u] = call[u]
  BY NoCallType, NewCall DEF Return

LEMMA GotoEffect ==
  ASSUME TypeInv, NEW t \in Tasks, NEW p \in PCs, Goto(t, p)
  PROVE  /\ call' \in [Tasks -> Calls]
         /\ \A u \in Tasks \ {t} : call'[u] = call[u]
         /\ call'[t].op = call[t].op /\ call'[t].pc = p /\ call'[t].locks = call[t].locks
         /\ call'[t].dir = call[t].dir /\ call'[t].name = call[t].name /\ call'[t].old = call[t].old
         /\ call'[t].kind = call[t].kind /\ call'[t].data = call[t].data /\ call'[t].src = call[t].src
         /\ call'[t].entries = call[t].entries /\ call'[t].written = call[t].written
         /\ call'[t].chain = call[t].chain
<1> DEFINE d == [call[t] EXCEPT !.pc = p]
<1>1. call[t] \in Calls
  BY DEF TypeInv
<1>2. d \in Calls /\ d.op = call[t].op /\ d.pc = p /\ d.locks = call[t].locks
         /\ d.dir = call[t].dir /\ d.name = call[t].name /\ d.old = call[t].old
         /\ d.kind = call[t].kind /\ d.data = call[t].data /\ d.src = call[t].src
         /\ d.entries = call[t].entries /\ d.written = call[t].written
         /\ d.chain = call[t].chain
  BY <1>1 DEF Calls, PCs
<1>3. call' = [call EXCEPT ![t] = d]
  BY DEF Goto, TypeInv
<1> HIDE DEF d
<1>4. QED
  BY <1>2, <1>3, NewCall

LEMMA CreateEffect ==
  ASSUME StructInv, TypeInv, StreamInv, NEW t \in Tasks, NEW d \in Directories, NEW m \in Names,
         NEW k \in {"dir", "file"}, Create(t, d, m, k)
  PROVE  /\ TypeInv'
         /\ \A u \in Tasks \ {t} : call'[u] = call[u]
         /\ call'[t].op = "create" /\ call'[t].pc = (IF k = "dir" THEN "prealloc" ELSE "alloc")
         /\ call'[t].locks = {d} /\ call'[t].dir = d /\ call'[t].name = m /\ call'[t].kind = k
         /\ call'[t].data = (IF k = "dir" THEN 0 ELSE UnusedStream) /\ call'[t].src = 0
         /\ call'[t].entries = <<>> /\ call'[t].written = 0 /\ call'[t].chain = <<>>
<1> DEFINE c == [NoCall EXCEPT !.op = "create", !.pc = IF k = "dir" THEN "prealloc" ELSE "alloc",
                             !.locks = {d}, !.dir = d, !.name = m, !.kind = k,
                             !.data = IF k = "dir" THEN 0 ELSE UnusedStream]
<1>1. Begin(t, c)
  BY DEF Create
<1>2. UnusedStream \in Streams /\ 0 \in Streams
  BY <1>1, StreamLeft, Constants DEF Begin, Streams
<1>3. d \in DirNos
  BY DEF Directories, TypeInv
<1>4. /\ c \in Calls /\ c.op = "create" /\ c.pc = (IF k = "dir" THEN "prealloc" ELSE "alloc")
      /\ c.locks = {d} /\ c.dir = d /\ c.name = m /\ c.kind = k
      /\ c.data = (IF k = "dir" THEN 0 ELSE UnusedStream) /\ c.src = 0
      /\ c.entries = <<>> /\ c.written = 0 /\ c.chain = <<>>
  BY <1>2, <1>3, NoCallType DEF Calls
<1> HIDE DEF c
<1>5. call' \in [Tasks -> Calls] /\ call'[t] = c /\ \A u \in Tasks \ {t} : call'[u] = call[u]
  BY <1>1, <1>4, NewCall DEF Begin
<1>6. TypeInv'
  BY <1>1, <1>5 DEF Begin, TypeInv
<1>7. QED
  BY <1>4, <1>5, <1>6

LEMMA RemoveEffect ==
  ASSUME StructInv, TypeInv, NEW t \in Tasks, NEW d \in Directories, NEW m \in Names, Remove(t, d, m)
  PROVE  \E n \in Entries(d, m) :
         /\ MayEnter(d) /\ (hash[n].Kind = "dir" => MayEnter(n))
         /\ TypeInv' /\ UNCHANGED <<table, ending, owner, bits, hash, errors, orphaned>>
         /\ call[t].pc = "idle" /\ calls' = calls + 1
         /\ \A u \in Tasks \ {t} : call'[u] = call[u]
         /\ call'[t].op = "remove" /\ call'[t].pc = "drop"
         /\ call'[t].locks = (IF hash[n].Kind = "dir" THEN {d, n} ELSE {d})
         /\ call'[t].data = 0 /\ call'[t].src = 0 /\ call'[t].kind = "file"
         /\ call'[t].entries = <<>> /\ call'[t].written = 0 /\ call'[t].chain = NameSpaceList(n)
<1>1. PICK n \in Entries(d, m) :
        /\ MayEnter(d) /\ (hash[n].Kind = "dir" => MayEnter(n))
        /\ Begin(t, [NoCall EXCEPT !.op = "remove", !.pc = "drop",
                               !.locks = IF hash[n].Kind = "dir" THEN {d, n} ELSE {d},
                               !.chain = NameSpaceList(n)])
  BY DEF Remove
<1> DEFINE c == [NoCall EXCEPT !.op = "remove", !.pc = "drop",
                               !.locks = IF hash[n].Kind = "dir" THEN {d, n} ELSE {d},
                               !.chain = NameSpaceList(n)]
<1>2. d \in DirNos /\ n \in DOMAIN hash /\ n \in DirNos
  BY DEF Directories, TypeInv, Entries
<1>3. NameSpaceList(n) \in Seq(DirNos)
  BY <1>2, ListFacts
<1>4. /\ c \in Calls /\ c.op = "remove" /\ c.pc = "drop"
      /\ c.locks = (IF hash[n].Kind = "dir" THEN {d, n} ELSE {d})
      /\ c.data = 0 /\ c.src = 0 /\ c.kind = "file"
      /\ c.entries = <<>> /\ c.written = 0 /\ c.chain = NameSpaceList(n)
  <2>1. (IF hash[n].Kind = "dir" THEN {d, n} ELSE {d}) \in SUBSET DirNos
    BY <1>2
  <2>2. QED
    BY <1>3, <2>1, NoCallType DEF Calls
<1>5. Begin(t, c)
  BY <1>1
<1> HIDE DEF c
<1>6. call' \in [Tasks -> Calls] /\ call'[t] = c /\ \A u \in Tasks \ {t} : call'[u] = call[u]
  BY <1>4, <1>5, NewCall DEF Begin
<1>7. TypeInv'
  BY <1>5, <1>6 DEF Begin, TypeInv
<1>8. call[t].pc = "idle" /\ calls' = calls + 1 /\ UNCHANGED <<table, ending, owner, bits, hash, errors, orphaned>>
  BY <1>5 DEF Begin
<1>9. QED
  BY <1>1, <1>4, <1>6, <1>7, <1>8

LEMMA RenameEffect ==
  ASSUME StructInv, TypeInv, NEW t \in Tasks, NEW d \in Directories, NEW m \in Names,
         NEW from \in Directories, NEW old \in Names, Rename(t, from, old, d, m)
  PROVE  \E n \in Entries(from, old) :
         LET target == Entries(d, m)
             dirs == {x \in target : hash[x].Kind = "dir"}
             x == CHOOSE y \in target : TRUE
         IN
         /\ \A y \in {from, d} \cup dirs : MayEnter(y)
         /\ n # d /\ n \notin target
         /\ TypeInv' /\ UNCHANGED <<table, ending, owner, bits, hash, errors, orphaned>>
         /\ call[t].pc = "idle" /\ calls' = calls + 1
         /\ \A u \in Tasks \ {t} : call'[u] = call[u]
         /\ call'[t].op = "rename" /\ call'[t].pc = (IF target = {} THEN "move" ELSE "drop")
         /\ call'[t].locks = {from, d} \cup dirs /\ call'[t].dir = d /\ call'[t].name = m
         /\ call'[t].kind = hash[n].Kind /\ call'[t].src = n /\ call'[t].data = 0
         /\ call'[t].entries = <<>> /\ call'[t].written = 0
         /\ call'[t].chain = (IF target = {} THEN <<>> ELSE NameSpaceList(x))
         /\ target # {} => x \in target
<1> DEFINE target == Entries(d, m)
           dirs == {x \in target : hash[x].Kind = "dir"}
           x == CHOOSE y \in target : TRUE
<1>1. PICK n \in Entries(from, old) :
        /\ \A y \in {from, d} \cup dirs : MayEnter(y)
        /\ n # d /\ n \notin target
        /\ Begin(t, [NoCall EXCEPT !.op = "rename", !.pc = IF target = {} THEN "move" ELSE "drop",
                                  !.locks = {from, d} \cup dirs, !.dir = d, !.name = m,
                                  !.old = old, !.kind = hash[n].Kind, !.src = n,
                                  !.chain = IF target = {} THEN <<>> ELSE NameSpaceList(x)])
  BY DEF Rename
<1> DEFINE c == [NoCall EXCEPT !.op = "rename", !.pc = IF target = {} THEN "move" ELSE "drop",
                                  !.locks = {from, d} \cup dirs, !.dir = d, !.name = m,
                                  !.old = old, !.kind = hash[n].Kind, !.src = n,
                                  !.chain = IF target = {} THEN <<>> ELSE NameSpaceList(x)]
<1>2. /\ d \in DirNos /\ from \in DirNos /\ n \in DOMAIN hash /\ n \in DirNos
      /\ target \subseteq DOMAIN hash /\ target \subseteq DirNos
  BY DEF Directories, TypeInv, Entries
<1>3. target # {} => x \in target /\ NameSpaceList(x) \in Seq(DirNos)
  <2>1. target # {} => x \in target
    OBVIOUS
  <2>2. QED
    BY <1>2, <2>1, ListFacts
<1>0. Begin(t, c)
  BY <1>1
<1>4. /\ c \in Calls /\ c.op = "rename" /\ c.pc = (IF target = {} THEN "move" ELSE "drop")
      /\ c.locks = {from, d} \cup dirs /\ c.dir = d /\ c.name = m
      /\ c.kind = hash[n].Kind /\ c.src = n /\ c.data = 0
      /\ c.entries = <<>> /\ c.written = 0
      /\ c.chain = (IF target = {} THEN <<>> ELSE NameSpaceList(x))
  <2> DEFINE l == {from, d} \cup dirs
             s == IF target = {} THEN <<>> ELSE NameSpaceList(x)
  <2>1. l \in SUBSET DirNos
    BY <1>2
  <2>2. s \in Seq(DirNos)
    BY <1>3, EmptyFacts
  <2>3. hash[n].Kind \in {"dir", "file"}
    BY <1>2, HashFacts
  <2>4. c = [NoCall EXCEPT !.op = "rename", !.pc = IF target = {} THEN "move" ELSE "drop",
                           !.locks = l, !.dir = d, !.name = m,
                           !.old = old, !.kind = hash[n].Kind, !.src = n, !.chain = s]
    OBVIOUS
  <2> HIDE DEF l, s, c, target, x
  <2>5. QED
    BY <1>2, <2>1, <2>2, <2>3, <2>4, NoCallType DEF Calls, l, s
<1> HIDE DEF c
<1>6. call' \in [Tasks -> Calls] /\ call'[t] = c /\ \A u \in Tasks \ {t} : call'[u] = call[u]
  BY <1>0, <1>4, NewCall DEF Begin
<1>7. TypeInv'
  BY <1>0, <1>6 DEF Begin, TypeInv
<1>8. call[t].pc = "idle" /\ calls' = calls + 1 /\ UNCHANGED <<table, ending, owner, bits, hash, errors, orphaned>>
  BY <1>0 DEF Begin
<1>9. QED
  BY <1>1, <1>3, <1>4, <1>6, <1>7, <1>8

-----------------------------------------------------------------------------
(* The beginning of a call *)

LEMMA IdleFacts ==
  ASSUME TypeInv, StructInv, NEW t \in Tasks, call[t].pc = "idle"
  PROVE  /\ call[t] = NoCall /\ Entry(t) = {} /\ Chain(t) = {} /\ Claims(t) = {}
         /\ call[t].locks = {} /\ call[t].data = 0
<1>1. call[t] = NoCall
  BY DEF StructInv, TaskOK, CallOK
<1>2. QED
  BY <1>1, NoCallType, EmptyFacts DEF Entry, Chain, Claims

\* Who is at rest, as a call is when it returns.
LEMMA RestingOK ==
  ASSUME TypeInv, StructInv, NEW t \in Tasks, call'[t] = NoCall
  PROVE  TaskOK(t)' /\ Entry(t)' = {} /\ Chain(t)' = {} /\ Claims(t)' = {}
<1>1. Entry(t)' = {} /\ Chain(t)' = {} /\ Claims(t)' = {}
  BY NoCallType, EmptyFacts DEF Entry, Chain, Claims
<1>2. CallOK(call[t])'
  BY NoCallType, EmptyFacts DEF CallOK, Making, Deleting
<1>3. EntriesOK(t)' /\ ChainOK(t)' /\ SrcOK(t)'
  BY <1>1, NoCallType DEF EntriesOK, ChainOK, SrcOK, Making
<1>4. QED
  BY <1>1, <1>2, <1>3 DEF TaskOK

LEMMA CreateStruct ==
  ASSUME Inv, StreamInv, NEW t \in Tasks, NEW d \in Directories, NEW m \in Names,
         NEW k \in {"dir", "file"}, Create(t, d, m, k)
  PROVE  TypeInv' /\ StructInv' /\ StreamInv'
<1>1. /\ TypeInv'
      /\ \A u \in Tasks \ {t} : call'[u] = call[u]
      /\ call'[t].op = "create" /\ call'[t].pc = (IF k = "dir" THEN "prealloc" ELSE "alloc")
      /\ call'[t].locks = {d} /\ call'[t].dir = d /\ call'[t].name = m /\ call'[t].kind = k
      /\ call'[t].data = (IF k = "dir" THEN 0 ELSE UnusedStream) /\ call'[t].src = 0
      /\ call'[t].entries = <<>> /\ call'[t].written = 0 /\ call'[t].chain = <<>>
  BY CreateEffect DEF Inv
<1>2. /\ MayEnter(d) /\ call[t].pc = "idle" /\ calls' = calls + 1
      /\ UNCHANGED <<table, ending, owner, bits, hash, errors, orphaned>>
  BY DEF Create, Begin
<1>3. Entry(t)' = {} /\ Chain(t)' = {} /\ Claims(t)' = {} /\ Entry(t) = {}
  BY <1>1, <1>2, EmptyFacts, IdleFacts DEF Entry, Chain, Claims, Inv
<1>4. TaskOK(t)'
  <2>1. CallOK(call[t])'
    BY <1>1, EmptyFacts, Constants DEF CallOK, Making, Deleting
  <2>2. EntriesOK(t)' /\ ChainOK(t)' /\ SrcOK(t)'
    BY <1>1, <1>3 DEF EntriesOK, ChainOK, SrcOK, Making
  <2>3. QED
    BY <1>3, <2>1, <2>2 DEF TaskOK
<1>5. \A u \in Tasks \ {t} : Claims(t)' \cap Claims(u) = {} /\ call'[t].locks \cap call[u].locks = {}
  BY <1>1, <1>2, <1>3 DEF MayEnter, Locked
<1>6. StructInv'
  BY <1>1, <1>2, <1>3, <1>4, <1>5, CallStep DEF Inv
<1>7. StreamInv'
  <2>1. StreamsUsed' \subseteq StreamsUsed \cup {UnusedStream}
    BY <1>1, <1>2 DEF StreamsUsed, Used
  <2>2. QED
    BY <1>1, <1>2, <2>1, StreamAdded DEF Inv
<1>8. QED
  BY <1>1, <1>6, <1>7

LEMMA EntriesFacts ==
  ASSUME TypeInv, StructInv, NEW d, NEW m, NEW n \in Entries(d, m)
  PROVE  /\ n \in DOS /\ n # 0 /\ n \in DOMAIN hash /\ hash[n].Parent = d /\ hash[n].Name = m
         /\ ListOK(n) /\ 0 \notin List(n)
         /\ NameSpaceList(n) \in Seq(DirNos) /\ NameSpaceList(n) # <<>>
         /\ Head(NameSpaceList(n)) = n /\ Distinct(NameSpaceList(n))
         /\ \A u \in Tasks : d \notin call[u].locks => List(n) \cap Claims(u) = {}
<1>1. n \in DOS /\ n # 0 /\ n \in DOMAIN hash /\ hash[n].Parent = d /\ hash[n].Name = m
  BY DEF Entries, DOS
<1>2. ListOK(n) /\ Linked(n) /\ 0 \in DOS
  BY <1>1 DEF StructInv, ListOK
<1>3. 0 \notin List(n) /\ Distinct(NameSpaceList(n))
  BY <1>1, <1>2, LinkedFacts
<1>4. NameSpaceList(n) \in Seq(DirNos) /\ NameSpaceList(n) # <<>> /\ Head(NameSpaceList(n)) = n
  BY <1>1, ListFacts
<1>5. \A u \in Tasks : d \notin call[u].locks => List(n) \cap Claims(u) = {}
  BY <1>1, <1>2 DEF ListOK
<1>6. QED
  BY <1>1, <1>2, <1>3, <1>4, <1>5

LEMMA RemoveStruct ==
  ASSUME Inv, StreamInv, NEW t \in Tasks, NEW d \in Directories, NEW m \in Names, Remove(t, d, m)
  PROVE  TypeInv' /\ StructInv' /\ StreamInv'
<1>1. PICK n \in Entries(d, m) :
         /\ MayEnter(d) /\ (hash[n].Kind = "dir" => MayEnter(n))
         /\ TypeInv' /\ UNCHANGED <<table, ending, owner, bits, hash, errors, orphaned>>
         /\ call[t].pc = "idle" /\ calls' = calls + 1
         /\ \A u \in Tasks \ {t} : call'[u] = call[u]
         /\ call'[t].op = "remove" /\ call'[t].pc = "drop"
         /\ call'[t].locks = (IF hash[n].Kind = "dir" THEN {d, n} ELSE {d})
         /\ call'[t].data = 0 /\ call'[t].src = 0 /\ call'[t].kind = "file"
         /\ call'[t].entries = <<>> /\ call'[t].written = 0 /\ call'[t].chain = NameSpaceList(n)
  BY RemoveEffect DEF Inv
<1>2. /\ n \in DOS /\ n # 0 /\ hash[n].Parent = d /\ 0 \notin List(n)
      /\ NameSpaceList(n) # <<>> /\ Head(NameSpaceList(n)) = n /\ Distinct(NameSpaceList(n))
      /\ \A u \in Tasks : d \notin call[u].locks => List(n) \cap Claims(u) = {}
  BY EntriesFacts DEF Inv
<1>3. Entry(t)' = {} /\ Chain(t)' = List(n) /\ Claims(t)' = List(n) /\ Entry(t) = {}
  BY <1>1, EmptyFacts, IdleFacts DEF Entry, Chain, Claims, List, Inv
<1>4. TaskOK(t)'
  <2>1. CallOK(call[t])'
    BY <1>1, <1>2, EmptyFacts DEF CallOK, Making, Deleting
  <2>2. Whole(t)'
    BY <1>1, <1>2 DEF Whole, DOS, NameSpaceList
  <2>3. EntriesOK(t)' /\ ChainOK(t)' /\ SrcOK(t)'
    BY <1>1, <1>3, <2>2 DEF EntriesOK, ChainOK, SrcOK, Making
  <2>4. QED
    BY <1>2, <1>3, <2>1, <2>3 DEF TaskOK
<1>5. ASSUME NEW u \in Tasks \ {t} PROVE Claims(t)' \cap Claims(u) = {} /\ call'[t].locks \cap call[u].locks = {}
  BY <1>1, <1>2, <1>3 DEF MayEnter, Locked
<1>6. \A k \in DOS : List(k) \cap Claims(t)' # {} => hash[k].Parent \in call'[t].locks
  BY <1>1, <1>2, <1>3, ListsApart DEF Inv
<1>7. StructInv'
  BY <1>1, <1>3, <1>4, <1>5, <1>6, CallStep DEF Inv
<1>8. StreamInv'
  <2>1. StreamsUsed' \subseteq StreamsUsed \cup {0}
    BY <1>1 DEF StreamsUsed, Used
  <2>2. QED
    BY <1>1, <2>1, StreamAdded DEF Inv
<1>9. QED
  BY <1>1, <1>7, <1>8

LEMMA RenameStruct ==
  ASSUME Inv, StreamInv, NEW t \in Tasks, NEW d \in Directories, NEW m \in Names,
         NEW from \in Directories, NEW old \in Names, Rename(t, from, old, d, m)
  PROVE  TypeInv' /\ StructInv' /\ StreamInv'
<1> DEFINE target == Entries(d, m)
           dirs == {y \in target : hash[y].Kind = "dir"}
           x == CHOOSE y \in target : TRUE
<1>1. PICK n \in Entries(from, old) :
         /\ \A y \in {from, d} \cup dirs : MayEnter(y)
         /\ n # d /\ n \notin target
         /\ TypeInv' /\ UNCHANGED <<table, ending, owner, bits, hash, errors, orphaned>>
         /\ call[t].pc = "idle" /\ calls' = calls + 1
         /\ \A u \in Tasks \ {t} : call'[u] = call[u]
         /\ call'[t].op = "rename" /\ call'[t].pc = (IF target = {} THEN "move" ELSE "drop")
         /\ call'[t].locks = {from, d} \cup dirs /\ call'[t].dir = d /\ call'[t].name = m
         /\ call'[t].kind = hash[n].Kind /\ call'[t].src = n /\ call'[t].data = 0
         /\ call'[t].entries = <<>> /\ call'[t].written = 0
         /\ call'[t].chain = (IF target = {} THEN <<>> ELSE NameSpaceList(x))
         /\ target # {} => x \in target
  BY RenameEffect DEF Inv
<1> HIDE DEF x
<1>2. n \in DOS /\ n # 0 /\ hash[n].Parent = from
  BY EntriesFacts DEF Inv
<1>3. target # {} =>
         /\ x \in DOS /\ x # 0 /\ hash[x].Parent = d /\ 0 \notin List(x) /\ x # n
         /\ NameSpaceList(x) # <<>> /\ Head(NameSpaceList(x)) = x /\ Distinct(NameSpaceList(x))
         /\ \A u \in Tasks : d \notin call[u].locks => List(x) \cap Claims(u) = {}
  BY <1>1, EntriesFacts DEF Inv
<1>4. Entry(t)' = {} /\ Chain(t)' = (IF target = {} THEN {} ELSE List(x)) /\ Claims(t)' = Chain(t)' /\ Entry(t) = {}
  BY <1>1, EmptyFacts, IdleFacts DEF Entry, Chain, Claims, List, Inv
<1> HIDE DEF target
<1>5. TaskOK(t)'
  <2>1. CallOK(call[t])'
    BY <1>1, <1>2, <1>3, EmptyFacts DEF CallOK, Making, Deleting
  <2>2. target # {} => Whole(t)'
    BY <1>1, <1>3 DEF Whole, DOS, NameSpaceList
  <2>3. SrcOK(t)'
    <3>1. target # {} => List(n) \cap List(x) = {}
      BY <1>2, <1>3, ListsApart DEF Inv
    <3>2. List(n)' = List(n) /\ n \in DOS'
      BY <1>1, <1>2 DEF List, NameSpaceList, DOS
    <3>3. QED
      BY <1>1, <1>2, <1>4, <3>1, <3>2 DEF SrcOK, Deleting
  <2>4. EntriesOK(t)' /\ ChainOK(t)'
    BY <1>1, <1>4, <2>2 DEF EntriesOK, ChainOK, Making
  <2>5. QED
    BY <1>3, <1>4, <2>1, <2>3, <2>4 DEF TaskOK
<1>6. ASSUME NEW u \in Tasks \ {t} PROVE Claims(t)' \cap Claims(u) = {} /\ call'[t].locks \cap call[u].locks = {}
  BY <1>1, <1>3, <1>4 DEF MayEnter, Locked
<1>7. \A k \in DOS : List(k) \cap Claims(t)' # {} => hash[k].Parent \in call'[t].locks
  BY <1>1, <1>3, <1>4, ListsApart DEF Inv
<1>8. StructInv'
  BY <1>1, <1>4, <1>5, <1>6, <1>7, CallStep DEF Inv
<1>9. StreamInv'
  <2>1. StreamsUsed' \subseteq StreamsUsed \cup {0}
    BY <1>1 DEF StreamsUsed, Used
  <2>2. QED
    BY <1>1, <2>1, StreamAdded DEF Inv
<1>10. QED
  BY <1>1, <1>8, <1>9

-----------------------------------------------------------------------------
(* Allocation, and the steps that only end a call or a part of one *)

LEMMA DirectoryGrows ==
  ASSUME Inv, ending + BlocksPerCluster <= MaxBlocks
  PROVE  ending + BlocksPerCluster \in 1 .. MaxBlocks
<1>1. ending \in 1 .. MaxBlocks
  BY DEF Inv, TypeInv
<1>2. QED
  BY <1>1, Constants

\* A call that makes an entry goes from one place of the allocation to another.
LEMMA AllocationGoes ==
  ASSUME Inv, StreamInv, NEW t \in Tasks, NEW p \in PCs, Goto(t, p),
         UNCHANGED <<table, owner, bits, hash, calls, errors, orphaned>>, ending' \in 1 .. MaxBlocks,
         call[t].pc \in Making \ {"write", "unwind"}, p \in Making \ {"write", "prealloc"},
         p = "preextend" => call[t].pc = "prealloc"
  PROVE  TypeInv' /\ StructInv' /\ StreamInv'
<1>1. /\ call' \in [Tasks -> Calls]
      /\ \A u \in Tasks \ {t} : call'[u] = call[u]
      /\ call'[t].op = call[t].op /\ call'[t].pc = p /\ call'[t].locks = call[t].locks
      /\ call'[t].dir = call[t].dir /\ call'[t].name = call[t].name /\ call'[t].old = call[t].old
      /\ call'[t].kind = call[t].kind /\ call'[t].data = call[t].data /\ call'[t].src = call[t].src
      /\ call'[t].entries = call[t].entries /\ call'[t].written = call[t].written
      /\ call'[t].chain = call[t].chain
  BY GotoEffect DEF Inv
<1>2. TypeInv'
  BY <1>1 DEF Inv, TypeInv
<1>3. Entry(t)' = Entry(t) /\ Chain(t)' = Chain(t) /\ Claims(t)' = Claims(t)
  BY <1>1 DEF Entry, Chain, Claims
<1>4. TaskOK(t) /\ CallOK(call[t]) /\ call[t] \in Calls
  BY CallFacts DEF Inv, StructInv, TaskOK
<1>5. CallOK(call[t])'
  <2>1. Len(<<>>) < K
    BY Constants
  <2>2. call[t].entries = <<>> \/ Len(call[t].entries) < K
    BY <1>4 DEF CallOK, Making
  <2>3. Len(call[t].entries) < K
    BY <2>1, <2>2
  <2>4. QED
    BY <1>1, <1>4, <2>3 DEF CallOK, Making, PCs
<1>6. EntriesOK(t)' /\ ChainOK(t)' /\ SrcOK(t)'
  <2>1. EntriesOK(t)'
    BY <1>1, <1>3, <1>4 DEF TaskOK, EntriesOK
  <2>2. Whole(t) => Whole(t)'
    BY <1>1 DEF Whole, DOS, NameSpaceList
  <2>3. ChainOK(t)'
    BY <1>1, <1>4, <2>2 DEF TaskOK, ChainOK, Making
  <2>4. SrcOK(t)'
    BY <1>1, <1>4 DEF SrcOK, CallOK
  <2>5. QED
    BY <2>1, <2>3, <2>4
<1>7. TaskOK(t)'
  BY <1>3, <1>4, <1>5, <1>6 DEF TaskOK
<1>8. StructInv'
  BY <1>1, <1>2, <1>3, <1>7, FewerClaims DEF Inv
<1>9. StreamInv'
  BY <1>1, <1>2, NoNewStream DEF Inv, Used
<1>10. QED
  BY <1>2, <1>8, <1>9

LEMMA AllocationMoves ==
  ASSUME Inv, StreamInv, NEW t \in Tasks,
         PreAllocate(t) \/ DirectoryFull(t) \/ ExtendDirectory(t) \/ ExtendFails(t) \/ ExtensionTaken(t)
  PROVE  TypeInv' /\ StructInv' /\ StreamInv'
<1>0. ending \in 1 .. MaxBlocks
  BY DEF Inv, TypeInv
<1>1. CASE PreAllocate(t)
  <2>1. PICK p \in {"alloc", "preextend"} : Goto(t, p)
    BY <1>1 DEF PreAllocate
  <2>2. QED
    BY <1>0, <1>1, <2>1, AllocationGoes DEF PreAllocate, Making, PCs
<1>2. CASE DirectoryFull(t)
  <2>1. Goto(t, "extend")
    BY <1>2 DEF DirectoryFull
  <2>2. QED
    BY <1>0, <1>2, <2>1, AllocationGoes DEF DirectoryFull, Making, PCs
<1>3. CASE ExtendDirectory(t)
  <2>1. PICK p \in {"alloc", "retry"} : Goto(t, p)
    BY <1>3 DEF ExtendDirectory
  <2>2. ending' \in 1 .. MaxBlocks
    BY <1>3, DirectoryGrows DEF ExtendDirectory
  <2>3. QED
    BY <1>3, <2>1, <2>2, AllocationGoes DEF ExtendDirectory, Making, PCs
<1>4. CASE ExtendFails(t)
  <2>1. Goto(t, "unwind")
    BY <1>4 DEF ExtendFails
  <2>2. QED
    BY <1>0, <1>4, <2>1, AllocationGoes DEF ExtendFails, Making, PCs
<1>5. CASE ExtensionTaken(t)
  <2>1. Goto(t, "unwind")
    BY <1>5 DEF ExtensionTaken
  <2>2. QED
    BY <1>0, <1>5, <2>1, AllocationGoes DEF ExtensionTaken, Making, PCs
<1>6. QED
  BY <1>1, <1>2, <1>3, <1>4, <1>5

\* The record an allocation takes was free.
LEMMA OpenFacts ==
  ASSUME TypeInv, NEW parent, NEW b \in Open(parent)
  PROVE  /\ b \in Blocks /\ b < ending /\ b \in Nat /\ owner[b] = parent
         /\ LowestFree(b) \in DirNos \ bits /\ BlockOf(LowestFree(b)) = b
<1>1. b \in 0 .. ending - 1 /\ owner[b] = parent /\ FreeIn(b) # {}
  BY DEF Open
<1>2. FreeIn(b) \subseteq DirNos \ bits /\ \A n \in FreeIn(b) : BlockOf(n) = b
  BY DEF FreeIn, RecordsOf
<1>3. FreeIn(b) \subseteq Nat
  BY <1>2, DirNosSize
<1>4. \E n \in FreeIn(b) : \A m \in FreeIn(b) : n <= m
  BY <1>1, <1>3, LeastIn
<1>5. LowestFree(b) \in FreeIn(b)
  BY <1>4 DEF LowestFree
<1>6. b \in Blocks /\ b < ending /\ b \in Nat
  BY <1>1, Constants DEF TypeInv, Blocks
<1>7. QED
  BY <1>1, <1>2, <1>5, <1>6

\* What both ways to take a record have in common.
TakesFrom(t, b) ==
  /\ call[t].pc \in {"alloc", "retry"}
  /\ b \in Open(call[t].dir) \cup Open(FREE_NODE)
  /\ Taken(t, b, LowestFree(b))

LEMMA Takes ==
  ASSUME NEW t \in Tasks, AllocateDirectoryRecord(t) \/ TakeExtended(t)
  PROVE  \E b : TakesFrom(t, b)
<1>1. CASE AllocateDirectoryRecord(t)
  <2>1. PICK b \in (IF Open(call[t].dir) # {} THEN Open(call[t].dir) ELSE Open(FREE_NODE)) :
               Taken(t, b, LowestFree(b))
    BY <1>1 DEF AllocateDirectoryRecord
  <2>2. QED
    BY <1>1, <2>1 DEF AllocateDirectoryRecord, TakesFrom
<1>2. CASE TakeExtended(t)
  BY <1>2 DEF TakeExtended, TakesFrom
<1>3. QED
  BY <1>1, <1>2

LEMMA TakenEffect ==
  ASSUME Inv, NEW t \in Tasks, NEW b, TakesFrom(t, b)
  PROVE  LET n == LowestFree(b)
         IN /\ TypeInv' /\ b \in Blocks /\ b < ending
            /\ n \in DirNos \ bits /\ BlockOf(n) = b /\ owner[b] \in {call[t].dir, FREE_NODE}
            /\ bits' = bits \cup {n} /\ owner' = [owner EXCEPT ![b] = call[t].dir]
            /\ UNCHANGED <<table, ending, hash, calls, errors, orphaned>>
            /\ \A u \in Tasks \ {t} : call'[u] = call[u]
            /\ call'[t].op = call[t].op /\ call'[t].locks = call[t].locks
            /\ call'[t].dir = call[t].dir /\ call'[t].name = call[t].name /\ call'[t].old = call[t].old
            /\ call'[t].kind = call[t].kind /\ call'[t].data = call[t].data /\ call'[t].src = call[t].src
            /\ call'[t].entries = Append(call[t].entries, n) /\ call'[t].written = call[t].written
            /\ call'[t].chain = call[t].chain
            /\ call'[t].pc = (IF Len(call[t].entries) + 1 = K THEN "write" ELSE "alloc")
<1> DEFINE n == LowestFree(b)
           p == IF Len(call[t].entries) + 1 = K THEN "write" ELSE "alloc"
           d == [call[t] EXCEPT !.entries = Append(@, n), !.pc = p]
<1>1. /\ b \in Blocks /\ b < ending /\ n \in DirNos \ bits /\ BlockOf(n) = b
      /\ owner[b] \in {call[t].dir, FREE_NODE}
  BY OpenFacts DEF Inv, TakesFrom
<1>2. Taken(t, b, n)
  BY DEF TakesFrom
<1> HIDE DEF n
<1>3. call[t] \in Calls /\ call[t].entries \in Seq(DirNos) /\ call[t].dir \in DirNos
  BY CallFacts DEF Inv
<1>4. Append(call[t].entries, n) \in Seq(DirNos)
  BY <1>1, <1>3, Appended
<1>5. call' = [call EXCEPT ![t] = d]
  BY <1>2 DEF Taken, Inv, TypeInv, K
<1>6. /\ d \in Calls /\ d.op = call[t].op /\ d.pc = p /\ d.locks = call[t].locks
      /\ d.dir = call[t].dir /\ d.name = call[t].name /\ d.old = call[t].old
      /\ d.kind = call[t].kind /\ d.data = call[t].data /\ d.src = call[t].src
      /\ d.entries = Append(call[t].entries, n) /\ d.written = call[t].written /\ d.chain = call[t].chain
  BY <1>3, <1>4 DEF Calls
<1> HIDE DEF d, p
<1>7. call' \in [Tasks -> Calls] /\ call'[t] = d /\ \A u \in Tasks \ {t} : call'[u] = call[u]
  BY <1>5, <1>6, NewCall DEF Inv
<1>8. TypeInv'
  <2>1. owner' \in [Blocks -> DirNos \cup {FREE_NODE}]
    BY <1>1, <1>2, <1>3 DEF Taken, Inv, TypeInv
  <2>2. bits' \subseteq DirNos
    BY <1>1, <1>2 DEF Taken, Inv, TypeInv
  <2>3. QED
    BY <1>2, <1>7, <2>1, <2>2 DEF Taken, Inv, TypeInv
<1>9. QED
  BY <1>1, <1>2, <1>6, <1>7, <1>8 DEF Taken, n, p

LEMMA TakenStruct ==
  ASSUME Inv, StreamInv, NEW t \in Tasks, NEW b, TakesFrom(t, b)
  PROVE  TypeInv' /\ StructInv' /\ StreamInv'
<1> DEFINE n == LowestFree(b)
           c == call[t]
<1>1. /\ TypeInv'
      /\ n \in DirNos \ bits
      /\ UNCHANGED <<table, ending, hash, calls, errors, orphaned>>
      /\ \A u \in Tasks \ {t} : call'[u] = call[u]
      /\ call'[t].op = c.op /\ call'[t].locks = c.locks
      /\ call'[t].dir = c.dir /\ call'[t].name = c.name /\ call'[t].old = c.old
      /\ call'[t].kind = c.kind /\ call'[t].data = c.data /\ call'[t].src = c.src
      /\ call'[t].entries = Append(c.entries, n) /\ call'[t].written = c.written
      /\ call'[t].chain = c.chain
      /\ call'[t].pc = (IF Len(c.entries) + 1 = K THEN "write" ELSE "alloc")
  BY TakenEffect
<1> HIDE DEF n
<1>2. TaskOK(t) /\ CallOK(c) /\ c \in Calls /\ c.entries \in Seq(DirNos) /\ Len(c.entries) \in Nat
  BY CallFacts, SetOf DEF Inv, StructInv, TaskOK
<1>3. c.pc \in {"alloc", "retry"} /\ Len(c.entries) < K /\ c.written = 0 /\ c.op \in {"create", "rename"} /\ c.src = 0
  BY <1>2 DEF TakesFrom, CallOK, Making
<1>4. n \notin DOMAIN hash /\ n # 0 /\ \A u \in Tasks : n \notin Claims(u)
  <2>1. 0 \in DOMAIN hash
    BY DEF Inv, StructInv, DOS
  <2>2. QED
    BY <1>1, <2>1, InUse DEF Inv, Claims
<1>5. /\ Len(Append(c.entries, n)) = Len(c.entries) + 1
      /\ InSequence(Append(c.entries, n)) = InSequence(c.entries) \cup {n}
      /\ Distinct(c.entries) /\ n \notin InSequence(c.entries) => Distinct(Append(c.entries, n))
      /\ Append(c.entries, n) \in Seq(DirNos)
  BY <1>1, <1>2, Appended
<1>6. Entry(t)' = Entry(t) \cup {n} /\ Chain(t)' = Chain(t) /\ Claims(t)' = Claims(t) \cup {n}
  BY <1>1, <1>5 DEF Entry, Chain, Claims
<1>7. CallOK(call[t])'
  <2>1. Distinct(call'[t].entries)
    BY <1>1, <1>2, <1>4, <1>5 DEF CallOK, Claims, Entry
  <2>2. Len(call'[t].entries) = Len(c.entries) + 1 /\ Len(c.entries) + 1 <= K /\ K \in Nat /\ K > 0
    BY <1>1, <1>2, <1>3, <1>5, Constants
  <2>3. CASE Len(c.entries) + 1 = K
    BY <1>1, <1>2, <1>3, <2>1, <2>2, <2>3 DEF CallOK, Making
  <2>4. CASE Len(c.entries) + 1 # K
    BY <1>1, <1>2, <1>3, <2>1, <2>2, <2>4 DEF CallOK, Making
  <2>5. QED
    BY <2>3, <2>4
<1>8. EntriesOK(t)'
  <2>1. Entry(t)' \cap DOMAIN hash = {}
    BY <1>2, <1>3, <1>4, <1>6 DEF TaskOK, EntriesOK
  <2>2. CASE Len(c.entries) + 1 = K
    <3>1. \A i \in 1 .. K : call'[t].entries[i] \in Entry(t)' /\ ~(i <= c.written) /\ ~(c.written > 0)
      BY <1>1, <1>3, <1>5, <2>2, SetOf DEF Entry
    <3>2. QED
      BY <1>1, <1>3, <2>1, <2>2, <3>1 DEF EntriesOK
  <2>3. CASE Len(c.entries) + 1 # K
    BY <1>1, <2>1, <2>3 DEF EntriesOK
  <2>4. QED
    BY <2>2, <2>3
<1>9. ChainOK(t)' /\ SrcOK(t)'
  <2>1. Whole(t) => Whole(t)'
    BY <1>1 DEF Whole, DOS, NameSpaceList
  <2>2. call'[t].pc \in {"write", "alloc"}
    BY <1>1
  <2>3. ChainOK(t)'
    BY <1>1, <1>2, <1>3, <2>1, <2>2 DEF TaskOK, ChainOK, Making
  <2>4. SrcOK(t)'
    BY <1>1, <1>3 DEF SrcOK
  <2>5. QED
    BY <2>3, <2>4
<1>10. TaskOK(t)'
  <2>1. 0 \notin Claims(t)' /\ Entry(t)' \cap Chain(t)' = {}
    BY <1>2, <1>4, <1>6 DEF TaskOK, Claims
  <2>2. (Entry(t) \cap Chain(t) = {})'
    BY <2>1
  <2>3. QED
    BY <1>7, <1>8, <1>9, <2>1, <2>2 DEF TaskOK
<1>11. \A u \in Tasks \ {t} : Claims(t)' \cap Claims(u) = {} /\ call'[t].locks \cap call[u].locks = {}
  BY <1>1, <1>4, <1>6 DEF Inv, StructInv, Apart
<1>12. ASSUME NEW k \in DOS, List(k) \cap Claims(t)' # {} PROVE hash[k].Parent \in call'[t].locks
  <2>1. ListOK(k)
    BY DEF Inv, StructInv
  <2>2. n \notin List(k)
    BY <1>4, <2>1, LinkedFacts DEF Inv, ListOK
  <2>3. QED
    BY <1>1, <1>6, <1>12, <2>1, <2>2 DEF ListOK
<1>13. StructInv'
  BY <1>1, <1>6, <1>10, <1>11, <1>12, CallStep DEF Inv
<1>14. StreamInv'
  BY <1>1, NoNewStream DEF Inv, Used
<1>15. QED
  BY <1>1, <1>13, <1>14

\* A call that returns leaves nothing half made that is hashed.
LEMMA Returns ==
  ASSUME Inv, StreamInv, NEW t \in Tasks, Return(t), call[t].pc # "write",
         UNCHANGED <<table, ending, owner, bits, hash, calls, orphaned>>, errors' \in Nat
  PROVE  TypeInv' /\ StructInv' /\ StreamInv'
<1>1. call' \in [Tasks -> Calls] /\ call'[t] = NoCall /\ \A u \in Tasks \ {t} : call'[u] = call[u]
  BY ReturnEffect DEF Inv
<1>2. TypeInv'
  BY <1>1 DEF Inv, TypeInv
<1>3. TaskOK(t)' /\ Claims(t)' = {} /\ call'[t].locks = {} /\ call'[t].data = 0
  BY <1>1, RestingOK, NoCallType DEF Inv
<1>4. \A n \in DOS : n \notin Entry(t)
  BY DEF Inv, StructInv, TaskOK, EntriesOK, DOS
<1>5. StructInv'
  BY <1>1, <1>2, <1>3, <1>4, FewerClaims DEF Inv
<1>6. StreamInv'
  BY <1>1, <1>2, <1>3, NoNewStream DEF Inv, Used
<1>7. QED
  BY <1>2, <1>5, <1>6

LEMMA ReturnsStruct ==
  ASSUME Inv, StreamInv, NEW t \in Tasks, Unwound(t) \/ RefuseNotEmpty(t) \/ DeleteFails(t)
  PROVE  TypeInv' /\ StructInv' /\ StreamInv'
<1>1. errors \in Nat
  BY DEF Inv, TypeInv
<1>2. CASE Unwound(t)
  BY <1>1, <1>2, Returns DEF Unwound
<1>3. CASE RefuseNotEmpty(t)
  BY <1>1, <1>3, Returns DEF RefuseNotEmpty
<1>4. CASE DeleteFails(t)
  BY <1>1, <1>4, Returns DEF DeleteFails
<1>5. QED
  BY <1>2, <1>3, <1>4

\* The first record of the entry that is undone leaves the call.
LEMMA TailEffect ==
  ASSUME Inv, NEW t \in Tasks, call[t].entries # <<>>,
         call' = [call EXCEPT ![t].entries = Tail(@), ![t].written = 0]
  PROVE  /\ call' \in [Tasks -> Calls]
         /\ \A u \in Tasks \ {t} : call'[u] = call[u]
         /\ call'[t].op = call[t].op /\ call'[t].pc = call[t].pc /\ call'[t].locks = call[t].locks
         /\ call'[t].dir = call[t].dir /\ call'[t].name = call[t].name /\ call'[t].old = call[t].old
         /\ call'[t].kind = call[t].kind /\ call'[t].data = call[t].data /\ call'[t].src = call[t].src
         /\ call'[t].entries = Tail(call[t].entries) /\ call'[t].written = 0
         /\ call'[t].chain = call[t].chain
         /\ Entry(t) = Entry(t)' \cup {Head(call[t].entries)} /\ Chain(t)' = Chain(t)
         /\ Head(call[t].entries) \notin Entry(t)'
         /\ Head(call[t].entries) \in DirNos
<1> DEFINE e == Tail(call[t].entries)
           d == [call[t] EXCEPT !.entries = e, !.written = 0]
<1>1. call[t] \in Calls /\ call[t].entries \in Seq(DirNos) /\ Distinct(call[t].entries)
  BY CallFacts DEF Inv, StructInv, TaskOK, CallOK
<1>2. /\ Tail(call[t].entries) \in Seq(DirNos) /\ Head(call[t].entries) \in DirNos
      /\ InSequence(call[t].entries) = InSequence(Tail(call[t].entries)) \cup {Head(call[t].entries)}
      /\ Head(call[t].entries) \notin InSequence(Tail(call[t].entries))
  BY <1>1, TailOf
<1>3. call' = [call EXCEPT ![t] = d]
  BY DEF Inv, TypeInv
<1>4. /\ d \in Calls /\ d.op = call[t].op /\ d.pc = call[t].pc /\ d.locks = call[t].locks
      /\ d.dir = call[t].dir /\ d.name = call[t].name /\ d.old = call[t].old
      /\ d.kind = call[t].kind /\ d.data = call[t].data /\ d.src = call[t].src
      /\ d.entries = Tail(call[t].entries) /\ d.written = 0 /\ d.chain = call[t].chain
  <2>1. e \in Seq(DirNos) /\ 0 \in 0 .. NameSpaceCount
    BY <1>2, Constants
  <2>2. e = Tail(call[t].entries)
    OBVIOUS
  <2> HIDE DEF e
  <2>3. QED
    BY <1>1, <2>1, <2>2 DEF Calls
<1> HIDE DEF d
<1>5. call' \in [Tasks -> Calls] /\ call'[t] = d /\ \A u \in Tasks \ {t} : call'[u] = call[u]
  BY <1>3, <1>4, NewCall DEF Inv
<1>6. QED
  BY <1>2, <1>4, <1>5 DEF Entry, Chain

\* The call is still sound when the number is not hashed and the hashes stay.
LEMMA TailOK ==
  ASSUME Inv, NEW t \in Tasks, call[t].entries # <<>>, call[t].pc = "unwind",
         call' = [call EXCEPT ![t].entries = Tail(@), ![t].written = 0], hash' = hash
  PROVE  TaskOK(t)'
<1>1. /\ \A u \in Tasks \ {t} : call'[u] = call[u]
      /\ call'[t].op = call[t].op /\ call'[t].pc = call[t].pc /\ call'[t].locks = call[t].locks
      /\ call'[t].dir = call[t].dir /\ call'[t].name = call[t].name /\ call'[t].old = call[t].old
      /\ call'[t].kind = call[t].kind /\ call'[t].data = call[t].data /\ call'[t].src = call[t].src
      /\ call'[t].entries = Tail(call[t].entries) /\ call'[t].written = 0
      /\ call'[t].chain = call[t].chain
      /\ Entry(t) = Entry(t)' \cup {Head(call[t].entries)} /\ Chain(t)' = Chain(t)
  BY TailEffect
<1>2. TaskOK(t) /\ CallOK(call[t]) /\ call[t].entries \in Seq(DirNos)
  BY CallFacts DEF Inv, StructInv, TaskOK
<1>3. Distinct(Tail(call[t].entries))
  BY <1>2, TailOf DEF CallOK
<1>4. CallOK(call[t])'
  BY <1>1, <1>2, <1>3 DEF CallOK, Making
<1>5. Whole(t) => Whole(t)'
  BY <1>1 DEF Whole, DOS, NameSpaceList
<1>6. EntriesOK(t)' /\ SrcOK(t)'
  BY <1>1, <1>2 DEF TaskOK, EntriesOK, SrcOK, CallOK, Making
<1>7. ChainOK(t)'
  BY <1>1, <1>2, <1>5 DEF TaskOK, ChainOK, Making
<1>8. 0 \notin Claims(t)' /\ (Entry(t) \cap Chain(t) = {})'
  BY <1>1, <1>2 DEF TaskOK, Claims
<1>9. QED
  BY <1>4, <1>6, <1>7, <1>8 DEF TaskOK

LEMMA UnwindFailsStruct ==
  ASSUME Inv, StreamInv, NEW t \in Tasks, UnwindFails(t)
  PROVE  TypeInv' /\ StructInv' /\ StreamInv'
<1>1. /\ call[t].pc = "unwind" /\ call[t].entries # <<>> /\ errors' = errors + 1
      /\ call' = [call EXCEPT ![t].entries = Tail(@), ![t].written = 0]
      /\ UNCHANGED <<table, ending, owner, bits, hash, calls, orphaned>>
  BY DEF UnwindFails
<1>2. /\ call' \in [Tasks -> Calls]
      /\ \A u \in Tasks \ {t} : call'[u] = call[u]
      /\ call'[t].locks = call[t].locks /\ call'[t].data = call[t].data
      /\ Entry(t) = Entry(t)' \cup {Head(call[t].entries)} /\ Chain(t)' = Chain(t)
  BY <1>1, TailEffect
<1>3. TypeInv'
  BY <1>1, <1>2 DEF Inv, TypeInv
<1>4. TaskOK(t)'
  BY <1>1, TailOK
<1>5. \A n \in DOS : n \notin Entry(t)
  BY <1>1 DEF Inv, StructInv, TaskOK, EntriesOK, DOS
<1>6. Claims(t)' \subseteq Claims(t)
  BY <1>2 DEF Claims
<1>7. StructInv'
  BY <1>1, <1>2, <1>3, <1>4, <1>5, <1>6, FewerClaims DEF Inv
<1>8. StreamInv'
  BY <1>1, <1>2, <1>3, NoNewStream DEF Inv, Used
<1>9. QED
  BY <1>3, <1>7, <1>8

\* What a call renames is whole and in a directory that it has locked.
LEMMA SrcFacts ==
  ASSUME TypeInv, StructInv, NEW t \in Tasks, call[t].src # 0
  PROVE  LET s == call[t].src
         IN /\ s \in DOS /\ s \in DOMAIN hash /\ s \in DirNos /\ ListOK(s) /\ Linked(s) /\ RecordOK(s)
            /\ hash[s].Parent \in call[t].locks /\ hash[s].Kind = call[t].kind
            /\ 0 \notin List(s) /\ s \in List(s)
            /\ NameSpaceList(s) \in Seq(DirNos) /\ NameSpaceList(s) # <<>>
            /\ Head(NameSpaceList(s)) = s /\ Distinct(NameSpaceList(s))
            /\ \A u \in Tasks \ {t} : List(s) \cap Reach(u) = {}
<1> DEFINE s == call[t].src
<1>1. s \in DOS /\ hash[s].Parent \in call[t].locks /\ hash[s].Kind = call[t].kind
  BY DEF StructInv, TaskOK, SrcOK
<1>2. s \in DOMAIN hash /\ s \in DirNos /\ ListOK(s) /\ Linked(s) /\ RecordOK(s) /\ 0 \in DOS
  BY <1>1, HashFacts DEF StructInv, ListOK, DOS
<1>3. 0 \notin List(s) /\ Distinct(NameSpaceList(s))
  BY <1>1, <1>2, LinkedFacts
<1>4. /\ NameSpaceList(s) \in Seq(DirNos) /\ NameSpaceList(s) # <<>> /\ Head(NameSpaceList(s)) = s
      /\ s \in List(s)
  BY <1>2, ListFacts
<1>5. \A u \in Tasks \ {t} : List(s) \cap Reach(u) = {}
  BY ReachApart DEF Reach
<1>6. QED
  BY <1>1, <1>2, <1>3, <1>4, <1>5

LEMMA MovedEffect ==
  ASSUME Inv, NEW t \in Tasks, call[t].pc = "move", call' = [call EXCEPT ![t] = Moved(call[t])]
  PROVE  LET s == call[t].src
         IN /\ call' \in [Tasks -> Calls]
            /\ \A u \in Tasks \ {t} : call'[u] = call[u]
            /\ call'[t].op = call[t].op /\ call'[t].pc = "alloc" /\ call'[t].locks = call[t].locks
            /\ call'[t].dir = call[t].dir /\ call'[t].name = call[t].name /\ call'[t].old = call[t].old
            /\ call'[t].kind = call[t].kind /\ call'[t].data = hash[s].FirstBlock /\ call'[t].src = 0
            /\ call'[t].entries = call[t].entries /\ call'[t].written = call[t].written
            /\ call'[t].chain = NameSpaceList(s)
<1> DEFINE s == call[t].src
           c == call[t]
           d == Moved(c)
<1>1. c \in Calls /\ CallOK(c)
  BY CallFacts DEF Inv, StructInv, TaskOK
<1>2. s # 0 /\ s \in DOMAIN hash /\ NameSpaceList(s) \in Seq(DirNos)
  BY <1>1, SrcFacts DEF Inv, CallOK
<1>3. hash[s].FirstBlock \in Streams /\ 0 \in DirNos
  BY <1>2, HashFacts, DirNosSize DEF Inv
<1>4. /\ d \in Calls /\ d.op = c.op /\ d.pc = "alloc" /\ d.locks = c.locks
      /\ d.dir = c.dir /\ d.name = c.name /\ d.old = c.old
      /\ d.kind = c.kind /\ d.data = hash[s].FirstBlock /\ d.src = 0
      /\ d.entries = c.entries /\ d.written = c.written /\ d.chain = NameSpaceList(s)
  BY <1>1, <1>2, <1>3 DEF Calls, Moved
<1>5. call' = [call EXCEPT ![t] = d]
  OBVIOUS
<1> HIDE DEF d
<1>6. call' \in [Tasks -> Calls] /\ call'[t] = d /\ \A u \in Tasks \ {t} : call'[u] = call[u]
  BY <1>4, <1>5, NewCall DEF Inv
<1>7. QED
  BY <1>4, <1>6

LEMMA MoveStruct ==
  ASSUME Inv, StreamInv, NEW t \in Tasks, Move(t)
  PROVE  TypeInv' /\ StructInv' /\ StreamInv'
<1> DEFINE c == call[t]
           s == c.src
<1>1. c.pc = "move" /\ UNCHANGED <<table, ending, owner, bits, hash, calls, errors, orphaned>>
  BY DEF Move
<1>2. CASE Return(t)
  <2>1. errors' \in Nat
    BY <1>1 DEF Inv, TypeInv
  <2>2. QED
    BY <1>1, <1>2, <2>1, Returns
<1>3. CASE call' = [call EXCEPT ![t] = Moved(c)]
  <2>1. /\ call' \in [Tasks -> Calls]
        /\ \A u \in Tasks \ {t} : call'[u] = call[u]
        /\ call'[t].op = c.op /\ call'[t].pc = "alloc" /\ call'[t].locks = c.locks
        /\ call'[t].dir = c.dir /\ call'[t].name = c.name /\ call'[t].old = c.old
        /\ call'[t].kind = c.kind /\ call'[t].data = hash[s].FirstBlock /\ call'[t].src = 0
        /\ call'[t].entries = c.entries /\ call'[t].written = c.written
        /\ call'[t].chain = NameSpaceList(s)
    BY <1>1, <1>3, MovedEffect
  <2>2. TypeInv'
    BY <1>1, <2>1 DEF Inv, TypeInv
  <2>3. TaskOK(t) /\ CallOK(c) /\ c.op = "rename" /\ s # 0 /\ c.entries = <<>> /\ c.written = 0 /\ c.dir \in c.locks
    BY <1>1 DEF Inv, StructInv, TaskOK, CallOK, Making
  <2>4. /\ s \in DOS /\ s \in DOMAIN hash /\ ListOK(s) /\ RecordOK(s)
        /\ hash[s].Parent \in c.locks /\ hash[s].Kind = c.kind
        /\ 0 \notin List(s) /\ NameSpaceList(s) # <<>>
        /\ Head(NameSpaceList(s)) = s /\ Distinct(NameSpaceList(s))
        /\ \A u \in Tasks \ {t} : List(s) \cap Reach(u) = {}
    BY <2>3, SrcFacts DEF Inv
  <2>5. Entry(t)' = {} /\ Chain(t)' = List(s) /\ Claims(t)' = List(s) /\ Entry(t) = {}
    BY <2>1, <2>3, EmptyFacts DEF Entry, Chain, Claims, List
  <2>6. CallOK(call[t])'
    <3>1. Len(call'[t].entries) < K
      BY <2>1, <2>3, Constants
    <3>2. call'[t].kind = "dir" => call'[t].data = 0
      BY <2>1, <2>4 DEF RecordOK
    <3>3. QED
      BY <2>1, <2>3, <2>4, <3>1, <3>2, EmptyFacts DEF CallOK, Making, Deleting
  <2>7. Whole(t)'
    BY <1>1, <2>1, <2>4 DEF Whole, DOS, NameSpaceList
  <2>8. EntriesOK(t)' /\ ChainOK(t)' /\ SrcOK(t)'
    BY <1>1, <2>1, <2>4, <2>5, <2>7 DEF EntriesOK, ChainOK, SrcOK, Making
  <2>9. TaskOK(t)'
    BY <2>4, <2>5, <2>6, <2>8 DEF TaskOK
  <2>10. \A u \in Tasks \ {t} : Claims(t)' \cap Claims(u) = {} /\ call'[t].locks \cap call[u].locks = {}
    BY <2>1, <2>4, <2>5 DEF Reach, Inv, StructInv, Apart
  <2>11. \A k \in DOS : List(k) \cap Claims(t)' # {} => hash[k].Parent \in call'[t].locks
    BY <2>1, <2>4, <2>5, ListsApart DEF Inv
  <2>12. StructInv'
    BY <1>1, <2>1, <2>2, <2>5, <2>9, <2>10, <2>11, CallStep DEF Inv
  <2>13. StreamInv'
    <3>1. hash[s].FirstBlock \in Streams /\ hash[s].FirstBlock = table[s].FirstBlock /\ s \in Used(table)
      BY <2>4, HashFacts DEF RecordOK, Inv
    <3>2. call'[t].data \in {0} \cup StreamsUsed
      BY <2>1, <3>1 DEF StreamsUsed
    <3>3. QED
      BY <1>1, <2>1, <2>2, <3>2, NoNewStream DEF Inv, Used
  <2>14. QED
    BY <2>2, <2>12, <2>13
<1>4. QED
  BY <1>2, <1>3 DEF Move

-----------------------------------------------------------------------------
(* Records that are freed *)

\* What a call deletes next.
LEMMA DeletingFacts ==
  ASSUME Inv, NEW t \in Tasks, call[t].pc \in Deleting
  PROVE  LET c == call[t]
             n == Head(c.chain)
             rest == InSequence(Tail(c.chain))
         IN /\ c.chain # <<>> /\ c.entries = <<>> /\ c.written = 0 /\ c.op \in {"remove", "rename"}
            /\ c.chain \in Seq(DirNos) /\ Tail(c.chain) \in Seq(DirNos) /\ Distinct(Tail(c.chain))
            /\ n \in DirNos /\ n # 0 /\ n \in Chain(t) /\ n \notin rest /\ Chain(t) = rest \cup {n}
            /\ Entry(t) = {} /\ Claims(t) = Chain(t) /\ TaskOK(t) /\ CallOK(c)
            /\ \A u \in Tasks \ {t} : Chain(t) \cap Reach(u) = {}
<1> DEFINE c == call[t]
<1>1. TaskOK(t) /\ CallOK(c) /\ c \in Calls /\ c.chain \in Seq(DirNos)
  BY CallFacts DEF Inv, StructInv, TaskOK
<1>2. c.chain # <<>> /\ c.entries = <<>> /\ c.written = 0 /\ c.op \in {"remove", "rename"} /\ Distinct(c.chain)
  BY <1>1, OpFacts DEF CallOK
<1>3. Entry(t) = {} /\ Claims(t) = Chain(t)
  BY <1>2, EmptyFacts DEF Entry, Claims
<1>4. \A u \in Tasks \ {t} : Chain(t) \cap Reach(u) = {}
  BY <1>3, ReachApart DEF Inv, Reach
<1>5. 0 \notin Chain(t)
  BY <1>1 DEF TaskOK, Claims
<1>6. QED
  BY <1>1, <1>2, <1>3, <1>4, <1>5, TailOf DEF Chain

\* The first record of what is deleted is of no list but its own.
LEMMA HeadApart ==
  ASSUME Inv, NEW t \in Tasks, call[t].pc = "drop"
  PROVE  LET n == Head(call[t].chain)
             rest == InSequence(Tail(call[t].chain))
         IN /\ n \in DOMAIN hash
            /\ \A k \in DOS \ {n} : List(k) \cap Chain(t) = {}
            /\ rest \subseteq DOMAIN hash \ DOS
<1> DEFINE c == call[t]
           n == Head(c.chain)
           rest == InSequence(Tail(c.chain))
<1>1. /\ c.chain # <<>> /\ n \in Chain(t) /\ n \notin rest /\ Chain(t) = rest \cup {n} /\ TaskOK(t)
  BY DeletingFacts DEF Deleting
<1>2. Whole(t) \/ Rest(Chain(t))
  BY <1>1 DEF TaskOK, ChainOK
<1>3. CASE Whole(t)
  <2>1. n \in DOS /\ Chain(t) = List(n)
    BY <1>3 DEF Whole, Chain, List
  <2>2. Linked(n)
    BY <2>1 DEF Inv, StructInv, ListOK
  <2>3. \A m \in List(n) : m \in DOMAIN hash /\ (m \in DOS => m = n)
    BY <2>1, <2>2, LinkedFacts DEF Inv
  <2>4. QED
    BY <1>1, <2>1, <2>3, ListsApart DEF Inv
<1>4. CASE Rest(Chain(t))
  BY <1>1, <1>4 DEF Rest
<1>5. QED
  BY <1>2, <1>3, <1>4

LEMMA FreeHashStruct ==
  ASSUME Inv, StreamInv, NEW t \in Tasks, FreeHashDirectoryRecord(t)
  PROVE  TypeInv' /\ StructInv' /\ StreamInv'
<1> DEFINE c == call[t]
           n == Head(c.chain)
           rest == InSequence(Tail(c.chain))
           X == {n}
<1>1. /\ c.pc = "drop" /\ hash' = FreeHash(hash, n)
      /\ orphaned' = (orphaned \/ Entered(n, t)) /\ Goto(t, "free")
      /\ UNCHANGED <<table, ending, owner, bits, calls, errors>>
  BY DEF FreeHashDirectoryRecord
<1>2. /\ c.chain # <<>> /\ c.entries = <<>> /\ c.written = 0 /\ c.op \in {"remove", "rename"}
      /\ n \in DirNos /\ n # 0 /\ n \in Chain(t) /\ n \notin rest /\ Chain(t) = rest \cup {n}
      /\ Entry(t) = {} /\ Claims(t) = Chain(t) /\ TaskOK(t) /\ CallOK(c)
      /\ \A u \in Tasks \ {t} : Chain(t) \cap Reach(u) = {}
  BY <1>1, DeletingFacts DEF Deleting
<1>3. /\ n \in DOMAIN hash
      /\ \A k \in DOS \ {n} : List(k) \cap Chain(t) = {}
      /\ rest \subseteq DOMAIN hash \ DOS
  BY <1>1, HeadApart
<1> HIDE DEF n, rest
<1>4. /\ IsHash(hash') /\ DOMAIN hash' = DOMAIN hash \ {n}
      /\ \A m \in DOMAIN hash' : SameHash(hash'[m], hash[m])
  <2>1. IsHash(hash)
    BY DEF Inv, TypeInv, IsHash
  <2>2. QED
    BY <1>1, <1>3, <2>1, FreeHashEffect
<1>5. /\ call' \in [Tasks -> Calls]
      /\ \A u \in Tasks \ {t} : call'[u] = call[u]
      /\ call'[t].op = c.op /\ call'[t].pc = "free" /\ call'[t].locks = c.locks
      /\ call'[t].dir = c.dir /\ call'[t].name = c.name /\ call'[t].old = c.old
      /\ call'[t].kind = c.kind /\ call'[t].data = c.data /\ call'[t].src = c.src
      /\ call'[t].entries = c.entries /\ call'[t].written = c.written
      /\ call'[t].chain = c.chain
  BY <1>1, GotoEffect DEF Inv, PCs
<1>6. TypeInv'
  <2>1. orphaned' \in BOOLEAN
    BY <1>1 DEF Inv, TypeInv, Entered
  <2>2. QED
    BY <1>1, <1>4, <1>5, <2>1 DEF Inv, TypeInv, IsHash
<1>7. Entry(t)' = {} /\ Chain(t)' = Chain(t) /\ Claims(t)' = Claims(t)
  BY <1>2, <1>5, EmptyFacts DEF Entry, Chain, Claims
<1>8. \A m \in DirNos \ X : Untouched(m)
  BY <1>1, <1>4 DEF Untouched, SameHash
<1>9. n \notin DOS' /\ DOS' \subseteq DOS
  BY <1>4 DEF DOS, SameHash
<1>10. Touches(t, X)
  <2>1. \A k \in DOS \ X : List(k) \cap X = {}
    BY <1>2, <1>3
  <2>2. \A u \in Tasks \ {t} : X \cap Reach(u) = {}
    BY <1>2
  <2>3. QED
    BY <1>2, <1>8, <1>9, <2>1, <2>2 DEF Touches
<1>11. \A k \in DOS' : k \in DOS /\ List(k)' = List(k) /\ k # n
  <2>1. \A k \in DOS' : k \in DOS /\ k \in DOMAIN hash /\ k \in DirNos \ X
    BY <1>9, HashFacts DEF DOS, Inv
  <2>2. QED
    BY <1>8, <2>1, SameList
<1>12. Rest(rest)'
  <2>1. \A m \in rest : m \in DOMAIN hash' /\ m \notin DOS'
    BY <1>2, <1>3, <1>4, <1>9
  <2>2. \A k \in DOS' : rest \cap List(k)' = {}
    BY <1>2, <1>3, <1>11
  <2>3. rest' = rest
    BY <1>5 DEF rest, InSequence
  <2>4. QED
    BY <2>1, <2>2, <2>3 DEF Rest
<1>13. TaskOK(t)'
  <2>1. CallOK(call[t])'
    BY <1>1, <1>2, <1>5 DEF CallOK, Making, Deleting
  <2>2. EntriesOK(t)'
    BY <1>5, <1>7 DEF EntriesOK
  <2>3. ChainOK(t)'
    <3>1. n \in Used(table) /\ n \notin DOMAIN hash'
      BY <1>3, <1>4, InUse DEF Inv
    <3>2. Head(call'[t].chain) \in Used(table') \ DOMAIN hash'
      BY <1>1, <1>5, <3>1 DEF n
    <3>3. Rest(InSequence(Tail(call[t].chain)))'
      BY <1>12 DEF rest
    <3>4. QED
      BY <1>5, <3>2, <3>3 DEF ChainOK, Making
  <2>4. SrcOK(t)'
    <3>1. PICK s \in DirNos : s = c.src
      BY CallFacts DEF Inv
    <3>2. SUFFICES ASSUME s # 0
                   PROVE  /\ s \in DOS' /\ hash'[s].Parent \in c.locks /\ hash'[s].Kind = c.kind
                          /\ List(s)' \cap Chain(t)' = {}
      BY <1>5, <3>1 DEF SrcOK
    <3>3. /\ s \in DOS /\ hash[s].Parent \in c.locks /\ hash[s].Kind = c.kind
          /\ List(s) \cap Chain(t) = {} /\ s \in List(s) /\ s \in DOMAIN hash
      BY <1>1, <1>2, <3>1, <3>2, ListFacts DEF Inv, TaskOK, SrcOK, Deleting, DOS
    <3>4. Untouched(s)
      BY <1>2, <1>8, <3>3
    <3>5. List(s)' = List(s) /\ s \in DOS'
      BY <3>3, <3>4, SameList
    <3>6. QED
      BY <1>7, <3>3, <3>4, <3>5 DEF Untouched
  <2>5. 0 \notin Claims(t)' /\ (Entry(t) \cap Chain(t) = {})'
    BY <1>2, <1>7 DEF TaskOK
  <2>6. QED
    BY <2>1, <2>2, <2>3, <2>4, <2>5 DEF TaskOK
<1>14. \A u \in Tasks \ {t} : Claims(t)' \cap Claims(u) = {} /\ call'[t].locks \cap call[u].locks = {}
  BY <1>5, <1>7 DEF Inv, StructInv, Apart
<1>15. \A k \in DOS \ X : /\ List(k) \cap Claims(t)' # {} => hash[k].Parent \in call'[t].locks
                          /\ k \in Entry(t) => k \in Entry(t)'
  BY <1>2, <1>5, <1>7 DEF Inv, StructInv, ListOK
<1>16. StructInv'
  BY <1>2, <1>4, <1>5, <1>6, <1>9, <1>10, <1>13, <1>14, <1>15, StructStep DEF Inv
<1>17. StreamInv'
  BY <1>1, <1>5, <1>6, NoNewStream DEF Inv, Used
<1>18. QED
  BY <1>6, <1>16, <1>17

\* The directory file and its owners after a record is freed.
LEMMA FreeDirectoryRecordEffect ==
  ASSUME TypeInv, NEW n \in DirNos, FreeDirectoryRecord(n)
  PROVE  /\ table' \in [DirNos -> Records \cup {FREE_NODE}] /\ bits' = bits \ {n} /\ bits' \subseteq DirNos
         /\ owner' \in [Blocks -> DirNos \cup {FREE_NODE}]
         /\ \A m \in DirNos : table'[m] = IF m = n THEN FREE_NODE ELSE table[m]
         /\ Used(table)' = Used(table) \ {n}
<1>1. /\ table' = [table EXCEPT ![n] = FREE_NODE] /\ bits' = bits \ {n}
      /\ owner' \in {owner, [owner EXCEPT ![BlockOf(n)] = FREE_NODE]}
  BY DEF FreeDirectoryRecord, Cleared, Released
<1>2. owner' \in [Blocks -> DirNos \cup {FREE_NODE}]
  BY <1>1 DEF TypeInv
<1>3. /\ table' \in [DirNos -> Records \cup {FREE_NODE}]
      /\ \A m \in DirNos : table'[m] = IF m = n THEN FREE_NODE ELSE table[m]
  BY <1>1 DEF TypeInv
<1>4. QED
  BY <1>1, <1>2, <1>3 DEF TypeInv, Used

LEMMA FreedTouches ==
  ASSUME Inv, NEW t \in Tasks, NEW n \in Claims(t), n \notin DOMAIN hash, FreeDirectoryRecord(n), hash' = hash
  PROVE  Touches(t, {n})
<1>1. n \in DirNos /\ \A m \in DirNos : table'[m] = IF m = n THEN FREE_NODE ELSE table[m]
  <2>1. n \in DirNos
    BY CallFacts DEF Inv, Claims
  <2>2. QED
    BY <2>1, FreeDirectoryRecordEffect DEF Inv
<1>2. \A m \in DirNos \ {n} : Untouched(m)
  BY <1>1 DEF Untouched
<1>3. \A u \in Tasks \ {t} : {n} \cap Reach(u) = {}
  BY ReachApart DEF Inv, Reach
<1>4. \A k \in DOS : List(k) \cap {n} = {}
  BY LinkedFacts DEF Inv, StructInv, ListOK
<1>5. n \notin DOS'
  BY DEF DOS
<1>6. QED
  BY <1>1, <1>2, <1>3, <1>4, <1>5 DEF Touches

LEMMA UnwindStruct ==
  ASSUME Inv, StreamInv, NEW t \in Tasks, Unwind(t)
  PROVE  TypeInv' /\ StructInv' /\ StreamInv'
<1> DEFINE c == call[t]
           n == Head(c.entries)
           X == {n}
<1>1. /\ c.pc = "unwind" /\ c.entries # <<>> /\ FreeDirectoryRecord(n)
      /\ call' = [call EXCEPT ![t].entries = Tail(@), ![t].written = 0]
      /\ UNCHANGED <<ending, hash, calls, errors, orphaned>>
  BY DEF Unwind
<1>2. /\ call' \in [Tasks -> Calls]
      /\ \A u \in Tasks \ {t} : call'[u] = call[u]
      /\ call'[t].locks = c.locks /\ call'[t].data = c.data
      /\ Entry(t) = Entry(t)' \cup {n} /\ Chain(t)' = Chain(t) /\ n \in DirNos
  BY <1>1, TailEffect
<1> HIDE DEF n
<1>3. TypeInv' /\ Used(table)' = Used(table) \ {n}
      /\ \A m \in DirNos : table'[m] = IF m = n THEN FREE_NODE ELSE table[m]
  BY <1>1, <1>2, FreeDirectoryRecordEffect DEF Inv, TypeInv
<1>4. TaskOK(t)'
  BY <1>1, TailOK
<1>5. n \in Claims(t) /\ n \notin DOMAIN hash /\ 0 \notin Claims(t) /\ Claims(t)' \subseteq Claims(t)
      /\ \A k \in DOS : k \notin Entry(t)
  BY <1>1, <1>2 DEF Inv, StructInv, TaskOK, EntriesOK, DOS, Claims
<1>6. Touches(t, X)
  BY <1>1, <1>5, FreedTouches
<1>7. \A u \in Tasks \ {t} : Claims(t)' \cap Claims(u) = {} /\ call'[t].locks \cap call[u].locks = {}
  BY <1>2, <1>5 DEF Inv, StructInv, Apart
<1>8. \A k \in DOS \ X : /\ List(k) \cap Claims(t)' # {} => hash[k].Parent \in call'[t].locks
                         /\ k \in Entry(t) => k \in Entry(t)'
  BY <1>2, <1>5 DEF Inv, StructInv, ListOK
<1>9. 0 \notin X /\ DOMAIN hash' \cap X = {} /\ DOS' \cap X = {}
  BY <1>1, <1>5 DEF DOS
<1>10. StructInv'
  BY <1>2, <1>3, <1>4, <1>6, <1>7, <1>8, <1>9, StructStep DEF Inv
<1>11. StreamInv'
  <2>1. \A m \in Used(table)' : m \in Used(table) /\ table'[m].FirstBlock = table[m].FirstBlock
    BY <1>3 DEF Used
  <2>2. QED
    BY <1>1, <1>2, <1>3, <2>1, NoNewStream DEF Inv
<1>12. QED
  BY <1>3, <1>10, <1>11

\* The record is freed; what the call goes on with.
LEMMA FreeRecordEffect ==
  ASSUME Inv, NEW t \in Tasks, FreeRecord(t)
  PROVE  LET c == call[t]
             n == Head(c.chain)
         IN /\ c.pc = "free" /\ FreeDirectoryRecord(n)
            /\ UNCHANGED <<ending, hash, calls, errors, orphaned>>
            /\ call' \in [Tasks -> Calls]
            /\ \A u \in Tasks \ {t} : call'[u] = call[u]
            /\ \/ call'[t] = NoCall
               \/ /\ call'[t].op = c.op /\ call'[t].locks = c.locks
                  /\ call'[t].dir = c.dir /\ call'[t].name = c.name /\ call'[t].old = c.old
                  /\ call'[t].kind = c.kind /\ call'[t].data = c.data /\ call'[t].src = c.src
                  /\ call'[t].entries = c.entries /\ call'[t].written = c.written
                  /\ call'[t].chain = Tail(c.chain)
                  /\ \/ Tail(c.chain) # <<>> /\ call'[t].pc = "drop"
                     \/ Tail(c.chain) = <<>> /\ c.src # 0 /\ call'[t].pc = "move"
<1> DEFINE c == call[t]
<1>1. /\ c.pc = "free" /\ FreeDirectoryRecord(Head(c.chain))
      /\ UNCHANGED <<ending, hash, calls, errors, orphaned>>
      /\ IF Tail(c.chain) # <<>> THEN call' = [call EXCEPT ![t].chain = Tail(@), ![t].pc = "drop"]
         ELSE IF c.src # 0 THEN call' = [call EXCEPT ![t].chain = <<>>, ![t].pc = "move"]
         ELSE Return(t)
  BY DEF FreeRecord
<1>2. c \in Calls /\ Tail(c.chain) \in Seq(DirNos)
  BY <1>1, DeletingFacts, CallFacts DEF Deleting, Inv
<1>3. CASE Tail(c.chain) = <<>> /\ c.src = 0
  <2>1. Return(t)
    BY <1>1, <1>3
  <2>2. QED
    BY <1>1, <2>1, ReturnEffect DEF Inv
<1>4. CASE Tail(c.chain) # <<>> \/ c.src # 0
  <2> DEFINE p == IF Tail(c.chain) # <<>> THEN "drop" ELSE "move"
             e == Tail(c.chain)
             d == [c EXCEPT !.chain = e, !.pc = p]
  <2>1. call' = [call EXCEPT ![t] = d]
    <3>1. CASE Tail(c.chain) # <<>>
      BY <1>1, <3>1 DEF Inv, TypeInv
    <3>2. CASE Tail(c.chain) = <<>>
      BY <1>1, <1>4, <3>2 DEF Inv, TypeInv
    <3>3. QED
      BY <3>1, <3>2
  <2>2. e \in Seq(DirNos) /\ p \in {"drop", "move"} /\ e = Tail(c.chain)
    BY <1>2
  <2>3. (Tail(c.chain) # <<>> => p = "drop") /\ (Tail(c.chain) = <<>> => p = "move")
    OBVIOUS
  <2> HIDE DEF e, p
  <2>4. /\ d \in Calls /\ d.op = c.op /\ d.pc = p /\ d.locks = c.locks
        /\ d.dir = c.dir /\ d.name = c.name /\ d.old = c.old
        /\ d.kind = c.kind /\ d.data = c.data /\ d.src = c.src
        /\ d.entries = c.entries /\ d.written = c.written /\ d.chain = e
    BY <1>2, <2>2 DEF Calls
  <2> HIDE DEF d
  <2>5. call' \in [Tasks -> Calls] /\ call'[t] = d /\ \A u \in Tasks \ {t} : call'[u] = call[u]
    BY <2>1, <2>4, NewCall DEF Inv
  <2>6. QED
    BY <1>1, <1>4, <2>2, <2>3, <2>4, <2>5
<1>5. QED
  BY <1>3, <1>4

LEMMA FreeRecordStruct ==
  ASSUME Inv, StreamInv, NEW t \in Tasks, FreeRecord(t)
  PROVE  TypeInv' /\ StructInv' /\ StreamInv'
<1> DEFINE c == call[t]
           n == Head(c.chain)
           rest == InSequence(Tail(c.chain))
           X == {n}
<1>1. /\ c.pc = "free" /\ FreeDirectoryRecord(n)
      /\ UNCHANGED <<ending, hash, calls, errors, orphaned>>
      /\ call' \in [Tasks -> Calls]
      /\ \A u \in Tasks \ {t} : call'[u] = call[u]
  BY FreeRecordEffect
<1>2. /\ c.entries = <<>> /\ c.written = 0 /\ c.op \in {"remove", "rename"}
      /\ Tail(c.chain) \in Seq(DirNos) /\ Distinct(Tail(c.chain))
      /\ n \in DirNos /\ n # 0 /\ n \in Chain(t) /\ n \notin rest /\ Chain(t) = rest \cup {n}
      /\ Entry(t) = {} /\ Claims(t) = Chain(t) /\ TaskOK(t) /\ CallOK(c)
  BY <1>1, DeletingFacts DEF Deleting
<1>3. n \notin DOMAIN hash /\ Rest(rest)
  BY <1>1, <1>2 DEF TaskOK, ChainOK
<1>4. Touches(t, X)
  BY <1>1, <1>2, <1>3, FreedTouches
<1>5. TypeInv' /\ Used(table)' = Used(table) \ {n}
      /\ \A m \in DirNos : table'[m] = IF m = n THEN FREE_NODE ELSE table[m]
  BY <1>1, <1>2, FreeDirectoryRecordEffect DEF Inv, TypeInv
<1> HIDE DEF n
<1>6. TaskOK(t)' /\ Entry(t)' = {} /\ Claims(t)' \subseteq Claims(t)
      /\ (call'[t].locks = c.locks \/ (call'[t].locks = {} /\ Claims(t)' = {}))
      /\ call'[t].data \in {0, c.data}
  <2>1. CASE call'[t] = NoCall
    BY <2>1, RestingOK, NoCallType DEF Inv
  <2>2. CASE /\ call'[t].op = c.op /\ call'[t].locks = c.locks
             /\ call'[t].dir = c.dir /\ call'[t].name = c.name /\ call'[t].old = c.old
             /\ call'[t].kind = c.kind /\ call'[t].data = c.data /\ call'[t].src = c.src
             /\ call'[t].entries = c.entries /\ call'[t].written = c.written
             /\ call'[t].chain = Tail(c.chain)
             /\ \/ Tail(c.chain) # <<>> /\ call'[t].pc = "drop"
                \/ Tail(c.chain) = <<>> /\ c.src # 0 /\ call'[t].pc = "move"
    <3>1. Entry(t)' = {} /\ Chain(t)' = rest /\ Claims(t)' = rest /\ rest \subseteq Claims(t)
      BY <1>2, <2>2, EmptyFacts DEF Entry, Chain, Claims
    <3>2. c.op \in {"remove", "rename"} /\ (c.src # 0 => c.op = "rename")
      BY <1>2 DEF CallOK
    <3>3. CallOK(call[t])'
      <4>1. call'[t].pc \in {"drop", "move"} /\ (call'[t].pc = "move" <=> call'[t].chain = <<>>)
            /\ (call'[t].pc = "move" => c.src # 0)
        BY <2>2
      <4>2. QED
        BY <1>1, <1>2, <2>2, <3>2, <4>1 DEF CallOK, Making, Deleting
    <3>4. PICK R : R = rest
      OBVIOUS
    <3>5. Rest(R)'
      <4>1. R \cap X = {} /\ Rest(R)
        BY <1>2, <1>3, <3>4
      <4>2. QED
        BY <1>4, <1>5, <4>1, NoNewLists DEF Inv
    <3>6. InSequence(Tail(c.chain)) = R /\ Chain(t)' = R
      BY <3>1, <3>4 DEF rest
    <3>7. EntriesOK(t)' /\ ChainOK(t)'
      <4>1. EntriesOK(t)'
        BY <1>1, <2>2, <3>1 DEF EntriesOK
      <4>2. Rest(Chain(t))'
        BY <3>5, <3>6 DEF Rest
      <4>3. QED
        BY <2>2, <4>1, <4>2 DEF ChainOK, Making
    <3>8. SrcOK(t)'
      <4>1. PICK s \in DirNos : s = c.src
        BY CallFacts DEF Inv
      <4>2. SUFFICES ASSUME s # 0
                     PROVE  /\ s \in DOS' /\ hash'[s].Parent \in c.locks /\ hash'[s].Kind = c.kind
                            /\ List(s)' \cap Chain(t)' = {}
        BY <2>2, <4>1 DEF SrcOK
      <4>3. /\ s \in DOS /\ hash[s].Parent \in c.locks /\ hash[s].Kind = c.kind
            /\ List(s) \cap Chain(t) = {}
        BY <1>1, <1>2, <4>1, <4>2 DEF TaskOK, SrcOK, Deleting
      <4>4. List(s)' = List(s) /\ DOS' = DOS
        BY <1>1 DEF List, NameSpaceList, DOS
      <4>5. QED
        BY <1>1, <1>2, <3>1, <4>3, <4>4
    <3>9. 0 \notin Claims(t)' /\ (Entry(t) \cap Chain(t) = {})'
      BY <1>2, <3>1 DEF TaskOK
    <3>10. TaskOK(t)'
      BY <3>3, <3>7, <3>8, <3>9 DEF TaskOK
    <3>11. QED
      BY <2>2, <3>1, <3>10
  <2>3. QED
    BY <2>1, <2>2, FreeRecordEffect
<1>7. \A u \in Tasks \ {t} : Claims(t)' \cap Claims(u) = {} /\ call'[t].locks \cap call[u].locks = {}
  BY <1>6 DEF Inv, StructInv, Apart
<1>8. \A k \in DOS \ X : /\ List(k) \cap Claims(t)' # {} => hash[k].Parent \in call'[t].locks
                         /\ k \in Entry(t) => k \in Entry(t)'
  BY <1>2, <1>6 DEF Inv, StructInv, ListOK
<1>9. 0 \notin X /\ DOMAIN hash' \cap X = {} /\ DOS' \cap X = {}
  BY <1>1, <1>2, <1>3 DEF DOS
<1>10. StructInv'
  BY <1>1, <1>4, <1>5, <1>6, <1>7, <1>8, <1>9, StructStep DEF Inv
<1>11. StreamInv'
  <2>1. \A m \in Used(table)' : m \in Used(table) /\ table'[m].FirstBlock = table[m].FirstBlock
    BY <1>5 DEF Used
  <2>2. QED
    BY <1>1, <1>5, <1>6, <2>1, NoNewStream DEF Inv
<1>12. QED
  BY <1>5, <1>10, <1>11

-----------------------------------------------------------------------------
(* Records that are written *)

\* The first i elements of a sequence, as a call has written them.
LEMMA FirstOnes ==
  ASSUME NEW S, NEW s \in Seq(S), NEW i \in 1 .. Len(s)
  PROVE  LET w == SubSeq(s, 2, i)
         IN /\ w \in Seq(S) /\ Len(w) = i - 1 /\ \A j \in 1 .. Len(w) : w[j] = s[j + 1]
            /\ i = 1 => w = <<>>
            /\ i > 1 => w = Append(SubSeq(s, 2, i - 1), s[i])
<1>1. Len(s) \in Nat /\ i \in Nat /\ i >= 1 /\ i <= Len(s) /\ \A j \in 1 .. Len(s) : s[j] \in S
  BY SetOf
<1>2. /\ SubSeq(s, 2, i) \in Seq(S)
      /\ Len(SubSeq(s, 2, i)) = IF 2 <= i THEN i - 2 + 1 ELSE 0
      /\ \A j \in 1 .. i - 2 + 1 : SubSeq(s, 2, i)[j] = s[2 + j - 1]
  <2>1. \A j \in 2 .. i : s[j] \in S
    BY <1>1
  <2>2. 2 \in Int /\ i \in Int
    BY <1>1
  <2>3. QED
    BY <2>1, <2>2, SubSeqProperties
<1>3. Len(SubSeq(s, 2, i)) = i - 1
  BY <1>1, <1>2
<1>4. \A j \in 1 .. Len(SubSeq(s, 2, i)) : SubSeq(s, 2, i)[j] = s[j + 1]
  BY <1>1, <1>2, <1>3
<1>5. ASSUME i = 1 PROVE SubSeq(s, 2, i) = <<>>
  BY <1>2, <1>3, <1>5, EmptySeq
<1>6. ASSUME i > 1 PROVE SubSeq(s, 2, i) = Append(SubSeq(s, 2, i - 1), s[i])
  <2>1. 2 \in 1 .. Len(s) /\ i \in 2 .. Len(s)
    BY <1>1, <1>6
  <2>2. SubSeq(s, 2, i) = SubSeq(s, 2, i - 1) \o << s[i] >>
    BY <2>1, SubSeqRecursiveSecond
  <2>3. SubSeq(s, 2, i - 1) \in Seq(S)
    <3>1. \A j \in 2 .. i - 1 : s[j] \in S
      BY <1>1
    <3>2. 2 \in Int /\ i - 1 \in Int
      BY <1>1
    <3>3. QED
      BY <3>1, <3>2, SubSeqProperties
  <2>4. QED
    BY <1>1, <2>2, <2>3, AppendIsConcat
<1>7. QED
  BY <1>2, <1>3, <1>4, <1>5, <1>6

\* What call c of t has done so far when it writes.
HalfWritten(c, t) ==
  /\ c \in Calls /\ TaskOK(t) /\ CallOK(c) /\ c.op \in {"create", "rename"} /\ c.src = 0
  /\ c.entries \in Seq(DirNos) /\ Len(c.entries) = K /\ DOMAIN c.entries = 1 .. K
  /\ c.written \in Nat /\ c.written < K /\ K \in Nat
  /\ \A i \in 1 .. K : /\ c.entries[i] \in Entry(t) /\ c.entries[i] \in DirNos
                       /\ (c.entries[i] \in DOMAIN hash) <=> i <= c.written
                       /\ i <= c.written =>
                            /\ table[c.entries[i]] = NewRecord(c, i)
                            /\ hash[c.entries[i]].Parent = c.dir
                            /\ hash[c.entries[i]].NameSpace = i
                            /\ hash[c.entries[i]].Kind = c.kind
                            /\ hash[c.entries[i]].FirstBlock = c.data
                            /\ hash[c.entries[i]].Root = c.entries[1]
  /\ \A m \in Entry(t) : \E i \in 1 .. K : m = c.entries[i]
  /\ c.written > 0 => /\ hash[c.entries[1]].Name = c.name
                      /\ hash[c.entries[1]].nl = SubSeq(c.entries, 2, c.written)
  /\ \A i, j \in 1 .. K : c.entries[i] = c.entries[j] => i = j
  /\ 0 \notin Entry(t) /\ Entry(t) \subseteq DirNos /\ Entry(t) \cap Chain(t) = {}
  /\ c.kind = "dir" => c.data = 0
  /\ c.dir \in c.locks

LEMMA WritingFacts ==
  ASSUME Inv, NEW t \in Tasks, call[t].pc = "write"
  PROVE  HalfWritten(call[t], t)
<1> DEFINE c == call[t]
<1>1. TaskOK(t) /\ CallOK(c) /\ c \in Calls /\ c.entries \in Seq(DirNos) /\ Entry(t) \subseteq DirNos
  BY CallFacts DEF Inv, StructInv, TaskOK
<1>2. Len(c.entries) = K /\ DOMAIN c.entries = 1 .. K /\ c.written \in Nat /\ c.written < K /\ K \in Nat
  BY <1>1, SetOf, CallFacts, Constants DEF CallOK, Inv
<1>3. /\ \A i \in 1 .. K : c.entries[i] \in Entry(t) /\ c.entries[i] \in DirNos
      /\ \A m \in Entry(t) : \E i \in 1 .. K : m = c.entries[i]
      /\ \A i, j \in 1 .. K : c.entries[i] = c.entries[j] => i = j
  BY <1>1, <1>2, SetOf DEF CallOK, Distinct, Entry
<1>4. /\ \A i \in 1 .. K : (c.entries[i] \in DOMAIN hash) <=> i <= c.written
      /\ \A i \in 1 .. K : i <= c.written => table[c.entries[i]] = NewRecord(c, i)
      /\ c.written > 0 => /\ hash[c.entries[1]].Name = c.name
                          /\ hash[c.entries[1]].nl = SubSeq(c.entries, 2, c.written)
  BY <1>1 DEF TaskOK, EntriesOK
<1>5. ASSUME NEW i \in 1 .. K, i <= c.written
      PROVE  /\ hash[c.entries[i]].Parent = c.dir
             /\ hash[c.entries[i]].NameSpace = i
             /\ hash[c.entries[i]].Kind = c.kind
             /\ hash[c.entries[i]].FirstBlock = c.data
             /\ hash[c.entries[i]].Root = c.entries[1]
  <2>1. c.entries[i] \in DOMAIN hash /\ table[c.entries[i]] = NewRecord(c, i)
    BY <1>4, <1>5
  <2>2. RecordOK(c.entries[i])
    BY <2>1 DEF Inv, StructInv
  <2>3. /\ NewRecord(c, i).Subdirectory = c.dir /\ NewRecord(c, i).NameSpace = i
        /\ NewRecord(c, i).Kind = c.kind /\ NewRecord(c, i).FirstBlock = c.data
        /\ NewRecord(c, i).PrimaryEntry = c.entries[1]
    BY DEF NewRecord, Record
  <2>4. QED
    BY <2>1, <2>2, <2>3 DEF RecordOK
<1>6. /\ c.op \in {"create", "rename"} /\ c.src = 0 /\ c.dir \in c.locks /\ (c.kind = "dir" => c.data = 0)
      /\ 0 \notin Entry(t) /\ Entry(t) \cap Chain(t) = {}
  BY <1>1 DEF TaskOK, CallOK, Making, Claims
<1>7. QED
  BY <1>1, <1>2, <1>3, <1>4, <1>5, <1>6 DEF HalfWritten

\* The other lists do not name a record of an entry that is being written.
LEMMA WritingApart ==
  ASSUME Inv, NEW t \in Tasks, call[t].pc = "write"
  PROVE  /\ \A k \in DOS \ Entry(t) : List(k) \cap Entry(t) = {}
         /\ \A u \in Tasks \ {t} : Entry(t) \cap Reach(u) = {}
<1>1. ASSUME NEW k \in DOS, k \notin Entry(t), NEW m \in List(k), m \in Entry(t) PROVE FALSE
  <2>1. m \in DOMAIN hash /\ hash[m].Root = k
    BY LinkedFacts DEF Inv, StructInv, ListOK
  <2>2. hash[m].Root = call[t].entries[1] /\ call[t].entries[1] \in Entry(t)
    <3>1. PICK i \in 1 .. K : m = call[t].entries[i]
      BY <1>1, WritingFacts DEF HalfWritten
    <3>2. i <= call[t].written /\ 1 \in 1 .. K
      BY <2>1, <3>1, WritingFacts DEF HalfWritten
    <3>3. QED
      BY <3>1, <3>2, WritingFacts DEF HalfWritten
  <2>3. QED
    BY <1>1, <2>1, <2>2
<1>2. \A u \in Tasks \ {t} : Entry(t) \cap Reach(u) = {}
  BY ReachApart DEF Inv, Reach, Claims
<1>3. QED
  BY <1>1, <1>2

\* The entry that a rename deletes when the new one is written.
LEMMA ReplacedStays ==
  ASSUME Inv, NEW t \in Tasks, call[t].pc = "write", call[t].op = "rename",
         \A m \in DirNos \ Entry(t) : Untouched(m)
  PROVE  \E h \in DirNos : /\ h = Head(call[t].chain) /\ h \in DOS' /\ call[t].chain = NameSpaceList(h)'
                           /\ hash'[h].FirstBlock = call[t].data
<1>1. TaskOK(t) /\ call[t].chain \in Seq(DirNos) /\ call[t].chain # <<>>
  BY WritingFacts, OpFacts, CallFacts DEF Inv, Making, HalfWritten
<1>2. PICK h \in DirNos : h = Head(call[t].chain)
  BY <1>1, TailOf
<1>3. h \in DOS /\ call[t].chain = NameSpaceList(h) /\ hash[h].FirstBlock = call[t].data
  BY <1>1, <1>2 DEF TaskOK, ChainOK, Whole, Making
<1>4. h \notin Entry(t)
  BY <1>1, <1>2, TailOf DEF TaskOK, Chain
<1>5. Untouched(h) /\ h \in DOMAIN hash
  BY <1>3, <1>4 DEF DOS
<1>6. h \in DOS' /\ NameSpaceList(h)' = NameSpaceList(h) /\ hash'[h].FirstBlock = hash[h].FirstBlock
  BY <1>3, <1>5, SameList DEF Untouched
<1>7. QED
  BY <1>1, <1>2, <1>3, <1>6

LEMMA WriteFailsStruct ==
  ASSUME Inv, StreamInv, NEW t \in Tasks, WriteFails(t)
  PROVE  TypeInv' /\ StructInv' /\ StreamInv'
<1> DEFINE c == call[t]
           s == SubSeq(c.entries, 1, c.written)
           X == Entry(t)
<1>1. /\ c.pc = "write" /\ hash' = FreeHashes(hash, s) /\ errors' = errors + 1 /\ Goto(t, "unwind")
      /\ UNCHANGED <<table, ending, owner, bits, calls, orphaned>>
  BY DEF WriteFails
<1>2. /\ call' \in [Tasks -> Calls]
      /\ \A u \in Tasks \ {t} : call'[u] = call[u]
      /\ call'[t].op = c.op /\ call'[t].pc = "unwind" /\ call'[t].locks = c.locks
      /\ call'[t].dir = c.dir /\ call'[t].name = c.name /\ call'[t].old = c.old
      /\ call'[t].kind = c.kind /\ call'[t].data = c.data /\ call'[t].src = c.src
      /\ call'[t].entries = c.entries /\ call'[t].written = c.written
      /\ call'[t].chain = c.chain
  BY <1>1, GotoEffect DEF Inv, PCs
<1>3. s \in Seq(DirNos) /\ Len(s) = c.written /\ \A i \in 1 .. c.written : s[i] = c.entries[i]
  <2>1. c.written \in Nat /\ c.written < K /\ K \in Nat /\ \A i \in 1 .. K : c.entries[i] \in DirNos
    BY <1>1, WritingFacts DEF HalfWritten
  <2>2. 1 \in Int /\ c.written \in Int /\ \A i \in 1 .. c.written : c.entries[i] \in DirNos
    BY <2>1
  <2>3. /\ s \in Seq(DirNos) /\ Len(s) = (IF 1 <= c.written THEN c.written - 1 + 1 ELSE 0)
        /\ \A i \in 1 .. c.written - 1 + 1 : s[i] = c.entries[1 + i - 1]
    BY <2>2, SubSeqProperties
  <2>4. Len(s) = c.written
    BY <2>1, <2>3
  <2>5. \A i \in 1 .. c.written : s[i] = c.entries[i]
    BY <2>1, <2>3
  <2>6. QED
    BY <2>3, <2>4, <2>5
<1> HIDE DEF s
<1>4. \A m \in X : m \in DOMAIN hash <=> m \in InSequence(s)
  <2>1. SUFFICES ASSUME NEW m \in X PROVE m \in DOMAIN hash <=> m \in InSequence(s)
    OBVIOUS
  <2>2. PICK i \in 1 .. K : m = c.entries[i]
    BY <1>1, WritingFacts DEF HalfWritten
  <2>3. m \in DOMAIN hash <=> i <= c.written
    BY <1>1, <2>2, WritingFacts DEF HalfWritten
  <2>4. c.written \in Nat /\ c.written < K /\ K \in Nat /\ \A j \in 1 .. K : c.entries[i] = c.entries[j] => i = j
    BY <1>1, WritingFacts DEF HalfWritten
  <2>5. m \in InSequence(s) <=> \E j \in 1 .. c.written : c.entries[j] = m
    BY <1>3, SetOf
  <2>6. ASSUME NEW j \in 1 .. c.written, c.entries[j] = m PROVE i <= c.written
    BY <2>2, <2>4, <2>6
  <2>7. QED
    BY <2>2, <2>3, <2>4, <2>5, <2>6
<1>5. InSequence(s) \subseteq X
  <2>1. \A i \in 1 .. c.written : c.entries[i] \in X
    BY <1>1, WritingFacts DEF HalfWritten
  <2>2. QED
    BY <1>3, <2>1, SetOf
<1>6. /\ IsHash(hash') /\ DOMAIN hash' = DOMAIN hash \ X
      /\ \A m \in DOMAIN hash' : SameHash(hash'[m], hash[m])
  <2>1. IsHash(hash)
    BY DEF Inv, TypeInv, IsHash
  <2>2. s # <<>> => s[1] \in DOMAIN hash
    <3>1. s # <<>> => s[1] \in InSequence(s)
      BY <1>3, TailOf
    <3>2. QED
      BY <3>1, <1>4, <1>5
  <2>3. /\ IsHash(hash') /\ DOMAIN hash' = DOMAIN hash \ InSequence(s)
        /\ \A m \in DOMAIN hash' : SameHash(hash'[m], hash[m])
    BY <1>1, <1>3, <2>1, <2>2, FreeHashesEffect
  <2>4. QED
    BY <1>4, <1>5, <2>3
<1>7. TypeInv'
  BY <1>1, <1>2, <1>6 DEF Inv, TypeInv, IsHash
<1>8. Entry(t)' = X /\ Chain(t)' = Chain(t) /\ Claims(t)' = Claims(t)
  BY <1>2 DEF Entry, Chain, Claims
<1>9. \A m \in DirNos \ X : Untouched(m)
  BY <1>1, <1>6 DEF Untouched, SameHash
<1>10. DOS' \cap X = {} /\ DOMAIN hash' \cap X = {}
  BY <1>6 DEF DOS
<1>11. Touches(t, X)
  <2>1. X \subseteq DirNos
    BY <1>1, WritingFacts DEF HalfWritten
  <2>2. (\A k \in DOS \ X : List(k) \cap X = {}) /\ (\A u \in Tasks \ {t} : X \cap Reach(u) = {})
    BY <1>1, WritingApart
  <2>3. QED
    BY <1>9, <1>10, <2>1, <2>2 DEF Touches
<1>12. TaskOK(t)'
  <2>1. TaskOK(t) /\ CallOK(c) /\ c.op \in {"create", "rename"} /\ c.src = 0
    BY <1>1, WritingFacts DEF HalfWritten
  <2>2. CallOK(call[t])'
    BY <1>1, <1>2, <2>1 DEF CallOK, Making
  <2>3. EntriesOK(t)' /\ SrcOK(t)'
    BY <1>2, <1>8, <1>10, <2>1 DEF EntriesOK, SrcOK
  <2>4. ChainOK(t)'
    <3>1. ASSUME c.op = "rename" PROVE Whole(t)' /\ hash'[Head(c.chain)].FirstBlock = c.data
      <4>1. PICK h \in DirNos : /\ h = Head(c.chain) /\ h \in DOS' /\ c.chain = NameSpaceList(h)'
                               /\ hash'[h].FirstBlock = c.data
        BY <1>1, <1>9, <3>1, ReplacedStays
      <4>2. QED
        BY <1>2, <4>1 DEF Whole
    <3>2. QED
      BY <1>2, <3>1 DEF ChainOK, Making
  <2>5. QED
    BY <1>8, <2>1, <2>2, <2>3, <2>4 DEF TaskOK
<1>13. \A u \in Tasks \ {t} : Claims(t)' \cap Claims(u) = {} /\ call'[t].locks \cap call[u].locks = {}
  BY <1>2, <1>8 DEF Inv, StructInv, Apart
<1>14. \A k \in DOS \ X : /\ List(k) \cap Claims(t)' # {} => hash[k].Parent \in call'[t].locks
                          /\ k \in Entry(t) => k \in Entry(t)'
  BY <1>2, <1>8 DEF Inv, StructInv, ListOK
<1>15. 0 \notin X
  BY <1>1, WritingFacts DEF HalfWritten
<1>16. StructInv'
  BY <1>2, <1>7, <1>10, <1>11, <1>12, <1>13, <1>14, <1>15, StructStep DEF Inv
<1>17. StreamInv'
  BY <1>1, <1>2, <1>7, NoNewStream DEF Inv, Used
<1>18. QED
  BY <1>7, <1>16, <1>17

\* What the record of name space i says of call c.
IsNewRecord(r, c, i) ==
  /\ r \in Records /\ r # FREE_NODE
  /\ r.Subdirectory = c.dir /\ r.Name = c.name /\ r.NameSpace = i /\ r.Kind = c.kind
  /\ r.NameList = (IF i = K THEN 0 ELSE c.entries[i + 1])
  /\ r.PrimaryEntry = c.entries[1] /\ r.FirstBlock = c.data

LEMMA NewRecordFacts ==
  ASSUME Inv, NEW t \in Tasks, call[t].pc = "write", NEW i \in 1 .. K
  PROVE  IsNewRecord(NewRecord(call[t], i), call[t], i)
<1> DEFINE c == call[t]
           next == IF i = K THEN 0 ELSE c.entries[i + 1]
<1>1. /\ c.dir \in DirNos /\ c.name \in Names /\ c.kind \in {"dir", "file"} /\ c.data \in Streams
  BY CallFacts DEF Inv
<1>2. next \in DirNos /\ c.entries[1] \in DirNos
  <2>1. \A j \in 1 .. K : c.entries[j] \in DirNos
    BY WritingFacts DEF HalfWritten
  <2>2. 1 \in 1 .. K /\ (i # K => i + 1 \in 1 .. K)
    BY Constants
  <2>3. QED
    BY <2>1, <2>2, DirNosSize
<1>3. NewRecord(c, i) = Record(c.dir, c.name, i, c.kind, next, c.entries[1], c.data)
  BY DEF NewRecord, K
<1> HIDE DEF next
<1>4. NewRecord(c, i) \in Records
  BY <1>1, <1>2, <1>3 DEF Record, Records, NameSpaces, K
<1>5. QED
  BY <1>3, <1>4, Constants DEF Record, next, IsNewRecord

\* What a step that writes a record of call c does.
Wrote(c) ==
  LET i == c.written + 1
      n == c.entries[i]
      p == c.entries[1]
  IN /\ c.pc = "write" /\ i \in 1 .. K /\ n \notin DOMAIN hash
     /\ UNCHANGED <<ending, owner, bits, calls, errors, orphaned>>
     /\ table' = [table EXCEPT ![n] = NewRecord(c, i)]
     /\ table' \in [DirNos -> Records \cup {FREE_NODE}]
     /\ IsHash(hash') /\ DOMAIN hash' = DOMAIN hash \cup {n}
     /\ hash'[n].Parent = c.dir /\ hash'[n].NameSpace = i /\ hash'[n].Kind = c.kind
     /\ hash'[n].Root = p /\ hash'[n].FirstBlock = c.data /\ hash'[n].Name = c.name
     /\ \A m \in DOMAIN hash \ {p} : SameHash(hash'[m], hash[m])
     /\ p \in DOMAIN hash => SameHash(hash'[p], [hash[p] EXCEPT !.nl = hash'[p].nl])
     /\ p \in DOMAIN hash' /\ hash'[p].Name = c.name /\ hash'[p].nl = SubSeq(c.entries, 2, i)
     /\ i # 1 => n # p /\ hash'[n].nl = <<>>
     /\ \A m \in DOMAIN hash \cup {n} : hash'[m].Blocks =
          (IF m = n THEN 0 ELSE hash[m].Blocks) + (IF i = 1 /\ m = c.dir THEN 1 ELSE 0)

LEMMA WriteEffect ==
  ASSUME Inv, NEW t \in Tasks, WriteDirectoryRecord(t)
  PROVE  Wrote(call[t])
<1> DEFINE c == call[t]
           i == c.written + 1
           n == c.entries[i]
           p == c.entries[1]
           r == NewRecord(c, i)
<1>1. /\ c.pc = "write" /\ hash' = AllocHash(hash, n, r)
      /\ table' = [table EXCEPT ![n] = r]
      /\ UNCHANGED <<ending, owner, bits, calls, errors, orphaned>>
  BY DEF WriteDirectoryRecord
<1>2. /\ c.entries \in Seq(DirNos) /\ Len(c.entries) = K
      /\ c.written \in Nat /\ c.written < K /\ K \in Nat
      /\ \A j \in 1 .. K : /\ c.entries[j] \in DirNos
                           /\ (c.entries[j] \in DOMAIN hash) <=> j <= c.written
      /\ c.written > 0 => /\ hash[c.entries[1]].Name = c.name
                          /\ hash[c.entries[1]].nl = SubSeq(c.entries, 2, c.written)
                          /\ hash[c.entries[1]].Parent = c.dir
      /\ \A j, k \in 1 .. K : c.entries[j] = c.entries[k] => j = k
  <2>1. 1 \in 1 .. K
    BY Constants
  <2>2. QED
    BY <1>1, <2>1, WritingFacts DEF HalfWritten
<1>3. i \in 1 .. K /\ 1 \in 1 .. K /\ i \in Nat /\ (i = 1 <=> c.written = 0) /\ (i # 1 <=> c.written > 0)
      /\ i - 1 = c.written
  BY <1>2
<1>4. n \in DirNos /\ n \notin DOMAIN hash /\ (i = 1 => n = p) /\ (i # 1 => n # p /\ p \in DOMAIN hash)
  <2>1. i = c.written + 1
    OBVIOUS
  <2> HIDE DEF i
  <2>2. n \in DirNos /\ n \notin DOMAIN hash
    BY <1>2, <1>3, <2>1
  <2>3. i # 1 => p \in DOMAIN hash
    BY <1>2, <1>3
  <2>4. QED
    BY <2>2, <2>3
<1> HIDE DEF i
<1>5. /\ r \in Records /\ r.Subdirectory = c.dir /\ r.Name = c.name /\ r.NameSpace = i /\ r.Kind = c.kind
      /\ r.PrimaryEntry = p /\ r.FirstBlock = c.data
  BY <1>1, <1>3, NewRecordFacts DEF IsNewRecord
<1> HIDE DEF r, n, p
<1>6. table' \in [DirNos -> Records \cup {FREE_NODE}]
  BY <1>1, <1>4, <1>5 DEF Inv, TypeInv
<1>7. IsHash(hash)
  BY DEF Inv, TypeInv, IsHash
<1>8. AllocHashed(hash', hash, n, r)
  <2>1. r.NameSpace = 1 \/ r.PrimaryEntry \in DOMAIN hash
    BY <1>4, <1>5
  <2>2. QED
    BY <1>1, <1>4, <1>5, <1>7, <2>1, AllocHashEffect
<1>9. /\ IsHash(hash') /\ DOMAIN hash' = DOMAIN hash \cup {n}
      /\ hash'[n].Parent = (IF i = 1 THEN c.dir ELSE hash[p].Parent)
      /\ hash'[n].NameSpace = i /\ hash'[n].Kind = c.kind
      /\ hash'[n].Root = p /\ hash'[n].FirstBlock = c.data /\ hash'[n].Name = c.name /\ hash'[n].nl = <<>>
      /\ hash'[n].Blocks = (IF i = 1 /\ c.dir = n THEN 1 ELSE 0)
      /\ \A m \in DOMAIN hash : hash'[m].Blocks = hash[m].Blocks + (IF i = 1 /\ m = c.dir THEN 1 ELSE 0)
      /\ \A m \in DOMAIN hash \ {p} : SameHash(hash'[m], hash[m])
      /\ i # 1 => /\ hash'[p].nl = Append(hash[p].nl, n)
                  /\ SameHash(hash'[p], [hash[p] EXCEPT !.nl = Append(hash[p].nl, n)])
  BY <1>5, <1>8 DEF AllocHashed
<1>10. p \in DOMAIN hash /\ i # 1 =>
          /\ SameHash(hash'[p], [hash[p] EXCEPT !.nl = hash'[p].nl]) /\ hash'[p].Name = hash[p].Name
  <2>1. ASSUME p \in DOMAIN hash PROVE hash[p] \in Hashes
    BY <2>1 DEF Inv, TypeInv
  <2>2. QED
    BY <1>9, <2>1 DEF SameHash, Hashes
<1>11. p \in DOMAIN hash => i # 1
  BY <1>4
<1>12. hash'[n].Parent = c.dir
  BY <1>2, <1>3, <1>9 DEF p
<1>13. p \in DOMAIN hash' /\ hash'[p].Name = c.name
  <2>1. CASE i = 1
    BY <1>4, <1>9, <2>1
  <2>2. CASE i # 1
    BY <1>2, <1>3, <1>4, <1>9, <1>10, <2>2 DEF p
  <2>3. QED
    BY <2>1, <2>2
<1>14. hash'[p].nl = SubSeq(c.entries, 2, i)
  <2>1. i \in 1 .. Len(c.entries)
    BY <1>2, <1>3
  <2>2. /\ i = 1 => SubSeq(c.entries, 2, i) = <<>>
        /\ i > 1 => SubSeq(c.entries, 2, i) = Append(SubSeq(c.entries, 2, i - 1), c.entries[i])
    BY <1>2, <2>1, FirstOnes
  <2>3. CASE i = 1
    BY <1>4, <1>9, <2>2, <2>3
  <2>4. CASE i # 1
    <3>1. i > 1 /\ i - 1 = c.written /\ c.written > 0
      BY <1>3, <2>4
    <3>2. hash[p].nl = SubSeq(c.entries, 2, i - 1)
      BY <1>2, <3>1 DEF p
    <3>3. QED
      BY <1>9, <2>2, <2>4, <3>1, <3>2 DEF n
  <2>5. QED
    BY <2>3, <2>4
<1>15. \A m \in DOMAIN hash \cup {n} : hash'[m].Blocks =
                 (IF m = n THEN 0 ELSE hash[m].Blocks) + (IF i = 1 /\ m = c.dir THEN 1 ELSE 0)
  BY <1>4, <1>9
<1>16. QED
  BY <1>1, <1>3, <1>4, <1>6, <1>9, <1>10, <1>11, <1>12, <1>13, <1>14, <1>15 DEF i, n, p, r, Wrote

\* What call c does after it has written a record.
WentOn(c, t) ==
  LET i == c.written + 1
  IN \/ i = K /\ c.op = "create" /\ call'[t] = NoCall
     \/ /\ i < K \/ (i = K /\ c.op = "rename")
        /\ call'[t].op = c.op /\ call'[t].locks = c.locks
        /\ call'[t].dir = c.dir /\ call'[t].name = c.name /\ call'[t].old = c.old
        /\ call'[t].kind = c.kind /\ call'[t].data = c.data /\ call'[t].src = c.src
        /\ call'[t].chain = c.chain
        /\ i < K => call'[t].entries = c.entries /\ call'[t].written = i /\ call'[t].pc = "write"
        /\ i = K => call'[t].entries = <<>> /\ call'[t].written = 0 /\ call'[t].pc = "drop"

LEMMA WriteCallEffect ==
  ASSUME Inv, NEW t \in Tasks, WriteDirectoryRecord(t)
  PROVE  /\ call' \in [Tasks -> Calls]
         /\ \A u \in Tasks \ {t} : call'[u] = call[u]
         /\ WentOn(call[t], t)
<1> DEFINE c == call[t]
           i == c.written + 1
<1>1. /\ c.pc = "write"
      /\ IF i < K THEN call' = [call EXCEPT ![t].written = i]
         ELSE IF c.op = "create" THEN Return(t)
         ELSE call' = [call EXCEPT ![t].entries = <<>>, ![t].written = 0, ![t].pc = "drop"]
  BY DEF WriteDirectoryRecord, K
<1>2. /\ c \in Calls /\ c.op \in {"create", "rename"} /\ c.written \in Nat /\ c.written < K /\ K \in Nat
  BY <1>1, WritingFacts DEF HalfWritten
<1>3. i \in 0 .. K /\ i \in Nat /\ (i < K \/ i = K) /\ ~(i < K /\ i = K)
  BY <1>2
<1> HIDE DEF i
<1>4. CASE i = K /\ c.op = "create"
  <2>1. Return(t)
    BY <1>1, <1>3, <1>4
  <2>2. QED
    BY <1>4, <2>1, ReturnEffect DEF Inv, i, WentOn
<1>5. CASE i < K
  <2> DEFINE d == [c EXCEPT !.written = i]
  <2>1. call' = [call EXCEPT ![t] = d]
    BY <1>1, <1>5 DEF Inv, TypeInv
  <2>2. /\ d \in Calls /\ d.op = c.op /\ d.pc = c.pc /\ d.locks = c.locks
        /\ d.dir = c.dir /\ d.name = c.name /\ d.old = c.old
        /\ d.kind = c.kind /\ d.data = c.data /\ d.src = c.src
        /\ d.entries = c.entries /\ d.written = i /\ d.chain = c.chain
    BY <1>2, <1>3 DEF Calls, K
  <2> HIDE DEF d
  <2>3. call' \in [Tasks -> Calls] /\ call'[t] = d /\ \A u \in Tasks \ {t} : call'[u] = call[u]
    BY <2>1, <2>2, NewCall DEF Inv
  <2>4. QED
    BY <1>1, <1>3, <1>5, <2>2, <2>3 DEF i, WentOn
<1>6. CASE i = K /\ c.op = "rename"
  <2> DEFINE d == [c EXCEPT !.entries = <<>>, !.written = 0, !.pc = "drop"]
  <2>1. call' = [call EXCEPT ![t] = d]
    BY <1>1, <1>3, <1>6 DEF Inv, TypeInv
  <2>2. <<>> \in Seq(DirNos) /\ 0 \in 0 .. NameSpaceCount
    BY EmptyFacts, Constants
  <2>3. /\ d \in Calls /\ d.op = c.op /\ d.pc = "drop" /\ d.locks = c.locks
        /\ d.dir = c.dir /\ d.name = c.name /\ d.old = c.old
        /\ d.kind = c.kind /\ d.data = c.data /\ d.src = c.src
        /\ d.entries = <<>> /\ d.written = 0 /\ d.chain = c.chain
    BY <1>2, <2>2 DEF Calls
  <2> HIDE DEF d
  <2>4. call' \in [Tasks -> Calls] /\ call'[t] = d /\ \A u \in Tasks \ {t} : call'[u] = call[u]
    BY <2>1, <2>3, NewCall DEF Inv
  <2>5. QED
    BY <1>3, <1>6, <2>3, <2>4 DEF i, WentOn
<1>7. QED
  BY <1>2, <1>3, <1>4, <1>5, <1>6

\* The list of the DOS record is what was written of the new entry.
IsStart(h, e, i) ==
  h \in Seq(DirNos) /\ Len(h) = i /\ DOMAIN h = 1 .. i /\ \A j \in 1 .. i : h[j] = e[j]

LEMMA WrittenList ==
  ASSUME NEW e \in Seq(DirNos), Len(e) = K, NEW i \in 1 .. K
  PROVE  IsStart(<<e[1]>> \o SubSeq(e, 2, i), e, i)
<1> DEFINE w == SubSeq(e, 2, i)
           p == e[1]
           h == <<p>> \o w
<1>1. i \in 1 .. Len(e) /\ p \in DirNos /\ i \in Nat
  <2>1. 1 \in 1 .. Len(e)
    BY Constants
  <2>2. QED
    BY <2>1, SetOf, Constants
<1>2. w \in Seq(DirNos) /\ Len(w) = i - 1 /\ \A j \in 1 .. Len(w) : w[j] = e[j + 1]
  BY <1>1, FirstOnes
<1> HIDE DEF w
<1>3. h = <<p>> \o w
  OBVIOUS
<1> HIDE DEF h
<1>4. /\ h \in Seq(DirNos) /\ Len(h) = Len(w) + 1 /\ h[1] = p
      /\ \A j \in 2 .. Len(w) + 1 : h[j] = w[j - 1]
  BY <1>1, <1>2, <1>3, Prefixed
<1>5. Len(h) = i /\ DOMAIN h = 1 .. i
  BY <1>1, <1>2, <1>4, SetOf
<1>6. ASSUME NEW j \in 1 .. i PROVE h[j] = e[j]
  <2>1. CASE j = 1
    BY <1>4, <2>1
  <2>2. CASE j # 1
    <3>1. j \in 2 .. Len(w) + 1 /\ j - 1 \in 1 .. Len(w) /\ (j - 1) + 1 = j
      BY <1>1, <1>2, <2>2
    <3>2. QED
      BY <1>2, <1>4, <3>1
  <2>3. QED
    BY <2>1, <2>2
<1>7. QED
  BY <1>4, <1>5, <1>6 DEF h, w, IsStart

LEMMA WriteStruct ==
  ASSUME Inv, StreamInv, NEW t \in Tasks, WriteDirectoryRecord(t)
  PROVE  TypeInv' /\ StructInv' /\ StreamInv'
<1>0. PICK c \in Calls : c = call[t]
  BY CallFacts DEF Inv
<1> DEFINE i == c.written + 1
           e == c.entries
           n == e[i]
           p == e[1]
<1>1. /\ call[t].pc = "write" /\ i \in 1 .. K /\ n \notin DOMAIN hash
      /\ UNCHANGED <<ending, owner, bits, calls, errors, orphaned>>
      /\ table' = [table EXCEPT ![n] = NewRecord(c, i)]
      /\ table' \in [DirNos -> Records \cup {FREE_NODE}]
      /\ IsHash(hash') /\ DOMAIN hash' = DOMAIN hash \cup {n}
      /\ hash'[n].Parent = c.dir /\ hash'[n].NameSpace = i /\ hash'[n].Kind = c.kind
      /\ hash'[n].Root = p /\ hash'[n].FirstBlock = c.data /\ hash'[n].Name = c.name
      /\ \A m \in DOMAIN hash \ {p} : SameHash(hash'[m], hash[m])
      /\ p \in DOMAIN hash => SameHash(hash'[p], [hash[p] EXCEPT !.nl = hash'[p].nl])
      /\ p \in DOMAIN hash' /\ hash'[p].Name = c.name /\ hash'[p].nl = SubSeq(e, 2, i)
  <2>1. Wrote(c)
    BY <1>0, WriteEffect
  <2>2. QED
    BY <1>0, <2>1 DEF Wrote
<1>2. HalfWritten(c, t)
  BY <1>0, <1>1, WritingFacts
<1>a. /\ TaskOK(t) /\ CallOK(c) /\ c.op \in {"create", "rename"} /\ c.src = 0
      /\ 0 \notin Entry(t) /\ Entry(t) \subseteq DirNos /\ Entry(t) \cap Chain(t) = {}
      /\ c.kind = "dir" => c.data = 0
      /\ c.dir \in c.locks
  BY <1>2 DEF HalfWritten
<1>b. /\ e \in Seq(DirNos) /\ Len(e) = K /\ c.written \in Nat /\ c.written < K /\ K \in Nat
      /\ \A j \in 1 .. K : e[j] \in Entry(t) /\ e[j] \in DirNos
      /\ \A m \in Entry(t) : \E j \in 1 .. K : m = e[j]
      /\ \A j, k \in 1 .. K : e[j] = e[k] => j = k
  BY <1>2 DEF HalfWritten
<1>c. \A j \in 1 .. K : /\ (e[j] \in DOMAIN hash) <=> j <= c.written
                        /\ j <= c.written =>
                             /\ table[e[j]] = NewRecord(c, j)
                             /\ hash[e[j]].Parent = c.dir
                             /\ hash[e[j]].NameSpace = j
                             /\ hash[e[j]].Kind = c.kind
                             /\ hash[e[j]].FirstBlock = c.data
                             /\ hash[e[j]].Root = p
  BY <1>2 DEF HalfWritten
<1>d. i \in 1 .. K /\ i \in Nat /\ i - 1 = c.written /\ i = c.written + 1
      /\ \A j \in 1 .. K : j # i => (j <= i <=> j <= c.written)
  BY <1>b
<1> HIDE DEF i
<1>3. /\ call' \in [Tasks -> Calls]
      /\ \A u \in Tasks \ {t} : call'[u] = call[u]
      /\ \/ i = K /\ c.op = "create" /\ call'[t] = NoCall
         \/ /\ i < K \/ (i = K /\ c.op = "rename")
            /\ call'[t].op = c.op /\ call'[t].locks = c.locks
            /\ call'[t].dir = c.dir /\ call'[t].name = c.name /\ call'[t].old = c.old
            /\ call'[t].kind = c.kind /\ call'[t].data = c.data /\ call'[t].src = c.src
            /\ call'[t].chain = c.chain
            /\ i < K => /\ call'[t].entries = e /\ call'[t].written = i /\ call'[t].pc = "write"
            /\ i = K => call'[t].entries = <<>> /\ call'[t].written = 0 /\ call'[t].pc = "drop"
  <2>1. call' \in [Tasks -> Calls] /\ (\A u \in Tasks \ {t} : call'[u] = call[u]) /\ WentOn(c, t)
    BY <1>0, WriteCallEffect
  <2>2. QED
    BY <2>1 DEF WentOn, i
<1>e. \A j \in 1 .. K : IsNewRecord(NewRecord(c, j), c, j)
  BY <1>0, <1>1, NewRecordFacts
<1>4. TypeInv'
  BY <1>1, <1>3 DEF Inv, TypeInv, IsHash
<1>5. PICK X : X = Entry(t)
  OBVIOUS
<1>6. n \in X /\ n \in DirNos /\ p \in X /\ p \in DirNos /\ 1 \in 1 .. K
      /\ \A m \in DirNos : table'[m] = IF m = n THEN NewRecord(c, i) ELSE table[m]
  <2>1. 1 \in 1 .. K
    BY Constants
  <2>2. n \in X /\ n \in DirNos /\ p \in X /\ p \in DirNos
    BY <1>b, <1>d, <1>5, <2>1
  <2>3. \A m \in DirNos : table'[m] = IF m = n THEN NewRecord(c, i) ELSE table[m]
    BY <1>1, <2>2 DEF Inv, TypeInv
  <2>4. QED
    BY <2>1, <2>2, <2>3
\* The records written so far, the new one among them.
<1>7. ASSUME NEW j \in 1 .. K
      PROVE  /\ e[j] \in DOMAIN hash' <=> j <= i
             /\ j <= i => /\ table'[e[j]] = NewRecord(c, j)
                          /\ hash'[e[j]].Parent = c.dir /\ hash'[e[j]].NameSpace = j
                          /\ hash'[e[j]].Kind = c.kind /\ hash'[e[j]].FirstBlock = c.data
                          /\ hash'[e[j]].Root = p
  <2>1. CASE j = i
    BY <1>1, <1>6, <1>d, <2>1
  <2>2. CASE j # i
    <3>1. e[j] # n /\ (j <= i <=> j <= c.written) /\ e[j] \in DirNos
      BY <1>b, <1>d, <2>2
    <3>2. e[j] \in DOMAIN hash' <=> j <= i
      BY <1>1, <1>c, <3>1
    <3>3. ASSUME j <= i
          PROVE  /\ hash'[e[j]].Parent = c.dir /\ hash'[e[j]].NameSpace = j
                 /\ hash'[e[j]].Kind = c.kind /\ hash'[e[j]].FirstBlock = c.data
                 /\ hash'[e[j]].Root = p
      <4>1. /\ e[j] \in DOMAIN hash /\ hash[e[j]].Parent = c.dir /\ hash[e[j]].NameSpace = j
            /\ hash[e[j]].Kind = c.kind /\ hash[e[j]].FirstBlock = c.data
            /\ hash[e[j]].Root = p
        BY <1>c, <3>1, <3>3
      <4>2. CASE e[j] # p
        BY <1>1, <4>1, <4>2 DEF SameHash
      <4>3. CASE e[j] = p
        <5>1. hash[p] \in Hashes
          BY <4>1, <4>3 DEF Inv, TypeInv
        <5>2. SameHash(hash'[p], [hash[p] EXCEPT !.nl = hash'[p].nl])
          BY <1>1, <4>1, <4>3
        <5>3. QED
          BY <4>1, <4>3, <5>1, <5>2 DEF SameHash, Hashes
      <4>4. QED
        BY <4>2, <4>3
    <3>4. j <= i => table'[e[j]] = NewRecord(c, j)
      BY <1>c, <1>6, <3>1
    <3>5. QED
      BY <3>2, <3>3, <3>4
  <2>3. QED
    BY <2>1, <2>2
<1>8. \A m \in DOMAIN hash' \cap X : \E j \in 1 .. K : m = e[j] /\ j <= i
  BY <1>b, <1>5, <1>7
<1>9. \A m \in DOS' \cap X : m = p
  BY <1>6, <1>7, <1>8 DEF DOS
<1>10. \A m \in DirNos \ X : Untouched(m)
  <2>1. SUFFICES ASSUME NEW m \in DirNos, m \notin X PROVE Untouched(m)
    OBVIOUS
  <2>2. m # n /\ m # p /\ table'[m] = table[m]
    BY <1>6, <2>1
  <2>3. QED
    BY <1>1, <2>2 DEF Untouched, SameHash
\* The list of the new entry.
<1>11. PICK l : l = NameSpaceList(p)'
  OBVIOUS
<1>12. l \in Seq(DirNos) /\ Len(l) = i /\ DOMAIN l = 1 .. i /\ \A j \in 1 .. i : l[j] = e[j]
  <2>1. l = <<p>> \o SubSeq(e, 2, i)
    BY <1>1, <1>11 DEF NameSpaceList
  <2>2. IsStart(<<e[1]>> \o SubSeq(e, 2, i), e, i)
    BY <1>b, <1>d, WrittenList
  <2>3. QED
    BY <2>1, <2>2 DEF IsStart
<1>13. List(p)' = InSequence(l) /\ List(p)' \subseteq X
  <2>1. List(p)' = InSequence(l)
    BY <1>11 DEF List
  <2>2. \A m \in InSequence(l) : \E j \in 1 .. i : m = e[j]
    BY <1>12, SetOf
  <2>3. QED
    BY <1>b, <1>d, <1>5, <2>1, <2>2
<1>14. Touches(t, X)
  <2>1. (\A k \in DOS \ X : List(k) \cap X = {}) /\ (\A u \in Tasks \ {t} : X \cap Reach(u) = {})
    BY <1>1, <1>5, WritingApart
  <2>2. \A m \in DOS' \cap X : List(m)' \subseteq X
    BY <1>9, <1>13
  <2>3. QED
    BY <1>a, <1>5, <1>10, <2>1, <2>2 DEF Touches
<1>15. /\ \/ call'[t].locks = c.locks /\ i < K /\ Entry(t)' = Entry(t) /\ Claims(t)' = Claims(t)
          \/ call'[t].locks = c.locks /\ i = K /\ Entry(t)' = {} /\ Claims(t)' = Chain(t)
          \/ call'[t].locks = {} /\ i = K /\ Entry(t)' = {} /\ Claims(t)' = {}
       /\ call'[t].data \in {0, c.data}
  <2>1. CASE i = K /\ c.op = "create" /\ call'[t] = NoCall
    BY <2>1, RestingOK, NoCallType DEF Inv
  <2>2. CASE i < K /\ call'[t].entries = e /\ call'[t].chain = c.chain /\ call'[t].locks = c.locks
             /\ call'[t].data = c.data
    BY <1>0, <2>2 DEF Entry, Chain, Claims
  <2>3. CASE i = K /\ call'[t].entries = <<>> /\ call'[t].chain = c.chain /\ call'[t].locks = c.locks
             /\ call'[t].data = c.data
    BY <1>0, <2>3, EmptyFacts DEF Entry, Chain, Claims
  <2>4. QED
    BY <1>3, <2>1, <2>2, <2>3
<1>16. Claims(t)' \subseteq Claims(t) /\ (i < K => Entry(t)' = X) /\ (i = K => Entry(t)' = {})
       /\ (call'[t].locks = c.locks \/ (call'[t].locks = {} /\ Claims(t)' = {}))
  <2>1. ~(i < K /\ i = K)
    BY <1>b, <1>d
  <2>2. QED
    BY <1>5, <1>15, <2>1 DEF Claims
<1>17. TaskOK(t)'
  <2>1. CASE call'[t] = NoCall
    BY <2>1, RestingOK DEF Inv
  <2>2. CASE /\ i < K \/ (i = K /\ c.op = "rename")
             /\ call'[t].op = c.op /\ call'[t].locks = c.locks
             /\ call'[t].dir = c.dir /\ call'[t].name = c.name /\ call'[t].old = c.old
             /\ call'[t].kind = c.kind /\ call'[t].data = c.data /\ call'[t].src = c.src
             /\ call'[t].chain = c.chain
             /\ i < K => /\ call'[t].entries = e /\ call'[t].written = i /\ call'[t].pc = "write"
             /\ i = K => call'[t].entries = <<>> /\ call'[t].written = 0 /\ call'[t].pc = "drop"
    <3>0. Chain(t)' = Chain(t)
      BY <1>0, <2>2 DEF Chain
    <3>1. c.op = "rename" => \E h \in DirNos : /\ h = Head(c.chain) /\ h \in DOS' /\ c.chain = NameSpaceList(h)'
                                               /\ hash'[h].FirstBlock = c.data
      BY <1>0, <1>1, <1>5, <1>10, ReplacedStays
    <3>2. c.op = "rename" => Whole(t)' /\ hash'[Head(call'[t].chain)].FirstBlock = c.data
      BY <2>2, <3>1 DEF Whole
    <3>3. SrcOK(t)'
      BY <1>a, <2>2 DEF SrcOK
    <3>4. 0 \notin Claims(t)' /\ (Entry(t) \cap Chain(t) = {})'
      <4>1. 0 \notin Claims(t) /\ Entry(t) \cap Chain(t) = {}
        BY <1>a DEF TaskOK
      <4>2. QED
        BY <1>3, <1>5, <1>16, <2>2, <3>0, <4>1
    <3>5. CASE i < K
      <4>1. CallOK(call[t])'
        BY <1>0, <1>1, <1>a, <1>b, <2>2, <3>5 DEF CallOK, Making
      <4>2. EntriesOK(t)'
        <5>1. \A j \in 1 .. K : j <= i => table'[e[j]] = NewRecord(call'[t], j)
          BY <1>7, <2>2, <3>5 DEF NewRecord
        <5>2. hash'[e[1]].Name = c.name /\ hash'[e[1]].nl = SubSeq(e, 2, i)
          BY <1>1
        <5>3. \A j \in 1 .. K : e[j] \in DOMAIN hash' <=> j <= i
          BY <1>7
        <5>4. call'[t].entries = e /\ call'[t].written = i /\ call'[t].pc = "write" /\ call'[t].name = c.name
          BY <2>2, <3>5
        <5>5. QED
          BY <5>1, <5>2, <5>3, <5>4 DEF EntriesOK
      <4>3. ChainOK(t)'
        BY <2>2, <3>2, <3>5 DEF ChainOK, Making
      <4>4. QED
        BY <3>3, <3>4, <4>1, <4>2, <4>3 DEF TaskOK
    <3>6. CASE i = K
      <4>0. c.op = "rename"
        BY <1>d, <1>b, <2>2, <3>6
      <4>1. CallOK(call[t])'
        BY <1>0, <1>1, <1>a, <2>2, <3>6, <4>0, EmptyFacts, Constants DEF CallOK, Making, Deleting
      <4>2. EntriesOK(t)'
        BY <1>16, <2>2, <3>6 DEF EntriesOK
      <4>3. ChainOK(t)'
        BY <2>2, <3>2, <3>6, <4>0 DEF ChainOK, Making
      <4>4. QED
        BY <3>3, <3>4, <4>1, <4>2, <4>3 DEF TaskOK
    <3>7. QED
      BY <2>2, <3>5, <3>6
  <2>3. QED
    BY <1>3, <2>1, <2>2
<1>18. \A u \in Tasks \ {t} : Claims(t)' \cap Claims(u) = {} /\ call'[t].locks \cap call[u].locks = {}
  BY <1>0, <1>16 DEF Inv, StructInv, Apart
<1>19. \A k \in DOS \ X : /\ List(k) \cap Claims(t)' # {} => hash[k].Parent \in call'[t].locks
                          /\ k \in Entry(t) => k \in Entry(t)'
  BY <1>0, <1>5, <1>16 DEF Inv, StructInv, ListOK
<1>20. \A m \in DOMAIN hash' \cap X : RecordOK(m)'
  <2>1. SUFFICES ASSUME NEW m \in DOMAIN hash', m \in X PROVE RecordOK(m)'
    OBVIOUS
  <2>2. PICK j \in 1 .. K : m = e[j] /\ j <= i
    BY <1>8, <2>1
  <2>3. /\ table'[m] = NewRecord(c, j) /\ hash'[m].Parent = c.dir /\ hash'[m].NameSpace = j
        /\ hash'[m].Kind = c.kind /\ hash'[m].FirstBlock = c.data /\ hash'[m].Root = p
    BY <1>7, <2>2
  <2>4. LET r == NewRecord(c, j)
        IN /\ r # FREE_NODE /\ r.Subdirectory = c.dir /\ r.NameSpace = j /\ r.Kind = c.kind
           /\ r.PrimaryEntry = p /\ r.FirstBlock = c.data
    BY <1>e DEF IsNewRecord
  <2>5. m \in DirNos
    BY <1>a, <1>5, <2>1
  <2>6. QED
    BY <1>a, <2>3, <2>4, <2>5 DEF RecordOK, Used
<1>21. \A m \in DOS' \cap X : ListOK(m)'
  <2>1. SUFFICES ASSUME p \in DOS' PROVE ListOK(p)'
    BY <1>9
  <2>2. Linked(p)'
    <3>1. hash'[p].Parent = c.dir
      BY <1>6, <1>7, <1>d
    <3>2. \A j \in DOMAIN l : /\ l[j] \in DOMAIN hash'
                              /\ hash'[l[j]].NameSpace = j /\ hash'[l[j]].Root = p
                              /\ hash'[l[j]].Parent = c.dir
      <4>1. SUFFICES ASSUME NEW j \in 1 .. i
                     PROVE  /\ e[j] \in DOMAIN hash' /\ hash'[e[j]].NameSpace = j
                            /\ hash'[e[j]].Root = p /\ hash'[e[j]].Parent = c.dir
        BY <1>12
      <4>2. j \in 1 .. K /\ j <= i
        BY <1>b, <1>d
      <4>3. QED
        BY <1>7, <4>2
    <3>3. QED
      BY <1>11, <3>1, <3>2 DEF Linked
  <2>3. ASSUME NEW u \in Tasks, List(p)' \cap Claims(u)' # {} PROVE hash'[p].Parent \in call'[u].locks
    <3>1. hash'[p].Parent = c.dir
      BY <1>6, <1>7, <1>d
    <3>2. CASE u = t
      BY <1>a, <1>16, <2>3, <3>1, <3>2
    <3>3. CASE u # t
      <4>1. Claims(u)' = Claims(u)
        BY <1>3, <3>3 DEF Claims, Entry, Chain
      <4>2. Claims(t) \cap Claims(u) = {}
        BY <3>3 DEF Inv, StructInv, Apart
      <4>3. QED
        BY <1>5, <1>13, <2>3, <4>1, <4>2 DEF Claims
    <3>4. QED
      BY <3>2, <3>3
  <2>4. ASSUME \A u \in Tasks : p \notin Entry(u)' PROVE Written(p)'
    <3>1. i = K
      BY <1>b, <1>d, <1>6, <1>16, <2>4
    <3>2. \A j \in 1 .. K : l[j] = e[j] /\ table'[e[j]] = NewRecord(c, j)
      BY <1>b, <1>7, <1>12, <3>1
    <3>3. \A j \in 1 .. K : /\ NewRecord(c, j).Name = c.name
                            /\ NewRecord(c, j).NameList = IF j = K THEN 0 ELSE e[j + 1]
      BY <1>e DEF IsNewRecord
    <3>4. \A j \in 1 .. K : j # K => l[j + 1] = e[j + 1]
      <4>1. \A j \in 1 .. K : j # K => j + 1 \in 1 .. K
        BY <1>b
      <4>2. QED
        BY <3>2, <4>1
    <3>5. table'[p].Name = c.name
      BY <1>6, <3>2, <3>3
    <3>6. QED
      BY <1>11, <1>12, <3>1, <3>2, <3>3, <3>4, <3>5 DEF Written
  <2>5. QED
    BY <2>2, <2>3, <2>4 DEF ListOK
<1>22. StructInv'
  BY <1>a, <1>3, <1>4, <1>5, <1>14, <1>17, <1>18, <1>19, <1>20, <1>21, StructStep DEF Inv
<1>23. StreamInv'
  <2>1. \A m \in Used(table)' : table'[m].FirstBlock = c.data
                                \/ (m \in Used(table) /\ table'[m].FirstBlock = table[m].FirstBlock)
    <3>1. NewRecord(c, i).FirstBlock = c.data
      BY <1>e, <1>d DEF IsNewRecord
    <3>2. QED
      BY <1>6, <3>1 DEF Used
  <2>2. QED
    <3>1. \A u \in Tasks \ {t} : call'[u] = call[u]
      BY <1>3
    <3>2. call'[t].data \in {0, call[t].data}
      BY <1>0, <1>15
    <3>3. \A m \in Used(table)' : table'[m].FirstBlock \in {0, call[t].data}
                                  \/ (m \in Used(table) /\ table'[m].FirstBlock = table[m].FirstBlock)
      BY <1>0, <2>1
    <3>4. calls' = calls /\ TypeInv
      BY <1>1 DEF Inv
    <3>5. QED
      BY <1>4, <3>1, <3>2, <3>3, <3>4, NoNewStream
<1>24. QED
  BY <1>4, <1>22, <1>23

-----------------------------------------------------------------------------
(* Renaming in place *)

\* The records of the directory that is renamed get other names, in the hashes or in
\* the directory file.
LEMMA InPlaceStep ==
  ASSUME Inv, TypeInv', NEW t \in Tasks, NEW s, s = call[t].src, s # 0, hash[s].Kind = "dir",
         \A u \in Tasks \ {t} : call'[u] = call[u],
         DOMAIN hash' = DOMAIN hash,
         \A n \in DOMAIN hash : SameHash([hash'[n] EXCEPT !.Name = hash[n].Name], hash[n]),
         \A n \in DOMAIN hash \ List(s) : hash'[n] = hash[n],
         \A n \in DirNos \ List(s) : table'[n] = table[n],
         \A n \in List(s) : \E m \in Names : table'[n] = [table[n] EXCEPT !.Name = m],
         TaskOK(t)', Entry(t) = {}, Entry(t)' = {}, Chain(t)' \subseteq List(s),
         call'[t].locks = call[t].locks \/ (call'[t].locks = {} /\ Claims(t)' = {})
  PROVE  StructInv'
<1>1. /\ s \in DOS /\ s \in DOMAIN hash /\ s \in DirNos /\ ListOK(s) /\ Linked(s) /\ RecordOK(s)
      /\ hash[s].Parent \in call[t].locks
      /\ 0 \notin List(s) /\ s \in List(s)
      /\ \A u \in Tasks \ {t} : List(s) \cap Reach(u) = {}
  BY SrcFacts DEF Inv
<1>2. PICK X : X = List(s)
  OBVIOUS
<1>3. \A n \in DOMAIN hash : /\ hash'[n].Parent = hash[n].Parent /\ hash'[n].NameSpace = hash[n].NameSpace
                             /\ hash'[n].Kind = hash[n].Kind /\ hash'[n].Root = hash[n].Root
                             /\ hash'[n].FirstBlock = hash[n].FirstBlock /\ hash'[n].nl = hash[n].nl
  <2>1. SUFFICES ASSUME NEW n \in DOMAIN hash
                 PROVE  /\ hash'[n].Parent = hash[n].Parent /\ hash'[n].NameSpace = hash[n].NameSpace
                        /\ hash'[n].Kind = hash[n].Kind /\ hash'[n].Root = hash[n].Root
                        /\ hash'[n].FirstBlock = hash[n].FirstBlock /\ hash'[n].nl = hash[n].nl
    OBVIOUS
  <2>2. hash'[n] \in Hashes
    BY DEF TypeInv
  <2>3. SameHash([hash'[n] EXCEPT !.Name = hash[n].Name], hash[n])
    OBVIOUS
  <2>4. QED
    BY <2>2, <2>3 DEF SameHash, Hashes
<1>4. \A n \in DirNos \ X : Untouched(n)
  BY <1>2, <1>3 DEF Untouched
<1>5. DOS' = DOS /\ \A n \in DOS : List(n)' = List(n) /\ NameSpaceList(n)' = NameSpaceList(n)
  BY <1>3 DEF DOS, List, NameSpaceList
<1>6. \A n \in DOS \cap X : n = s
  BY <1>1, <1>2, LinkedFacts DEF Inv
<1>7. X \subseteq DirNos /\ X \subseteq DOMAIN hash
  BY <1>1, <1>2, LinkedFacts, ListFacts DEF Inv
<1>8. Touches(t, X)
  <2>1. \A k \in DOS \ X : List(k) \cap X = {}
    BY <1>1, <1>2, ListsApart DEF Inv
  <2>2. \A k \in DOS' \cap X : List(k)' \subseteq X
    BY <1>2, <1>5, <1>6
  <2>3. QED
    BY <1>1, <1>2, <1>4, <1>7, <2>1, <2>2 DEF Touches
<1>9. Claims(t)' \subseteq X /\ \A u \in Tasks \ {t} : X \cap Claims(u) = {}
  BY <1>1, <1>2 DEF Claims, Reach
<1>10. \A u \in Tasks \ {t} : Claims(t)' \cap Claims(u) = {} /\ call'[t].locks \cap call[u].locks = {}
  BY <1>9 DEF Inv, StructInv, Apart
<1>11. \A k \in DOS \ X : /\ List(k) \cap Claims(t)' # {} => hash[k].Parent \in call'[t].locks
                          /\ k \in Entry(t) => k \in Entry(t)'
  BY <1>8, <1>9 DEF Touches
<1>12. ASSUME NEW n \in X
       PROVE  /\ table[n] \in Records /\ table'[n] \in Records /\ n \in Used(table)
              /\ table'[n].Subdirectory = table[n].Subdirectory /\ table'[n].NameSpace = table[n].NameSpace
              /\ table'[n].Kind = table[n].Kind /\ table'[n].FirstBlock = table[n].FirstBlock
              /\ table'[n].PrimaryEntry = table[n].PrimaryEntry /\ table'[n].NameList = table[n].NameList
  <2>1. n \in DOMAIN hash /\ RecordOK(n)
    BY <1>7 DEF Inv, StructInv
  <2>2. n \in DirNos /\ table[n] \in Records /\ n \in Used(table)
    BY <2>1, RecordFacts DEF RecordOK, Inv
  <2>3. PICK m \in Names : table'[n] = [table[n] EXCEPT !.Name = m]
    BY <1>2
  <2>4. QED
    BY <2>2, <2>3 DEF Records
<1>13. \A n \in DOMAIN hash' \cap X : RecordOK(n)'
  <2>1. SUFFICES ASSUME NEW n \in DOMAIN hash, n \in X PROVE RecordOK(n)'
    OBVIOUS
  <2>2. RecordOK(n)
    BY DEF Inv, StructInv
  <2>3. n \in Used(table)'
    BY <1>7, <1>12, <2>1, FreeNodeAssumption DEF Used
  <2>4. QED
    BY <1>3, <1>12, <2>1, <2>2, <2>3 DEF RecordOK
<1>14. ListOK(s)'
  <2> DEFINE list == NameSpaceList(s)
  <2>1. List(s)' = X /\ NameSpaceList(s)' = list /\ \A i \in DOMAIN list : list[i] \in X /\ list[i] \in DOMAIN hash
    BY <1>1, <1>2, <1>5, <1>7, ListFacts DEF Inv
  <2>2. Linked(s)'
    BY <1>1, <1>3, <2>1 DEF Linked
  <2>3. ASSUME NEW u \in Tasks, X \cap Claims(u)' # {} PROVE hash'[s].Parent \in call'[u].locks
    <3>1. CASE u = t
      BY <1>1, <1>3, <2>3, <3>1
    <3>2. CASE u # t
      <4>1. Claims(u)' = Claims(u)
        BY <3>2 DEF Claims, Entry, Chain
      <4>2. QED
        BY <1>9, <2>3, <3>2, <4>1
    <3>3. QED
      BY <3>1, <3>2
  <2>4. Written(s)
    <3>1. \A u \in Tasks : s \notin Entry(u)
      BY <1>1, <1>2, <1>9 DEF Claims
    <3>2. QED
      BY <1>1, <3>1 DEF ListOK
  <2>5. Written(s)'
    <3>1. Len(list) = K /\ DOMAIN list = 1 .. K /\ hash'[s].Kind = "dir"
      BY <1>1, <1>3, <2>4, ListFacts DEF Written, Inv
    <3>2. \A i \in 1 .. K : table'[list[i]].NameList = table[list[i]].NameList
      BY <1>12, <2>1, <3>1
    <3>3. \A i \in 1 .. K : table[list[i]].NameList = IF i = K THEN 0 ELSE list[i + 1]
      BY <2>4 DEF Written
    <3>4. QED
      BY <2>1, <3>1, <3>2, <3>3 DEF Written
  <2>6. QED
    BY <2>1, <2>2, <2>3, <2>5 DEF ListOK
<1>15. \A n \in DOS' \cap X : ListOK(n)'
  BY <1>5, <1>6, <1>14
<1>16. 0 \notin X
  BY <1>1, <1>2
<1>17. StructInv'
  BY <1>8, <1>10, <1>11, <1>13, <1>15, <1>16, StructStep DEF Inv
<1>18. QED
  BY <1>17

\* The hashes of an entry under another name.
LEMMA RenamedHash ==
  ASSUME Inv, NEW s \in DOS, NEW m \in Names, hash' = Renamed(hash, NameSpaceList(s), m)
  PROVE  /\ IsHash(hash') /\ DOMAIN hash' = DOMAIN hash
         /\ \A n \in DOMAIN hash \ List(s) : hash'[n] = hash[n]
         /\ \A n \in DOMAIN hash : /\ SameHash([hash'[n] EXCEPT !.Name = hash[n].Name], hash[n])
                                   /\ hash'[n].Blocks = hash[n].Blocks
                                   /\ n \in List(s) => hash'[n].Name = m
                                   /\ hash'[n].Parent = hash[n].Parent /\ hash'[n].NameSpace = hash[n].NameSpace
                                   /\ hash'[n].Kind = hash[n].Kind /\ hash'[n].nl = hash[n].nl
<1>1. IsHash(hash)
  BY DEF Inv, TypeInv, IsHash
<1>2. /\ IsHash(hash') /\ DOMAIN hash' = DOMAIN hash
      /\ \A n \in DOMAIN hash \ List(s) : hash'[n] = hash[n]
      /\ \A n \in DOMAIN hash : /\ SameHash([hash'[n] EXCEPT !.Name = hash[n].Name], hash[n])
                                /\ hash'[n].Blocks = hash[n].Blocks
                                /\ n \in List(s) => hash'[n].Name = m
  BY <1>1, RenamedEffect DEF List
<1>3. ASSUME NEW n \in DOMAIN hash
      PROVE  /\ hash'[n].Parent = hash[n].Parent /\ hash'[n].NameSpace = hash[n].NameSpace
             /\ hash'[n].Kind = hash[n].Kind /\ hash'[n].nl = hash[n].nl
  <2>1. hash'[n] \in Hashes /\ SameHash([hash'[n] EXCEPT !.Name = hash[n].Name], hash[n])
    BY <1>2 DEF IsHash
  <2>2. QED
    BY <2>1 DEF SameHash, Hashes
<1>4. QED
  BY <1>2, <1>3

LEMMA InPlaceFacts ==
  ASSUME Inv, NEW t \in Tasks, call[t].pc = "inplace"
  PROVE  LET c == call[t]
         IN /\ TaskOK(t) /\ CallOK(c) /\ c \in Calls /\ c.op = "rename" /\ c.src # 0 /\ c.kind = "dir"
            /\ c.entries = <<>> /\ c.written = 0 /\ c.data = 0 /\ c.chain # <<>>
            /\ c.chain \in Seq(DirNos) /\ Chain(t) \subseteq List(c.src) /\ Entry(t) = {} /\ Distinct(c.chain)
            /\ c.dir \in c.locks /\ hash[c.src].Kind = "dir" /\ c.src \in DOS
<1>1. TaskOK(t) /\ CallOK(call[t]) /\ call[t] \in Calls /\ call[t].chain \in Seq(DirNos)
  BY CallFacts DEF Inv, StructInv, TaskOK
<1>2. /\ call[t].op = "rename" /\ call[t].src # 0 /\ call[t].kind = "dir" /\ call[t].dir \in call[t].locks
      /\ call[t].entries = <<>> /\ call[t].written = 0 /\ call[t].data = 0 /\ call[t].chain # <<>>
      /\ Distinct(call[t].chain)
  BY <1>1, OpFacts DEF CallOK
<1>3. Chain(t) \subseteq List(call[t].src) /\ hash[call[t].src].Kind = "dir" /\ call[t].src \in DOS
  BY <1>1, <1>2 DEF TaskOK, ChainOK, SrcOK
<1>4. Entry(t) = {}
  BY <1>2, EmptyFacts DEF Entry
<1>5. QED
  BY <1>1, <1>2, <1>3, <1>4

LEMMA RenameInPlaceEffect ==
  ASSUME Inv, NEW t \in Tasks, NEW s \in DirNos, s = call[t].src, s \in DOS,
         call' = [call EXCEPT ![t].chain = NameSpaceList(s), ![t].pc = "inplace"]
  PROVE  LET c == call[t]
         IN /\ call' \in [Tasks -> Calls]
            /\ \A u \in Tasks \ {t} : call'[u] = call[u]
            /\ call'[t].op = c.op /\ call'[t].pc = "inplace" /\ call'[t].locks = c.locks
            /\ call'[t].dir = c.dir /\ call'[t].name = c.name /\ call'[t].old = c.old
            /\ call'[t].kind = c.kind /\ call'[t].data = c.data /\ call'[t].src = s
            /\ call'[t].entries = c.entries /\ call'[t].written = c.written
            /\ call'[t].chain = NameSpaceList(s)
<1> DEFINE c == call[t]
           l == NameSpaceList(s)
           d == [c EXCEPT !.chain = l, !.pc = "inplace"]
<1>1. l \in Seq(DirNos) /\ l = NameSpaceList(s)
  BY ListFacts DEF DOS, Inv
<1>2. call' = [call EXCEPT ![t] = d] /\ c \in Calls
  BY CallFacts DEF Inv, TypeInv
<1> HIDE DEF l
<1>3. /\ d \in Calls /\ d.op = c.op /\ d.pc = "inplace" /\ d.locks = c.locks
      /\ d.dir = c.dir /\ d.name = c.name /\ d.old = c.old
      /\ d.kind = c.kind /\ d.data = c.data /\ d.src = c.src
      /\ d.entries = c.entries /\ d.written = c.written /\ d.chain = l
  BY <1>1, <1>2 DEF Calls
<1> HIDE DEF d
<1>4. call' \in [Tasks -> Calls] /\ call'[t] = d /\ \A u \in Tasks \ {t} : call'[u] = call[u]
  BY <1>2, <1>3, NewCall DEF Inv
<1>5. QED
  BY <1>1, <1>3, <1>4

LEMMA RenameInPlaceStruct ==
  ASSUME Inv, StreamInv, NEW t \in Tasks, RenameInPlace(t)
  PROVE  TypeInv' /\ StructInv' /\ StreamInv'
<1> DEFINE c == call[t]
<1>0. PICK s \in DirNos : s = c.src
  BY CallFacts DEF Inv
<1>1. /\ c.pc = "move" /\ c.kind = "dir" /\ hash' = Renamed(hash, NameSpaceList(s), c.name)
      /\ call' = [call EXCEPT ![t].chain = NameSpaceList(s), ![t].pc = "inplace"]
      /\ UNCHANGED <<table, ending, owner, bits, calls, errors, orphaned>>
  BY <1>0 DEF RenameInPlace
<1>2. /\ TaskOK(t) /\ CallOK(c) /\ c.op = "rename" /\ s # 0 /\ c.entries = <<>> /\ c.written = 0 /\ c.dir \in c.locks
      /\ c.data = 0 /\ c.name \in Names
  BY <1>0, <1>1, CallFacts DEF Inv, StructInv, TaskOK, CallOK, Making
<1>3. /\ s \in DOS /\ s \in DOMAIN hash
      /\ hash[s].Parent \in c.locks /\ hash[s].Kind = c.kind
      /\ 0 \notin List(s) /\ NameSpaceList(s) # <<>> /\ Distinct(NameSpaceList(s))
  BY <1>0, <1>2, SrcFacts DEF Inv
<1>4. /\ call' \in [Tasks -> Calls]
      /\ \A u \in Tasks \ {t} : call'[u] = call[u]
      /\ call'[t].op = c.op /\ call'[t].pc = "inplace" /\ call'[t].locks = c.locks
      /\ call'[t].dir = c.dir /\ call'[t].name = c.name /\ call'[t].old = c.old
      /\ call'[t].kind = c.kind /\ call'[t].data = c.data /\ call'[t].src = s
      /\ call'[t].entries = c.entries /\ call'[t].written = c.written
      /\ call'[t].chain = NameSpaceList(s)
  BY <1>0, <1>1, <1>3, RenameInPlaceEffect
<1>5. /\ IsHash(hash') /\ DOMAIN hash' = DOMAIN hash
      /\ \A n \in DOMAIN hash \ List(s) : hash'[n] = hash[n]
      /\ \A n \in DOMAIN hash : /\ SameHash([hash'[n] EXCEPT !.Name = hash[n].Name], hash[n])
                                /\ hash'[n].Parent = hash[n].Parent /\ hash'[n].NameSpace = hash[n].NameSpace
                                /\ hash'[n].Kind = hash[n].Kind /\ hash'[n].nl = hash[n].nl
  BY <1>1, <1>2, <1>3, RenamedHash
<1>6. TypeInv'
  BY <1>1, <1>4, <1>5 DEF Inv, TypeInv, IsHash
<1>7. Entry(t)' = {} /\ Entry(t) = {} /\ Chain(t)' = List(s) /\ Claims(t)' = List(s)
  BY <1>2, <1>4, EmptyFacts DEF Entry, Chain, Claims, List
<1>8. s \in DOS' /\ List(s)' = List(s)
  BY <1>3, <1>5 DEF DOS, List, NameSpaceList
<1>9. TaskOK(t)'
  <2>1. CallOK(call[t])'
    BY <1>1, <1>2, <1>3, <1>4, EmptyFacts DEF CallOK, Making, Deleting
  <2>2. EntriesOK(t)' /\ ChainOK(t)'
    BY <1>4, <1>7, <1>8 DEF EntriesOK, ChainOK, Making
  <2>3. SrcOK(t)'
    BY <1>3, <1>4, <1>5, <1>8 DEF SrcOK, Deleting
  <2>4. 0 \notin Claims(t)' /\ (Entry(t) \cap Chain(t) = {})'
    BY <1>3, <1>7
  <2>5. QED
    BY <2>1, <2>2, <2>3, <2>4 DEF TaskOK
<1>10. \A n \in List(s) : \E m \in Names : table'[n] = [table[n] EXCEPT !.Name = m]
  <2>1. SUFFICES ASSUME NEW n \in List(s) PROVE table[n] = [table[n] EXCEPT !.Name = table[n].Name] /\ table[n].Name \in Names
    BY <1>1
  <2>2. n \in DOMAIN hash
    BY <1>3, LinkedFacts DEF Inv, StructInv, ListOK
  <2>3. n \in Used(table)
    BY <2>2 DEF Inv, StructInv, RecordOK
  <2>4. QED
    BY <2>3, RecordFacts DEF Records, Inv
<1>11. StructInv'
  <2>1. s = call[t].src /\ s # 0 /\ hash[s].Kind = "dir"
    BY <1>0, <1>1, <1>2, <1>3
  <2>2. \A n \in DOMAIN hash : SameHash([hash'[n] EXCEPT !.Name = hash[n].Name], hash[n])
    BY <1>5
  <2>3. \A n \in DirNos \ List(s) : table'[n] = table[n]
    BY <1>1
  <2>4. call'[t].locks = call[t].locks /\ Chain(t)' \subseteq List(s)
    BY <1>4, <1>7
  <2>5. DOMAIN hash' = DOMAIN hash /\ \A n \in DOMAIN hash \ List(s) : hash'[n] = hash[n]
    BY <1>5
  <2>6. \A u \in Tasks \ {t} : call'[u] = call[u]
    BY <1>4
  <2>7. QED
    BY <1>6, <1>7, <1>9, <1>10, <2>1, <2>2, <2>3, <2>4, <2>5, <2>6, InPlaceStep
<1>12. StreamInv'
  BY <1>1, <1>4, <1>6, NoNewStream DEF Inv, Used
<1>13. QED
  BY <1>6, <1>11, <1>12

LEMMA WriteInPlaceFailsStruct ==
  ASSUME Inv, StreamInv, NEW t \in Tasks, WriteInPlaceFails(t)
  PROVE  TypeInv' /\ StructInv' /\ StreamInv'
<1> DEFINE c == call[t]
<1>0. PICK s \in DirNos : s = c.src
  BY CallFacts DEF Inv
<1>1. /\ c.pc = "inplace" /\ hash' = Renamed(hash, NameSpaceList(s), c.old) /\ errors' = errors + 1 /\ Return(t)
      /\ UNCHANGED <<table, ending, owner, bits, calls, orphaned>>
  BY <1>0 DEF WriteInPlaceFails
<1>2. s # 0 /\ s \in DOS /\ hash[s].Kind = "dir" /\ Entry(t) = {} /\ c.old \in Names
  BY <1>0, <1>1, InPlaceFacts, CallFacts DEF Inv
<1>3. call' \in [Tasks -> Calls] /\ call'[t] = NoCall /\ \A u \in Tasks \ {t} : call'[u] = call[u]
  BY <1>1, ReturnEffect DEF Inv
<1>4. TaskOK(t)' /\ Entry(t)' = {} /\ Chain(t)' = {} /\ Claims(t)' = {} /\ call'[t].locks = {} /\ call'[t].data = 0
  BY <1>3, RestingOK, NoCallType DEF Inv
<1>5. /\ IsHash(hash') /\ DOMAIN hash' = DOMAIN hash
      /\ \A n \in DOMAIN hash \ List(s) : hash'[n] = hash[n]
      /\ \A n \in DOMAIN hash : SameHash([hash'[n] EXCEPT !.Name = hash[n].Name], hash[n])
  BY <1>1, <1>2, RenamedHash
<1>6. TypeInv'
  BY <1>1, <1>3, <1>5 DEF Inv, TypeInv, IsHash
<1>7. \A n \in List(s) : \E m \in Names : table'[n] = [table[n] EXCEPT !.Name = m]
  <2>1. SUFFICES ASSUME NEW n \in List(s) PROVE table[n] = [table[n] EXCEPT !.Name = table[n].Name] /\ table[n].Name \in Names
    BY <1>1
  <2>2. n \in DOMAIN hash
    BY <1>2, LinkedFacts DEF Inv, StructInv, ListOK
  <2>3. n \in Used(table)
    BY <2>2 DEF Inv, StructInv, RecordOK
  <2>4. QED
    BY <2>3, RecordFacts DEF Records, Inv
<1>8. StructInv'
  BY <1>0, <1>1, <1>2, <1>3, <1>4, <1>5, <1>6, <1>7, InPlaceStep
<1>9. StreamInv'
  BY <1>1, <1>3, <1>4, <1>6, NoNewStream DEF Inv, Used
<1>10. QED
  BY <1>6, <1>8, <1>9

LEMMA WriteInPlaceEffect ==
  ASSUME Inv, NEW t \in Tasks, WriteInPlace(t)
  PROVE  LET c == call[t]
             n == Head(c.chain)
         IN /\ c.pc = "inplace" /\ UNCHANGED <<ending, owner, bits, hash, calls, errors, orphaned>>
            /\ n \in List(c.src) /\ n \in DOMAIN hash /\ n \in DirNos /\ n \in Used(table)
            /\ table' \in [DirNos -> Records \cup {FREE_NODE}]
            /\ \A m \in DirNos \ {n} : table'[m] = table[m]
            /\ table'[n] = [table[n] EXCEPT !.Name = c.name] /\ c.name \in Names
            /\ Used(table)' = Used(table)
            /\ call' \in [Tasks -> Calls]
            /\ \A u \in Tasks \ {t} : call'[u] = call[u]
            /\ \/ Tail(c.chain) = <<>> /\ call'[t] = NoCall
               \/ /\ Tail(c.chain) # <<>>
                  /\ call'[t].op = c.op /\ call'[t].pc = c.pc /\ call'[t].locks = c.locks
                  /\ call'[t].dir = c.dir /\ call'[t].name = c.name /\ call'[t].old = c.old
                  /\ call'[t].kind = c.kind /\ call'[t].data = c.data /\ call'[t].src = c.src
                  /\ call'[t].entries = c.entries /\ call'[t].written = c.written
                  /\ call'[t].chain = Tail(c.chain)
<1> DEFINE c == call[t]
           n == Head(c.chain)
<1>1. /\ c.pc = "inplace" /\ table' = [table EXCEPT ![n].Name = c.name]
      /\ IF Tail(c.chain) = <<>> THEN Return(t) ELSE call' = [call EXCEPT ![t].chain = Tail(@)]
      /\ UNCHANGED <<ending, owner, bits, hash, calls, errors, orphaned>>
  BY DEF WriteInPlace
<1>2. /\ c \in Calls /\ c.chain # <<>> /\ c.chain \in Seq(DirNos) /\ Chain(t) \subseteq List(c.src)
      /\ c.src \in DOS
  BY <1>1, InPlaceFacts
<1>3. n \in Chain(t) /\ n \in DirNos /\ Tail(c.chain) \in Seq(DirNos)
  BY <1>2, TailOf DEF Chain
<1>4. n \in List(c.src) /\ n \in DOMAIN hash
  BY <1>2, <1>3, LinkedFacts DEF Inv, StructInv, ListOK
<1>5. n \in Used(table) /\ table[n] \in Records /\ table[n] # FREE_NODE
  BY <1>4, RecordFacts DEF Inv, StructInv, RecordOK, Used
<1>6. c.name \in Names
  BY CallFacts DEF Inv
<1> HIDE DEF n
<1>7. table'[n] = [table[n] EXCEPT !.Name = c.name] /\ \A m \in DirNos \ {n} : table'[m] = table[m]
  BY <1>1, <1>3 DEF Inv, TypeInv
<1>8. table'[n] \in Records
  BY <1>5, <1>6, <1>7 DEF Records
<1>9. table' \in [DirNos -> Records \cup {FREE_NODE}]
  <2>1. DOMAIN table' = DirNos /\ table' = [m \in DOMAIN table' |-> table'[m]]
    BY <1>1 DEF Inv, TypeInv
  <2>2. \A m \in DirNos : table'[m] \in Records \cup {FREE_NODE}
    BY <1>7, <1>8 DEF Inv, TypeInv
  <2>3. QED
    BY <2>1, <2>2
<1>10. Used(table)' = Used(table)
  BY <1>5, <1>7, <1>8, FreeNodeAssumption DEF Used
<1>11. CASE Tail(c.chain) = <<>>
  <2>1. Return(t)
    BY <1>1, <1>11
  <2>2. QED
    BY <1>1, <1>3, <1>4, <1>5, <1>6, <1>7, <1>9, <1>10, <1>11, <2>1, ReturnEffect DEF Inv, n
<1>12. CASE Tail(c.chain) # <<>>
  <2> DEFINE e == Tail(c.chain)
             d == [c EXCEPT !.chain = e]
  <2>1. call' = [call EXCEPT ![t] = d]
    BY <1>1, <1>12 DEF Inv, TypeInv
  <2>2. e \in Seq(DirNos) /\ e = Tail(c.chain)
    BY <1>3
  <2> HIDE DEF e
  <2>3. /\ d \in Calls /\ d.op = c.op /\ d.pc = c.pc /\ d.locks = c.locks
        /\ d.dir = c.dir /\ d.name = c.name /\ d.old = c.old
        /\ d.kind = c.kind /\ d.data = c.data /\ d.src = c.src
        /\ d.entries = c.entries /\ d.written = c.written /\ d.chain = e
    BY <1>2, <2>2 DEF Calls
  <2> HIDE DEF d
  <2>4. call' \in [Tasks -> Calls] /\ call'[t] = d /\ \A u \in Tasks \ {t} : call'[u] = call[u]
    BY <2>1, <2>3, NewCall DEF Inv
  <2>5. QED
    BY <1>1, <1>3, <1>4, <1>5, <1>6, <1>7, <1>9, <1>10, <1>12, <2>2, <2>3, <2>4 DEF n
<1>13. QED
  BY <1>11, <1>12

LEMMA WriteInPlaceStruct ==
  ASSUME Inv, StreamInv, NEW t \in Tasks, WriteInPlace(t)
  PROVE  TypeInv' /\ StructInv' /\ StreamInv'
<1> DEFINE c == call[t]
           n == Head(c.chain)
<1>0. PICK s \in DirNos : s = c.src
  BY CallFacts DEF Inv
<1>1. /\ c.pc = "inplace" /\ UNCHANGED <<ending, owner, bits, hash, calls, errors, orphaned>>
      /\ n \in List(s) /\ n \in DOMAIN hash /\ n \in DirNos /\ n \in Used(table)
      /\ table' \in [DirNos -> Records \cup {FREE_NODE}]
      /\ \A m \in DirNos \ {n} : table'[m] = table[m]
      /\ table'[n] = [table[n] EXCEPT !.Name = c.name] /\ c.name \in Names
      /\ Used(table)' = Used(table)
      /\ call' \in [Tasks -> Calls]
      /\ \A u \in Tasks \ {t} : call'[u] = call[u]
      /\ \/ Tail(c.chain) = <<>> /\ call'[t] = NoCall
         \/ /\ Tail(c.chain) # <<>>
            /\ call'[t].op = c.op /\ call'[t].pc = c.pc /\ call'[t].locks = c.locks
            /\ call'[t].dir = c.dir /\ call'[t].name = c.name /\ call'[t].old = c.old
            /\ call'[t].kind = c.kind /\ call'[t].data = c.data /\ call'[t].src = c.src
            /\ call'[t].entries = c.entries /\ call'[t].written = c.written
            /\ call'[t].chain = Tail(c.chain)
  BY <1>0, WriteInPlaceEffect
<1> HIDE DEF n
<1>2. /\ TaskOK(t) /\ CallOK(c) /\ c.op = "rename" /\ s # 0 /\ c.kind = "dir"
      /\ c.entries = <<>> /\ c.written = 0 /\ c.data = 0 /\ c.chain # <<>>
      /\ c.chain \in Seq(DirNos) /\ Chain(t) \subseteq List(s) /\ Entry(t) = {} /\ Distinct(c.chain)
      /\ c.dir \in c.locks /\ hash[s].Kind = "dir" /\ s \in DOS
  BY <1>0, <1>1, InPlaceFacts
<1>3. TypeInv'
  BY <1>1 DEF Inv, TypeInv
<1>4. InSequence(Tail(c.chain)) \subseteq Chain(t) /\ Distinct(Tail(c.chain))
  BY <1>2, TailOf DEF Chain
<1>5. /\ TaskOK(t)' /\ Entry(t)' = {} /\ Chain(t)' \subseteq List(s) /\ call'[t].data = 0
      /\ (call'[t].locks = c.locks \/ (call'[t].locks = {} /\ Claims(t)' = {}))
  <2>1. CASE call'[t] = NoCall
    BY <2>1, RestingOK, NoCallType DEF Inv
  <2>2. CASE /\ Tail(c.chain) # <<>>
             /\ call'[t].op = c.op /\ call'[t].pc = c.pc /\ call'[t].locks = c.locks
             /\ call'[t].dir = c.dir /\ call'[t].name = c.name /\ call'[t].old = c.old
             /\ call'[t].kind = c.kind /\ call'[t].data = c.data /\ call'[t].src = c.src
             /\ call'[t].entries = c.entries /\ call'[t].written = c.written
             /\ call'[t].chain = Tail(c.chain)
    <3>1. Entry(t)' = {} /\ Chain(t)' \subseteq Chain(t) /\ Claims(t)' = Chain(t)'
      BY <1>2, <1>4, <2>2, EmptyFacts DEF Entry, Chain, Claims
    <3>2. CallOK(call[t])'
      BY <1>1, <1>2, <1>4, <2>2 DEF CallOK, Making, Deleting
    <3>3. List(s)' = List(s) /\ DOS' = DOS
      BY <1>1 DEF List, NameSpaceList, DOS
    <3>4. EntriesOK(t)' /\ ChainOK(t)'
      BY <1>0, <1>1, <1>2, <2>2, <3>1, <3>3 DEF EntriesOK, ChainOK, Making
    <3>5. SrcOK(t)'
      BY <1>0, <1>1, <1>2, <2>2, <3>3 DEF TaskOK, SrcOK, Deleting
    <3>6. 0 \notin Claims(t)' /\ (Entry(t) \cap Chain(t) = {})'
      BY <1>2, <3>1 DEF TaskOK, Claims
    <3>7. TaskOK(t)'
      BY <3>2, <3>4, <3>5, <3>6 DEF TaskOK
    <3>8. QED
      BY <1>2, <2>2, <3>1, <3>7
  <2>3. QED
    BY <1>1, <2>1, <2>2
<1>6. \A m \in List(s) : \E x \in Names : table'[m] = [table[m] EXCEPT !.Name = x]
  <2>1. SUFFICES ASSUME NEW m \in List(s) PROVE \E x \in Names : table'[m] = [table[m] EXCEPT !.Name = x]
    OBVIOUS
  <2>2. m \in DOMAIN hash
    BY <1>2, LinkedFacts DEF Inv, StructInv, ListOK
  <2>3. m \in Used(table) /\ m \in DirNos
    BY <2>2, HashFacts DEF Inv, StructInv, RecordOK
  <2>4. CASE m = n
    BY <1>1, <2>4
  <2>5. CASE m # n
    <3>1. table'[m] = table[m] /\ table[m] = [table[m] EXCEPT !.Name = table[m].Name] /\ table[m].Name \in Names
      BY <1>1, <2>3, <2>5, RecordFacts DEF Records, Inv
    <3>2. QED
      BY <3>1
  <2>6. QED
    BY <2>4, <2>5
<1>7. \A m \in DOMAIN hash : SameHash([hash[m] EXCEPT !.Name = hash[m].Name], hash[m])
  BY DEF Inv, TypeInv, Hashes, SameHash
<1>8. StructInv'
  <2>1. /\ DOMAIN hash' = DOMAIN hash /\ \A m \in DOMAIN hash \ List(s) : hash'[m] = hash[m]
        /\ \A m \in DOMAIN hash : SameHash([hash'[m] EXCEPT !.Name = hash[m].Name], hash[m])
        /\ \A m \in DirNos \ List(s) : table'[m] = table[m]
    BY <1>1, <1>7
  <2>2. QED
    BY <1>0, <1>1, <1>2, <1>3, <1>5, <1>6, <2>1, InPlaceStep
<1>9. StreamInv'
  <2>1. \A m \in Used(table)' : m \in Used(table) /\ table'[m].FirstBlock = table[m].FirstBlock
    <3>1. \A m \in Used(table)' : m \in Used(table) /\ m \in DirNos
      BY <1>1 DEF Used
    <3>2. table'[n].FirstBlock = table[n].FirstBlock
      BY <1>1, RecordFacts DEF Records, Inv
    <3>3. QED
      BY <1>1, <3>1, <3>2
  <2>2. QED
    BY <1>1, <1>3, <1>5, <2>1, NoNewStream DEF Inv
<1>10. QED
  BY <1>3, <1>8, <1>9

-----------------------------------------------------------------------------
(* Records and blocks *)

\* The last record of a new entry is written: every record of the entry is in use.
LEMMA BlocksStay ==
  ASSUME Inv, NEW t \in Tasks, owner' = owner, bits' = bits, ending' \in Int, ending' >= ending,
         \A u \in Tasks \ {t} : call'[u] = call[u],
         Used(table) \subseteq Used(table)', Used(table)' \subseteq Used(table) \cup Entry(t),
         \A n \in Used(table) : table'[n].Subdirectory = table[n].Subdirectory,
         \A n \in Used(table)' \ Used(table) : table'[n].Subdirectory = call[t].dir,
         Entry(t)' \subseteq Entry(t), Entry(t)' # {} => call'[t].dir = call[t].dir,
         errors' = 0 => errors = 0 /\ Entry(t) \subseteq Entry(t)' \cup Used(table)'
  PROVE  BlockInv'
<1>1. \A u \in Tasks \ {t} : Entry(u)' = Entry(u)
  BY DEF Entry
<1>2. /\ Used(table) \subseteq bits
      /\ \A u \in Tasks : Entry(u) \subseteq bits
      /\ \A u, v \in Tasks : u # v => Entry(u) \cap Entry(v) = {}
      /\ errors = 0 => bits = Used(table) \cup UNION {Entry(u) : u \in Tasks}
      /\ \A n \in bits : BlockOf(n) < ending
  BY DEF Inv, BlockInv, RecordsAccounted, Entry
<1>3. /\ \A b \in Blocks : owner[b] = FREE_NODE <=> RecordsOf(b) \cap bits = {}
      /\ \A n \in Used(table) : owner[BlockOf(n)] = table[n].Subdirectory
      /\ \A u \in Tasks : \A n \in Entry(u) : owner[BlockOf(n)] = call[u].dir
  BY DEF Inv, BlockInv, BlocksOneOwner, Entry
<1>4. \A u, v \in Tasks : u # v => (Entry(u) \cap Entry(v) = {})'
  BY <1>1, <1>2
<1>5. ASSUME errors' = 0 PROVE bits = Used(table)' \cup UNION {Entry(u)' : u \in Tasks}
  <2>1. ASSUME NEW n \in bits PROVE n \in Used(table)' \/ \E u \in Tasks : n \in Entry(u)'
    BY <1>1, <1>2, <1>5
  <2>2. \A n \in Used(table)' : n \in bits
    BY <1>2
  <2>3. \A u \in Tasks : Entry(u)' \subseteq bits
    BY <1>1, <1>2
  <2>4. QED
    BY <2>1, <2>2, <2>3
<1>6. \A n \in bits : BlockOf(n) < ending'
  <2>1. \A n \in bits : n \in DirNos /\ BlockOf(n) \in Int /\ BlockOf(n) < ending
    BY <1>2, InBlock DEF Inv, TypeInv, Blocks
  <2>2. QED
    BY <2>1 DEF Inv, TypeInv
<1>7. RecordsAccounted'
  <2>1. Used(table)' \subseteq bits /\ \A u \in Tasks : Entry(u)' \subseteq bits
    BY <1>1, <1>2
  <2>2. QED
    BY <1>4, <1>5, <1>6, <2>1 DEF RecordsAccounted, Entry
<1>8. \A n \in Used(table)' : owner[BlockOf(n)] = table'[n].Subdirectory
  BY <1>3
<1>9. \A u \in Tasks : \A n \in Entry(u)' : owner[BlockOf(n)] = call'[u].dir
  BY <1>1, <1>3
<1>10. BlocksOneOwner'
  BY <1>3, <1>8, <1>9 DEF BlocksOneOwner, Entry
<1>11. QED
  BY <1>7, <1>10 DEF BlockInv

\* A record that is claimed is freed.
LEMMA BlocksFreed ==
  ASSUME Inv, TypeInv', NEW t \in Tasks, NEW n \in Claims(t), FreeDirectoryRecord(n),
         ending' = ending, errors' = errors,
         \A u \in Tasks \ {t} : call'[u] = call[u],
         Entry(t)' = Entry(t) \ {n}, Entry(t)' # {} => call'[t].dir = call[t].dir
  PROVE  BlockInv'
<1>1. \A u \in Tasks \ {t} : Entry(u)' = Entry(u)
  BY DEF Entry
<1>2. /\ Used(table) \subseteq bits
      /\ \A u \in Tasks : Entry(u) \subseteq bits
      /\ \A u, v \in Tasks : u # v => Entry(u) \cap Entry(v) = {}
      /\ errors = 0 => bits = Used(table) \cup UNION {Entry(u) : u \in Tasks}
      /\ \A m \in bits : BlockOf(m) < ending
  BY DEF Inv, BlockInv, RecordsAccounted, Entry
<1>3. /\ \A b \in Blocks : owner[b] = FREE_NODE <=> RecordsOf(b) \cap bits = {}
      /\ \A m \in Used(table) : owner[BlockOf(m)] = table[m].Subdirectory
      /\ \A u \in Tasks : \A m \in Entry(u) : owner[BlockOf(m)] = call[u].dir
  BY DEF Inv, BlockInv, BlocksOneOwner, Entry
<1>4. n \in DirNos
  BY CallFacts DEF Claims, Inv
<1>5. /\ bits' = bits \ {n} /\ Used(table)' = Used(table) \ {n}
      /\ \A m \in DirNos : m # n => table'[m] = table[m]
      /\ owner' = Released(n)
  BY <1>4, FreeDirectoryRecordEffect DEF FreeDirectoryRecord, Inv
<1>6. \A u \in Tasks \ {t} : n \notin Entry(u)
  BY DEF Inv, StructInv, Apart, Claims
<1>7. \A u \in Tasks : Entry(u)' = Entry(u) \ {n}
  BY <1>1, <1>6
<1>8. RecordsAccounted'
  <2>1. Used(table)' \subseteq bits' /\ \A u \in Tasks : Entry(u)' \subseteq bits'
    BY <1>2, <1>5, <1>7
  <2>2. \A u, v \in Tasks : u # v => (Entry(u) \cap Entry(v) = {})'
    BY <1>2, <1>7
  <2>3. ASSUME errors' = 0 PROVE bits' = Used(table)' \cup UNION {Entry(u)' : u \in Tasks}
    <3>1. \A m \in bits' : m \in Used(table)' \/ \E u \in Tasks : m \in Entry(u)'
      BY <1>2, <1>5, <1>7, <2>3
    <3>2. QED
      BY <2>1, <3>1
  <2>4. \A m \in bits' : BlockOf(m) < ending'
    BY <1>2, <1>5
  <2>5. QED
    BY <2>1, <2>2, <2>3, <2>4 DEF RecordsAccounted, Entry
<1>9. PICK b \in Blocks : b = BlockOf(n) /\ \A m \in DirNos : m \in RecordsOf(b) <=> BlockOf(m) = b
  BY <1>4, InBlock DEF RecordsOf
<1>10. \A a \in Blocks \ {b} : n \notin RecordsOf(a)
  BY <1>9 DEF RecordsOf
<1>11. /\ \A a \in Blocks \ {b} : owner'[a] = owner[a]
       /\ owner'[b] = IF RecordsOf(b) \cap bits' = {} THEN FREE_NODE ELSE owner[b]
  BY <1>5, <1>9 DEF Released, Cleared, Inv, TypeInv
<1>12. ASSUME NEW a \in Blocks PROVE owner'[a] = FREE_NODE <=> RecordsOf(a) \cap bits' = {}
  <2>1. CASE a = b
    <3>1. RecordsOf(b) \cap bits' # {} => RecordsOf(b) \cap bits # {}
      BY <1>5
    <3>2. QED
      BY <1>3, <1>11, <2>1, <3>1
  <2>2. CASE a # b
    BY <1>3, <1>5, <1>10, <1>11, <2>2
  <2>3. QED
    BY <2>1, <2>2
\* The block of a record that is still marked keeps its owner.
<1>13. ASSUME NEW m \in bits' PROVE owner'[BlockOf(m)] = owner[BlockOf(m)]
  <2>1. m \in DirNos /\ BlockOf(m) \in Blocks
    BY <1>13, InBlock DEF TypeInv
  <2>2. CASE BlockOf(m) = b
    BY <1>9, <1>11, <2>1, <2>2
  <2>3. CASE BlockOf(m) # b
    BY <1>11, <2>1, <2>3
  <2>4. QED
    BY <2>2, <2>3
<1>14. \A m \in Used(table)' : owner'[BlockOf(m)] = table'[m].Subdirectory
  <2>1. \A m \in Used(table)' : m \in Used(table) /\ m \in DirNos /\ m # n /\ m \in bits'
    BY <1>2, <1>5 DEF Used
  <2>2. QED
    BY <1>3, <1>5, <1>13, <2>1
<1>15. \A u \in Tasks : \A m \in Entry(u)' : owner'[BlockOf(m)] = call'[u].dir
  <2>1. \A u \in Tasks : \A m \in Entry(u)' : m \in Entry(u) /\ m \in bits' /\ call'[u].dir = call[u].dir
    BY <1>2, <1>5, <1>7
  <2>2. QED
    BY <1>3, <1>13, <2>1
<1>16. BlocksOneOwner'
  BY <1>12, <1>14, <1>15 DEF BlocksOneOwner, Entry
<1>17. QED
  BY <1>8, <1>16 DEF BlockInv

\* A free record is taken from a block of the parent, or from a free block.
LEMMA BlocksTaken ==
  ASSUME Inv, NEW t \in Tasks, NEW b, TakesFrom(t, b)
  PROVE  BlockInv'
<1>0. PICK n : n = LowestFree(b)
  OBVIOUS
<1>d. PICK d \in DirNos : d = call[t].dir
  BY CallFacts DEF Inv
<1>1. /\ TypeInv' /\ b \in Blocks /\ b < ending
      /\ n \in DirNos \ bits /\ BlockOf(n) = b /\ owner[b] \in {d, FREE_NODE}
      /\ bits' = bits \cup {n} /\ owner' = [owner EXCEPT ![b] = d]
      /\ UNCHANGED <<table, ending, hash, calls, errors, orphaned>>
      /\ \A u \in Tasks \ {t} : call'[u] = call[u]
      /\ call'[t].dir = d /\ call'[t].entries = Append(call[t].entries, n)
  BY <1>0, <1>d, TakenEffect
<1>2. /\ Used(table) \subseteq bits
      /\ \A u \in Tasks : Entry(u) \subseteq bits
      /\ \A u, v \in Tasks : u # v => Entry(u) \cap Entry(v) = {}
      /\ errors = 0 => bits = Used(table) \cup UNION {Entry(u) : u \in Tasks}
      /\ \A m \in bits : BlockOf(m) < ending
  BY DEF Inv, BlockInv, RecordsAccounted, Entry
<1>3. /\ \A a \in Blocks : owner[a] = FREE_NODE <=> RecordsOf(a) \cap bits = {}
      /\ \A m \in Used(table) : owner[BlockOf(m)] = table[m].Subdirectory
      /\ \A u \in Tasks : \A m \in Entry(u) : owner[BlockOf(m)] = call[u].dir
  BY DEF Inv, BlockInv, BlocksOneOwner, Entry
<1>4. Entry(t)' = Entry(t) \cup {n} /\ \A u \in Tasks \ {t} : Entry(u)' = Entry(u)
  <2>1. InSequence(Append(call[t].entries, n)) = InSequence(call[t].entries) \cup {n}
    BY <1>1, CallFacts, Appended DEF Inv
  <2>2. QED
    BY <1>1, <2>1 DEF Entry
<1>5. Used(table)' = Used(table)
  BY <1>1 DEF Used
<1>6. RecordsAccounted'
  <2>1. Used(table)' \subseteq bits' /\ \A u \in Tasks : Entry(u)' \subseteq bits'
    BY <1>1, <1>2, <1>4, <1>5
  <2>2. \A u, v \in Tasks : u # v => (Entry(u) \cap Entry(v) = {})'
    BY <1>1, <1>2, <1>4
  <2>3. ASSUME errors' = 0 PROVE bits' = Used(table)' \cup UNION {Entry(u)' : u \in Tasks}
    <3>1. \A m \in bits' : m \in Used(table)' \/ \E u \in Tasks : m \in Entry(u)'
      BY <1>1, <1>2, <1>4, <1>5, <2>3
    <3>2. QED
      BY <2>1, <3>1
  <2>4. \A m \in bits' : BlockOf(m) < ending'
    BY <1>1, <1>2
  <2>5. QED
    BY <2>1, <2>2, <2>3, <2>4 DEF RecordsAccounted, Entry
<1>7. d # FREE_NODE
  BY DirNosSize, Constants
<1>8. owner'[b] = d /\ \A a \in Blocks \ {b} : owner'[a] = owner[a]
  BY <1>1 DEF Inv, TypeInv
<1>9. ASSUME NEW a \in Blocks PROVE owner'[a] = FREE_NODE <=> RecordsOf(a) \cap bits' = {}
  <2>1. CASE a = b
    <3>1. n \in RecordsOf(b)
      BY <1>1 DEF RecordsOf
    <3>2. QED
      BY <1>1, <1>7, <1>8, <2>1, <3>1
  <2>2. CASE a # b
    <3>1. n \notin RecordsOf(a)
      BY <1>1, <2>2 DEF RecordsOf
    <3>2. QED
      BY <1>1, <1>3, <1>8, <2>2, <3>1
  <2>3. QED
    BY <2>1, <2>2
\* A block that was not free belonged to the same parent.
<1>10. ASSUME NEW m \in bits PROVE owner'[BlockOf(m)] = owner[BlockOf(m)]
  <2>1. m \in DirNos /\ BlockOf(m) \in Blocks /\ m \in RecordsOf(BlockOf(m))
    BY <1>10, InBlock DEF Inv, TypeInv
  <2>2. owner[BlockOf(m)] # FREE_NODE
    BY <1>3, <2>1
  <2>3. QED
    BY <1>1, <1>8, <2>1, <2>2
<1>11. \A m \in Used(table)' : owner'[BlockOf(m)] = table'[m].Subdirectory
  BY <1>1, <1>2, <1>3, <1>5, <1>10
<1>12. ASSUME NEW u \in Tasks, NEW m \in Entry(u)' PROVE owner'[BlockOf(m)] = call'[u].dir
  <2>1. CASE m \in Entry(u)
    <3>1. call'[u].dir = call[u].dir
      BY <1>1, <1>d
    <3>2. QED
      BY <1>2, <1>3, <1>10, <2>1, <3>1
  <2>2. CASE m \notin Entry(u)
    <3>1. u = t /\ m = n
      BY <1>4, <2>2, <1>12
    <3>2. QED
      BY <1>1, <1>8, <3>1
  <2>3. QED
    BY <2>1, <2>2
<1>13. BlocksOneOwner'
  BY <1>9, <1>11, <1>12 DEF BlocksOneOwner, Entry
<1>14. QED
  BY <1>6, <1>13 DEF BlockInv

\* The parts of a step that the lists of blocks depend on.
LEMMA SameEntries ==
  ASSUME Inv, TypeInv', NEW t \in Tasks, UNCHANGED <<owner, bits, table>>, ending' \in Int, ending' >= ending,
         \A u \in Tasks \ {t} : call'[u] = call[u],
         errors' \in {errors, errors + 1},
         \/ Entry(t)' = Entry(t) /\ call'[t].dir = call[t].dir
         \/ Entry(t) = {} /\ Entry(t)' = {}
  PROVE  BlockInv'
<1>1. errors' = 0 => errors = 0
  BY DEF Inv, TypeInv
<1>2. Used(table)' = Used(table)
  BY DEF Used
<1>3. QED
  BY <1>1, <1>2, BlocksStay

LEMMA StartKeeps ==
  ASSUME Inv, StreamInv, NEW t \in Tasks, Start(t)
  PROVE  TypeInv' /\ StructInv' /\ StreamInv' /\ BlockInv'
<1>1. PICK d \in Directories, m \in Names :
        \/ \E k \in {"dir", "file"} : Create(t, d, m, k)
        \/ Remove(t, d, m)
        \/ \E from \in Directories, old \in Names : Rename(t, from, old, d, m)
  BY DEF Start
<1>2. TypeInv' /\ StructInv' /\ StreamInv'
  BY <1>1, CreateStruct, RemoveStruct, RenameStruct
<1>3. /\ call[t].pc = "idle" /\ UNCHANGED <<table, ending, owner, bits, errors>>
      /\ \A u \in Tasks \ {t} : call'[u] = call[u]
      /\ call'[t].entries = <<>>
  <2>1. ASSUME NEW k \in {"dir", "file"}, Create(t, d, m, k) PROVE <1>3!:
    BY <2>1, CreateEffect DEF Inv, Create, Begin
  <2>2. CASE Remove(t, d, m)
    BY <2>2, RemoveEffect DEF Inv
  <2>3. ASSUME NEW from \in Directories, NEW old \in Names, Rename(t, from, old, d, m) PROVE <1>3!:
    BY <2>3, RenameEffect DEF Inv
  <2>4. QED
    BY <1>1, <2>1, <2>2, <2>3
<1>4. Entry(t) = {} /\ Entry(t)' = {}
  BY <1>3, IdleFacts, EmptyFacts DEF Inv, Entry
<1>5. ending \in Int
  BY DEF Inv, TypeInv
<1>6. BlockInv'
  BY <1>2, <1>3, <1>4, <1>5, SameEntries
<1>7. QED
  BY <1>2, <1>6

LEMMA AllocateKeeps ==
  ASSUME Inv, StreamInv, NEW t \in Tasks, Allocate(t)
  PROVE  TypeInv' /\ StructInv' /\ StreamInv' /\ BlockInv'
<1>1. CASE AllocateDirectoryRecord(t) \/ TakeExtended(t)
  BY <1>1, Takes, TakenStruct, BlocksTaken
<1>2. CASE PreAllocate(t) \/ DirectoryFull(t) \/ ExtendDirectory(t) \/ ExtendFails(t) \/ ExtensionTaken(t)
  <2>1. TypeInv' /\ StructInv' /\ StreamInv'
    BY <1>2, AllocationMoves
  <2>2. \E p \in PCs : Goto(t, p)
    BY <1>2 DEF PreAllocate, DirectoryFull, ExtendDirectory, ExtendFails, ExtensionTaken, PCs
  <2>3. UNCHANGED <<table, owner, bits, errors>>
    BY <1>2 DEF PreAllocate, DirectoryFull, ExtendDirectory, ExtendFails, ExtensionTaken
  <2>4. ending' \in Int /\ ending' >= ending
    <3>1. ending \in Int /\ BlocksPerCluster \in Nat
      BY Constants DEF Inv, TypeInv
    <3>2. ending' = ending \/ ending' = ending + BlocksPerCluster
      BY <1>2 DEF PreAllocate, DirectoryFull, ExtendDirectory, ExtendFails, ExtensionTaken
    <3>3. QED
      BY <3>1, <3>2
  <2>5. /\ \A u \in Tasks \ {t} : call'[u] = call[u]
        /\ Entry(t)' = Entry(t) /\ call'[t].dir = call[t].dir
    BY <2>2, GotoEffect DEF Inv, Entry
  <2>6. BlockInv'
    BY <2>1, <2>3, <2>4, <2>5, SameEntries
  <2>7. QED
    BY <2>1, <2>6
<1>3. QED
  BY <1>1, <1>2 DEF Allocate

LEMMA WriteBlocks ==
  ASSUME Inv, NEW t \in Tasks, WriteDirectoryRecord(t)
  PROVE  BlockInv'
<1>0. PICK c \in Calls : c = call[t]
  BY CallFacts DEF Inv
<1> DEFINE i == c.written + 1
           e == c.entries
           n == e[i]
<1>1. /\ call[t].pc = "write" /\ i \in 1 .. K
      /\ UNCHANGED <<ending, owner, bits, calls, errors, orphaned>>
      /\ table' = [table EXCEPT ![n] = NewRecord(c, i)]
  <2>1. Wrote(c)
    BY <1>0, WriteEffect
  <2>2. QED
    BY <1>0, <2>1 DEF Wrote
<1>2. HalfWritten(c, t)
  BY <1>0, <1>1, WritingFacts
<1>3. /\ c.written \in Nat /\ c.written < K /\ K \in Nat
      /\ \A j \in 1 .. K : e[j] \in Entry(t) /\ e[j] \in DirNos /\ (e[j] \in DOMAIN hash <=> j <= c.written)
      /\ \A m \in Entry(t) : \E j \in 1 .. K : m = e[j]
      /\ \A j \in 1 .. K : j <= c.written => table[e[j]] = NewRecord(c, j)
  BY <1>2 DEF HalfWritten
<1>4. \A j \in 1 .. K : NewRecord(c, j) # FREE_NODE /\ NewRecord(c, j).Subdirectory = c.dir
  BY <1>0, <1>1, NewRecordFacts DEF IsNewRecord
<1>5. /\ (\A u \in Tasks \ {t} : call'[u] = call[u])
      /\ \/ i = K /\ Entry(t)' = {}
         \/ i < K /\ Entry(t)' = Entry(t) /\ call'[t].dir = c.dir
  <2>1. (\A u \in Tasks \ {t} : call'[u] = call[u]) /\ WentOn(c, t)
    BY <1>0, WriteCallEffect
  <2>2. call'[t] = NoCall => Entry(t)' = {}
    BY NoCallType, EmptyFacts DEF Inv, Entry
  <2>3. call'[t].entries = <<>> => Entry(t)' = {}
    BY EmptyFacts DEF Entry
  <2>4. call'[t].entries = c.entries => Entry(t)' = Entry(t)
    BY <1>0 DEF Entry
  <2>5. QED
    BY <1>3, <2>1, <2>2, <2>3, <2>4 DEF WentOn
<1>6. i \in 1 .. K /\ \A j \in 1 .. K : j # i /\ i = K => j <= c.written
  BY <1>1, <1>3
<1> HIDE DEF i
<1>7. \A m \in DirNos : table'[m] = IF m = n THEN NewRecord(c, i) ELSE table[m]
  BY <1>1, <1>3, <1>6 DEF Inv, TypeInv
<1>8. n \in Entry(t) /\ n \in DirNos
  BY <1>3, <1>6
<1>9. Used(table)' = Used(table) \cup {n}
  BY <1>4, <1>6, <1>7, <1>8 DEF Used
<1>10. \A m \in Used(table) : table'[m].Subdirectory = table[m].Subdirectory
  <2>1. SUFFICES ASSUME NEW m \in Used(table) PROVE table'[m].Subdirectory = table[m].Subdirectory
    OBVIOUS
  <2>2. CASE m = n
    <3>1. owner[BlockOf(n)] = table[n].Subdirectory /\ owner[BlockOf(n)] = c.dir
      BY <1>0, <1>8, <2>2 DEF Inv, BlockInv, BlocksOneOwner, Entry
    <3>2. QED
      BY <1>4, <1>6, <1>7, <1>8, <2>2, <3>1
  <2>3. CASE m # n
    BY <1>7, <2>3 DEF Used
  <2>4. QED
    BY <2>2, <2>3
<1>11. \A m \in Used(table)' \ Used(table) : table'[m].Subdirectory = c.dir
  BY <1>4, <1>6, <1>7, <1>8, <1>9
<1>12. i = K => Entry(t) \subseteq Used(table)'
  <2>1. ASSUME i = K, NEW m \in Entry(t) PROVE m \in Used(table)'
    <3>1. PICK j \in 1 .. K : m = e[j]
      BY <1>3
    <3>2. j # i => m \in DOMAIN hash
      BY <1>3, <1>6, <2>1, <3>1
    <3>3. DOMAIN hash \subseteq Used(table)
      BY InUse DEF Inv
    <3>4. QED
      BY <1>9, <3>1, <3>2, <3>3
  <2>2. QED
    BY <2>1
<1>13. ending' \in Int /\ ending' >= ending
  BY <1>1 DEF Inv, TypeInv
<1>14. QED
  <2>1. Used(table) \subseteq Used(table)' /\ Used(table)' \subseteq Used(table) \cup Entry(t)
    BY <1>8, <1>9
  <2>2. errors' = 0 => errors = 0 /\ Entry(t) \subseteq Entry(t)' \cup Used(table)'
    BY <1>1, <1>5, <1>12
  <2>3. owner' = owner /\ bits' = bits
    BY <1>1
  <2>4. Entry(t)' \subseteq Entry(t) /\ (Entry(t)' # {} => call'[t].dir = call[t].dir)
    BY <1>0, <1>5
  <2>5. \A m \in Used(table)' \ Used(table) : table'[m].Subdirectory = call[t].dir
    BY <1>0, <1>11
  <2>6. QED
    BY <1>5, <1>10, <1>13, <2>1, <2>2, <2>3, <2>4, <2>5, BlocksStay

LEMMA WriteKeeps ==
  ASSUME Inv, StreamInv, NEW t \in Tasks, Write(t)
  PROVE  TypeInv' /\ StructInv' /\ StreamInv' /\ BlockInv'
<1>0. ending \in Int /\ errors \in Nat
  BY DEF Inv, TypeInv
<1>1. CASE WriteDirectoryRecord(t)
  BY <1>1, WriteStruct, WriteBlocks
<1>2. CASE WriteFails(t)
  <2>1. TypeInv' /\ StructInv' /\ StreamInv'
    BY <1>2, WriteFailsStruct
  <2>2. UNCHANGED <<table, ending, owner, bits>> /\ errors' = errors + 1 /\ Goto(t, "unwind") /\ "unwind" \in PCs
    BY <1>2 DEF WriteFails, PCs
  <2>3. /\ \A u \in Tasks \ {t} : call'[u] = call[u]
        /\ Entry(t)' = Entry(t) /\ call'[t].dir = call[t].dir
    BY <2>2, GotoEffect DEF Inv, Entry
  <2>4. BlockInv'
    BY <1>0, <2>1, <2>2, <2>3, SameEntries
  <2>5. QED
    BY <2>1, <2>4
<1>3. CASE Unwind(t)
  <2> DEFINE n == Head(call[t].entries)
  <2>1. TypeInv' /\ StructInv' /\ StreamInv'
    BY <1>3, UnwindStruct
  <2>2. /\ FreeDirectoryRecord(n) /\ ending' = ending /\ errors' = errors /\ call[t].entries # <<>>
        /\ call' = [call EXCEPT ![t].entries = Tail(@), ![t].written = 0]
    BY <1>3 DEF Unwind
  <2>3. /\ \A u \in Tasks \ {t} : call'[u] = call[u]
        /\ call'[t].dir = call[t].dir /\ n \in Claims(t) /\ Entry(t)' = Entry(t) \ {n}
    BY <2>2, TailEffect DEF Claims
  <2> HIDE DEF n
  <2>4. BlockInv'
    BY <2>1, <2>2, <2>3, BlocksFreed
  <2>5. QED
    BY <2>1, <2>4
<1>4. CASE UnwindFails(t)
  <2>1. TypeInv' /\ StructInv' /\ StreamInv'
    BY <1>4, UnwindFailsStruct
  <2>2. /\ UNCHANGED <<table, ending, owner, bits>> /\ errors' = errors + 1 /\ call[t].entries # <<>>
        /\ call' = [call EXCEPT ![t].entries = Tail(@), ![t].written = 0]
    BY <1>4 DEF UnwindFails
  <2>3. /\ \A u \in Tasks \ {t} : call'[u] = call[u]
        /\ call'[t].dir = call[t].dir /\ Entry(t)' \subseteq Entry(t)
    BY <2>2, TailEffect
  <2>4. errors' # 0 /\ ending' >= ending /\ ending' \in Int /\ Used(table)' = Used(table)
    BY <1>0, <2>2 DEF Used
  <2>5. BlockInv'
    BY <2>2, <2>3, <2>4, BlocksStay
  <2>6. QED
    BY <2>1, <2>5
<1>5. CASE Unwound(t)
  <2>1. TypeInv' /\ StructInv' /\ StreamInv'
    BY <1>5, ReturnsStruct
  <2>2. /\ UNCHANGED <<table, ending, owner, bits, errors>> /\ call[t].entries = <<>> /\ Return(t)
    BY <1>5 DEF Unwound
  <2>3. /\ \A u \in Tasks \ {t} : call'[u] = call[u]
        /\ Entry(t)' = {} /\ Entry(t) = {}
    BY <2>2, ReturnEffect, NoCallType, EmptyFacts DEF Entry, Inv
  <2>4. BlockInv'
    BY <1>0, <2>1, <2>2, <2>3, SameEntries
  <2>5. QED
    BY <2>1, <2>4
<1>6. QED
  BY <1>1, <1>2, <1>3, <1>4, <1>5 DEF Write

LEMMA DeleteKeeps ==
  ASSUME Inv, StreamInv, NEW t \in Tasks, Delete(t)
  PROVE  TypeInv' /\ StructInv' /\ StreamInv' /\ BlockInv'
<1>0. ending \in Int /\ errors \in Nat
  BY DEF Inv, TypeInv
<1>1. CASE FreeHashDirectoryRecord(t)
  <2>1. TypeInv' /\ StructInv' /\ StreamInv'
    BY <1>1, FreeHashStruct
  <2>2. UNCHANGED <<table, ending, owner, bits, errors>> /\ Goto(t, "free") /\ "free" \in PCs
    BY <1>1 DEF FreeHashDirectoryRecord, PCs
  <2>3. /\ \A u \in Tasks \ {t} : call'[u] = call[u]
        /\ Entry(t)' = Entry(t) /\ call'[t].dir = call[t].dir
    BY <2>2, GotoEffect DEF Inv, Entry
  <2>4. BlockInv'
    BY <1>0, <2>1, <2>2, <2>3, SameEntries
  <2>5. QED
    BY <2>1, <2>4
<1>2. CASE RefuseNotEmpty(t) \/ DeleteFails(t)
  <2>1. TypeInv' /\ StructInv' /\ StreamInv'
    BY <1>2, ReturnsStruct
  <2>2. /\ UNCHANGED <<table, ending, owner, bits>> /\ errors' \in {errors, errors + 1} /\ Return(t)
        /\ call[t].pc \in Deleting
    BY <1>2 DEF RefuseNotEmpty, DeleteFails, Deleting
  <2>3. /\ \A u \in Tasks \ {t} : call'[u] = call[u]
        /\ Entry(t)' = {} /\ Entry(t) = {}
    BY <2>2, ReturnEffect, NoCallType, EmptyFacts, DeletingFacts DEF Entry, Inv
  <2>4. BlockInv'
    BY <1>0, <2>1, <2>2, <2>3, SameEntries
  <2>5. QED
    BY <2>1, <2>4
<1>3. CASE FreeRecord(t)
  <2> DEFINE n == Head(call[t].chain)
  <2>1. TypeInv' /\ StructInv' /\ StreamInv'
    BY <1>3, FreeRecordStruct
  <2>2. call[t].pc \in Deleting /\ FreeDirectoryRecord(n) /\ ending' = ending /\ errors' = errors
    BY <1>3 DEF FreeRecord, Deleting
  <2>3. n \in Claims(t) /\ Entry(t) = {} /\ call[t].entries = <<>>
    BY <2>2, DeletingFacts
  <2>4. /\ \A u \in Tasks \ {t} : call'[u] = call[u]
        /\ call'[t] = NoCall \/ call'[t].entries = call[t].entries
    BY <1>3, FreeRecordEffect
  <2>5. Entry(t)' = {}
    BY <2>3, <2>4, NoCallType, EmptyFacts DEF Entry, Inv
  <2> HIDE DEF n
  <2>6. BlockInv'
    BY <2>1, <2>2, <2>3, <2>4, <2>5, BlocksFreed
  <2>7. QED
    BY <2>1, <2>6
<1>4. QED
  BY <1>1, <1>2, <1>3 DEF Delete

LEMMA MoveKeeps ==
  ASSUME Inv, StreamInv, NEW t \in Tasks, MoveEntry(t)
  PROVE  TypeInv' /\ StructInv' /\ StreamInv' /\ BlockInv'
<1>0. ending \in Int /\ errors \in Nat
  BY DEF Inv, TypeInv
<1>1. TypeInv' /\ StructInv' /\ StreamInv'
  BY MoveStruct, RenameInPlaceStruct, WriteInPlaceStruct, WriteInPlaceFailsStruct DEF MoveEntry
<1>2. call[t].pc \in {"move", "inplace"}
  BY DEF MoveEntry, Move, RenameInPlace, WriteInPlace, WriteInPlaceFails
<1>3. call[t] \in Calls /\ CallOK(call[t])
  BY CallFacts DEF Inv, StructInv, TaskOK
<1>4. call[t].entries = <<>> /\ call[t].src # 0 /\ call[t].src \in DirNos
  BY <1>2, <1>3, OpFacts, CallFacts DEF Inv
<1>5. Entry(t) = {}
  BY <1>4, EmptyFacts DEF Entry
<1>6. /\ \A u \in Tasks \ {t} : call'[u] = call[u]
      /\ call'[t] = NoCall \/ call'[t].entries = call[t].entries
  <2>1. CASE Return(t)
    BY <2>1, ReturnEffect DEF Inv
  <2>2. CASE call[t].pc = "move" /\ call' = [call EXCEPT ![t] = Moved(call[t])]
    BY <2>2, MovedEffect
  <2>3. CASE RenameInPlace(t)
    <3>1. PICK s \in DirNos : s = call[t].src
      BY <1>4
    <3>2. call' = [call EXCEPT ![t].chain = NameSpaceList(s), ![t].pc = "inplace"]
      BY <2>3, <3>1 DEF RenameInPlace
    <3>3. s \in DOS
      BY <1>4, <3>1, SrcFacts DEF Inv
    <3>4. QED
      BY <3>1, <3>2, <3>3, RenameInPlaceEffect
  <2>4. CASE WriteInPlace(t)
    BY <2>4, WriteInPlaceEffect
  <2>5. QED
    BY <2>1, <2>2, <2>3, <2>4 DEF MoveEntry, Move, WriteInPlaceFails
<1>7. Entry(t)' = {}
  BY <1>4, <1>6, NoCallType, EmptyFacts DEF Entry, Inv
<1>8. CASE Move(t) \/ RenameInPlace(t) \/ WriteInPlaceFails(t)
  <2>1. UNCHANGED <<table, ending, owner, bits>> /\ errors' \in {errors, errors + 1}
    BY <1>8 DEF Move, RenameInPlace, WriteInPlaceFails
  <2>2. BlockInv'
    BY <1>0, <1>1, <1>5, <1>6, <1>7, <2>1, SameEntries
  <2>3. QED
    BY <1>1, <2>2
<1>9. CASE WriteInPlace(t)
  <2>1. PICK n \in Used(table) : /\ \A m \in DirNos \ {n} : table'[m] = table[m]
                                 /\ \E x : table'[n] = [table[n] EXCEPT !.Name = x]
                                 /\ Used(table)' = Used(table)
                                 /\ UNCHANGED <<ending, owner, bits, errors>>
    BY <1>9, WriteInPlaceEffect
  <2>2. table'[n].Subdirectory = table[n].Subdirectory
    BY <2>1, RecordFacts DEF Inv, Records
  <2>3. \A m \in Used(table) : table'[m].Subdirectory = table[m].Subdirectory
    BY <2>1, <2>2 DEF Used
  <2>4. BlockInv'
    BY <1>0, <1>5, <1>6, <1>7, <2>1, <2>3, BlocksStay
  <2>5. QED
    BY <1>1, <2>4
<1>10. QED
  BY <1>8, <1>9 DEF MoveEntry

-----------------------------------------------------------------------------
(* The invariant and the steps *)

LEMMA InvNext ==
  ASSUME Inv, StreamInv, [Next]_vars
  PROVE  Inv' /\ StreamInv'
<1>1. ASSUME NEW t \in Tasks, Start(t) \/ Allocate(t) \/ Write(t) \/ Delete(t) \/ MoveEntry(t)
      PROVE  TypeInv' /\ StructInv' /\ StreamInv' /\ BlockInv'
  BY <1>1, StartKeeps, AllocateKeeps, WriteKeeps, DeleteKeeps, MoveKeeps
<1>2. CASE UNCHANGED vars
  <2>1. TypeInv'
    BY <1>2 DEF Inv, TypeInv, vars
  <2>0. hash' = hash /\ table' = table /\ call' = call
    BY <1>2 DEF vars
  <2>2. StructInv'
    <3>1. \A n : NameSpaceList(n)' = NameSpaceList(n) /\ List(n)' = List(n)
      BY <2>0 DEF NameSpaceList, List
    <3>2. \A t \in Tasks : Entry(t)' = Entry(t) /\ Chain(t)' = Chain(t) /\ Claims(t)' = Claims(t)
      BY <2>0 DEF Entry, Chain, Claims
    <3>3. DOS' = DOS /\ Used(table)' = Used(table)
      BY <2>0 DEF DOS, Used
    <3>4. \A n : RecordOK(n)' <=> RecordOK(n)
      BY <2>0, <3>3 DEF RecordOK
    <3>5. \A n : (Linked(n)' <=> Linked(n)) /\ (Written(n)' <=> Written(n))
      BY <2>0, <3>1 DEF Linked, Written
    <3>6. \A n : ListOK(n)' <=> ListOK(n)
      BY <2>0, <3>1, <3>2, <3>5 DEF ListOK
    <3>7. \A t \in Tasks : EntriesOK(t)' <=> EntriesOK(t)
      BY <2>0, <3>2 DEF EntriesOK
    <3>8. \A t \in Tasks : ChainOK(t)' <=> ChainOK(t)
      BY <2>0, <3>1, <3>2, <3>3 DEF ChainOK, Whole, Rest
    <3>9. \A t \in Tasks : SrcOK(t)' <=> SrcOK(t)
      BY <2>0, <3>1, <3>2, <3>3 DEF SrcOK
    <3>10. \A t \in Tasks : TaskOK(t)' <=> TaskOK(t)
      BY <2>0, <3>2, <3>7, <3>8, <3>9 DEF TaskOK
    <3>11. \A t, u \in Tasks : Apart(t, u)' <=> Apart(t, u)
      BY <2>0, <3>2 DEF Apart
    <3>12. QED
      BY <2>0, <3>3, <3>4, <3>6, <3>10, <3>11 DEF Inv, StructInv
  <2>3. BlockInv'
    BY <1>2 DEF Inv, BlockInv, RecordsAccounted, BlocksOneOwner, Used, vars
  <2>4. StreamInv'
    BY <1>2 DEF StreamInv, StreamsUsed, Used, vars
  <2>5. QED
    BY <2>1, <2>2, <2>3, <2>4 DEF Inv
<1>3. QED
  BY <1>1, <1>2 DEF Next, Inv

-----------------------------------------------------------------------------
(* Mounting *)

\* The records that a list leads to.
LeadsTo(T, n, l) ==
  /\ l \in Seq(DirNos) /\ Len(l) = K /\ l[1] = n
  /\ \A i \in 1 .. K : l[i] \in Used(T)
  /\ \A i \in 1 .. K : i # K => T[l[i]].NameList = l[i + 1] /\ l[i + 1] # 0

LEMMA NameListOfIs ==
  ASSUME NEW T, NEW n, NEW l, LeadsTo(T, n, l)
  PROVE  NameListOf(T, n) = l
<1> DEFINE Step(f) == [i \in NameSpaces |->
                         IF i = 1 THEN n
                         ELSE IF f[i - 1] \in Used(T) /\ T[f[i - 1]].NameList # 0 THEN T[f[i - 1]].NameList
                         ELSE FREE_NODE]
           at == CHOOSE f : f = Step(f)
<1>1. NameListOf(T, n) = SubSeq(at, 1, Cardinality({i \in NameSpaces : at[i] # FREE_NODE}))
  BY DEF NameListOf
<1>2. /\ K \in Nat /\ K > 0 /\ NameSpaces = 1 .. K
      /\ DOMAIN l = 1 .. K /\ l = [i \in 1 .. K |-> l[i]]
      /\ \A i \in 1 .. K : l[i] \in DirNos /\ l[i] \in Used(T) /\ l[i] # FREE_NODE
      /\ \A i \in 1 .. K : i # K => T[l[i]].NameList = l[i + 1] /\ l[i + 1] # 0
  <2>1. K \in Nat /\ K > 0 /\ NameSpaces = 1 .. K
    BY Constants DEF NameSpaces
  <2>2. DOMAIN l = 1 .. K /\ l \in [1 .. K -> DirNos]
    BY LenProperties DEF LeadsTo
  <2>3. \A i \in 1 .. K : l[i] \in DirNos /\ l[i] # FREE_NODE
    BY <2>2, DirNosSize, Constants
  <2>4. QED
    BY <2>1, <2>2, <2>3 DEF LeadsTo
<1>3. l = Step(l)
  <2>1. ASSUME NEW i \in 1 .. K PROVE l[i] = Step(l)[i]
    <3>1. CASE i = 1
      BY <1>2, <3>1 DEF LeadsTo
    <3>2. CASE i # 1
      <4>1. i - 1 \in 1 .. K /\ i - 1 # K /\ (i - 1) + 1 = i
        BY <1>2, <3>2
      <4>2. l[i - 1] \in Used(T) /\ T[l[i - 1]].NameList = l[i] /\ l[i] # 0
        BY <1>2, <4>1
      <4>3. QED
        BY <1>2, <3>2, <4>2
    <3>3. QED
      BY <3>1, <3>2
  <2>2. QED
    BY <1>2, <2>1
<1>4. at = Step(at)
  BY <1>3
<1> HIDE DEF at
<1>5. \A i \in 1 .. K : at[i] = l[i]
  <2> DEFINE S == {i \in 1 .. K : at[i] # l[i]}
  <2>1. SUFFICES ASSUME S # {} PROVE FALSE
    OBVIOUS
  <2>2. S \subseteq Nat
    BY <1>2
  <2>3. PICK i \in S : \A j \in S : i <= j
    BY <2>1, <2>2, LeastIn
  <2>4. i \in 1 .. K /\ at[i] # l[i]
    OBVIOUS
  <2>5. CASE i = 1
    BY <1>2, <1>4, <2>4, <2>5 DEF LeadsTo
  <2>6. CASE i # 1
    <3>1. i - 1 \in 1 .. K /\ i - 1 \notin S
      BY <1>2, <2>3, <2>4, <2>6
    <3>2. at[i - 1] = l[i - 1]
      BY <3>1
    <3>3. at[i] = Step(at)[i] /\ l[i] = Step(l)[i]
      BY <1>3, <1>4
    <3>4. QED
      BY <1>2, <2>4, <2>6, <3>2, <3>3
  <2>7. QED
    BY <2>5, <2>6
<1>6. at = l
  BY <1>2, <1>4, <1>5
<1>7. Cardinality({i \in NameSpaces : at[i] # FREE_NODE}) = K
  <2>1. {i \in NameSpaces : at[i] # FREE_NODE} = 1 .. K
    BY <1>2, <1>5
  <2>2. Cardinality(1 .. K) = K
    BY <1>2, FS_Interval
  <2>3. QED
    BY <2>1, <2>2
<1>8. SubSeq(l, 1, K) = l
  BY SubSeqFull DEF LeadsTo
<1>9. QED
  BY <1>1, <1>6, <1>7, <1>8

\* The records of the formatted directory file.
IsFormatted(T, m) ==
  /\ T \in [DirNos -> Records \cup {FREE_NODE}] /\ Used(T) = 0 .. 2 * K - 1 /\ Used(T) \subseteq DirNos
  /\ \A n \in 0 .. 2 * K - 1 :
       /\ T[n].Subdirectory = 0 /\ T[n].Name = m /\ T[n].Kind = "dir" /\ T[n].FirstBlock = 0
       /\ T[n].NameSpace = (IF n < K THEN n + 1 ELSE n - K + 1)
       /\ T[n].NameList = (IF n = K - 1 \/ n = 2 * K - 1 THEN 0 ELSE n + 1)
       /\ T[n].PrimaryEntry = (IF n < K THEN 0 ELSE K)
  /\ DOSRecords(T) = {0, K}

LEMMA FormattedFacts ==
  ASSUME NEW m \in Names
  PROVE  IsFormatted(Formatted(m), m)
<1> DEFINE T == Formatted(m)
<1>1. K \in Nat /\ K > 0 /\ NameSpaceCount = K /\ FREE_NODE \notin Records
  BY Constants
<1>2. 0 .. 2 * K - 1 \subseteq DirNos /\ DirNos \subseteq Nat
  <2>1. MaxBlocks * DirsPerBlock \in Nat /\ 2 * K <= MaxBlocks * DirsPerBlock
    BY DirNosSize, Constants
  <2>2. QED
    BY <1>1, <2>1 DEF DirNos
<1>3. T = [n \in DirNos |->
    IF n >= 2 * K THEN FREE_NODE
    ELSE LET first == IF n < K THEN 0 ELSE K
             ns == n - first + 1
         IN Record(0, m, ns, "dir", IF ns = K THEN 0 ELSE n + 1, first, 0)]
  BY DEF Formatted, K
<1> HIDE DEF T
<1>4. ASSUME NEW n \in 0 .. 2 * K - 1
      PROVE  /\ T[n] \in Records
             /\ T[n].Subdirectory = 0 /\ T[n].Name = m /\ T[n].Kind = "dir" /\ T[n].FirstBlock = 0
             /\ T[n].NameSpace = (IF n < K THEN n + 1 ELSE n - K + 1)
             /\ T[n].NameList = (IF n = K - 1 \/ n = 2 * K - 1 THEN 0 ELSE n + 1)
             /\ T[n].PrimaryEntry = (IF n < K THEN 0 ELSE K)
  <2> DEFINE first == IF n < K THEN 0 ELSE K
             ns == n - first + 1
             next == IF ns = K THEN 0 ELSE n + 1
  <2>1. T[n] = Record(0, m, ns, "dir", next, first, 0)
    BY <1>1, <1>2, <1>3
  <2>2. /\ ns \in 1 .. K /\ ns = (IF n < K THEN n + 1 ELSE n - K + 1)
        /\ next = (IF n = K - 1 \/ n = 2 * K - 1 THEN 0 ELSE n + 1)
        /\ next \in 0 .. 2 * K - 1 /\ first \in 0 .. 2 * K - 1 /\ first = (IF n < K THEN 0 ELSE K)
    BY <1>1
  <2> HIDE DEF first, ns, next
  <2>3. 0 \in DirNos /\ next \in DirNos /\ first \in DirNos /\ ns \in NameSpaces /\ 0 \in Streams
    BY <1>1, <1>2, <2>2, DirNosSize, Constants DEF NameSpaces, Streams
  <2>4. /\ Record(0, m, ns, "dir", next, first, 0) \in Records
        /\ Record(0, m, ns, "dir", next, first, 0).Subdirectory = 0
        /\ Record(0, m, ns, "dir", next, first, 0).Name = m
        /\ Record(0, m, ns, "dir", next, first, 0).NameSpace = ns
        /\ Record(0, m, ns, "dir", next, first, 0).Kind = "dir"
        /\ Record(0, m, ns, "dir", next, first, 0).NameList = next
        /\ Record(0, m, ns, "dir", next, first, 0).PrimaryEntry = first
        /\ Record(0, m, ns, "dir", next, first, 0).FirstBlock = 0
    BY <2>3 DEF Record, Records
  <2>5. QED
    BY <2>1, <2>2, <2>4
<1>5. \A n \in DirNos : n \in 0 .. 2 * K - 1 \/ T[n] = FREE_NODE
  BY <1>1, <1>2, <1>3
<1>6. T \in [DirNos -> Records \cup {FREE_NODE}]
  <2>1. DOMAIN T = DirNos /\ T = [n \in DirNos |-> T[n]]
    BY <1>3
  <2>2. \A n \in DirNos : T[n] \in Records \cup {FREE_NODE}
    BY <1>4, <1>5
  <2>3. QED
    BY <2>1, <2>2
<1>7. Used(T) = 0 .. 2 * K - 1
  <2>1. \A n \in 0 .. 2 * K - 1 : n \in DirNos /\ T[n] # FREE_NODE
    BY <1>1, <1>2, <1>4
  <2>2. QED
    BY <1>5, <2>1 DEF Used
<1>8. DOSRecords(T) = {0, K}
  <2>1. ASSUME NEW n \in 0 .. 2 * K - 1 PROVE T[n].NameSpace = 1 <=> n = 0 \/ n = K
    BY <1>1, <1>4, <2>1
  <2>2. 0 \in 0 .. 2 * K - 1 /\ K \in 0 .. 2 * K - 1
    BY <1>1
  <2>3. QED
    BY <1>7, <2>1, <2>2 DEF DOSRecords
<1>9. QED
  BY <1>2, <1>4, <1>6, <1>7, <1>8 DEF IsFormatted, T

\* The list of one of the two entries of a formatted volume.
LEMMA FormattedLists ==
  ASSUME NEW T, NEW m, IsFormatted(T, m), NEW n \in {0, K}
  PROVE  LET l == [i \in 1 .. K |-> n + i - 1] IN LeadsTo(T, n, l) /\ NameListOf(T, n) = l
<1> DEFINE l == [i \in 1 .. K |-> n + i - 1]
<1>1. K \in Nat /\ K > 0 /\ n \in Nat
  BY Constants
<1>2. \A i \in 1 .. K : l[i] = n + i - 1 /\ l[i] \in 0 .. 2 * K - 1
  BY <1>1
<1>3. \A i \in 1 .. K : l[i] \in Used(T) /\ l[i] \in DirNos
  BY <1>2 DEF IsFormatted
<1>4. l \in Seq(DirNos) /\ Len(l) = K
  <2>1. l \in [1 .. K -> DirNos]
    BY <1>3
  <2>2. QED
    BY <1>1, <2>1
<1>5. ASSUME NEW i \in 1 .. K, i # K PROVE T[l[i]].NameList = l[i + 1] /\ l[i + 1] # 0
  <2>1. i + 1 \in 1 .. K /\ l[i + 1] = n + i /\ l[i] = n + i - 1
    BY <1>1, <1>2, <1>5
  <2>2. n + i - 1 # K - 1 /\ n + i - 1 # 2 * K - 1 /\ n + i # 0
    BY <1>1, <1>5
  <2>3. T[l[i]].NameList = (IF l[i] = K - 1 \/ l[i] = 2 * K - 1 THEN 0 ELSE l[i] + 1)
    BY <1>2 DEF IsFormatted
  <2>4. QED
    BY <1>1, <2>1, <2>2, <2>3
<1>6. l[1] = n
  BY <1>1
<1>7. LeadsTo(T, n, l)
  BY <1>3, <1>4, <1>5, <1>6 DEF LeadsTo
<1>8. QED
  BY <1>7, NameListOfIs

LEMMA FormattedHash ==
  ASSUME NEW m, IsFormatted(table, m), hash = MountHash(table), m \in Names
  PROVE  /\ IsHash(hash) /\ DOMAIN hash = 0 .. 2 * K - 1 /\ DOS = {0, K}
         /\ \A n \in DOMAIN hash :
              /\ hash[n].Parent = 0 /\ hash[n].Name = m /\ hash[n].NameSpace = table[n].NameSpace
              /\ hash[n].Kind = "dir" /\ hash[n].Root = table[n].PrimaryEntry /\ hash[n].FirstBlock = 0
              /\ hash[n].Blocks = (IF n = 0 THEN Cardinality({0, K}) ELSE 0)
         /\ \A n \in DOS : NameSpaceList(n) = [i \in 1 .. K |-> n + i - 1]
                           /\ NameSpaceList(n) \in Seq(DirNos) /\ Len(NameSpaceList(n)) = K
<1> DEFINE Kids(n) == {k \in DOSRecords(table) : table[k].Subdirectory = n}
<1>1. /\ K \in Nat /\ K > 0 /\ Used(table) = 0 .. 2 * K - 1 /\ Used(table) \subseteq DirNos
      /\ DOSRecords(table) = {0, K}
      /\ \A n \in 0 .. 2 * K - 1 :
       /\ table[n].Subdirectory = 0 /\ table[n].Name = m /\ table[n].Kind = "dir" /\ table[n].FirstBlock = 0
       /\ table[n].NameSpace = (IF n < K THEN n + 1 ELSE n - K + 1)
       /\ table[n].PrimaryEntry = (IF n < K THEN 0 ELSE K)
  BY Constants DEF IsFormatted
<1>2. DOMAIN hash = 0 .. 2 * K - 1 /\ hash = [n \in DOMAIN hash |-> hash[n]]
  BY <1>1 DEF MountHash
<1>3. \A n \in DOMAIN hash :
        /\ hash[n].Parent = table[table[n].PrimaryEntry].Subdirectory /\ hash[n].Name = table[n].Name
        /\ hash[n].NameSpace = table[n].NameSpace /\ hash[n].Kind = table[n].Kind
        /\ hash[n].Root = table[n].PrimaryEntry /\ hash[n].FirstBlock = table[n].FirstBlock
        /\ n \in DOSRecords(table) =>
             /\ hash[n].Blocks = Cardinality(Kids(n))
             /\ hash[n].nl = Tail(NameListOf(table, n))
        /\ n \notin DOSRecords(table) => hash[n].Blocks = 0 /\ hash[n].nl = <<>>
        /\ \E a, b, c, d, e, f, g, h : hash[n] = [Parent |-> a, Name |-> b, NameSpace |-> c, Kind |-> d, Root |-> e,
                                                  FirstBlock |-> f, Blocks |-> g, nl |-> h]
  <2>1. SUFFICES ASSUME NEW n \in DOMAIN hash
                 PROVE
        /\ hash[n].Parent = table[table[n].PrimaryEntry].Subdirectory /\ hash[n].Name = table[n].Name
        /\ hash[n].NameSpace = table[n].NameSpace /\ hash[n].Kind = table[n].Kind
        /\ hash[n].Root = table[n].PrimaryEntry /\ hash[n].FirstBlock = table[n].FirstBlock
        /\ n \in DOSRecords(table) =>
             /\ hash[n].Blocks = Cardinality(Kids(n))
             /\ hash[n].nl = Tail(NameListOf(table, n))
        /\ n \notin DOSRecords(table) => hash[n].Blocks = 0 /\ hash[n].nl = <<>>
        /\ \E a, b, c, d, e, f, g, h : hash[n] = [Parent |-> a, Name |-> b, NameSpace |-> c, Kind |-> d, Root |-> e,
                                                  FirstBlock |-> f, Blocks |-> g, nl |-> h]
    OBVIOUS
  <2>2. PICK g : g = IF n \in DOSRecords(table)
                     THEN Cardinality(Kids(n)) ELSE 0
    OBVIOUS
  <2>3. PICK h : h = IF n \in DOSRecords(table) THEN Tail(NameListOf(table, n)) ELSE <<>>
    OBVIOUS
  <2>4. hash[n] = [Parent |-> table[table[n].PrimaryEntry].Subdirectory, Name |-> table[n].Name,
                   NameSpace |-> table[n].NameSpace, Kind |-> table[n].Kind, Root |-> table[n].PrimaryEntry,
                   FirstBlock |-> table[n].FirstBlock, Blocks |-> g, nl |-> h]
    BY <1>1, <1>2, <2>1, <2>2, <2>3 DEF MountHash
  <2>5. /\ hash[n].Parent = table[table[n].PrimaryEntry].Subdirectory /\ hash[n].Name = table[n].Name
        /\ hash[n].NameSpace = table[n].NameSpace /\ hash[n].Kind = table[n].Kind
        /\ hash[n].Root = table[n].PrimaryEntry /\ hash[n].FirstBlock = table[n].FirstBlock
        /\ hash[n].Blocks = g /\ hash[n].nl = h
    BY <2>4
  <2>6. QED
    BY <2>2, <2>3, <2>4, <2>5
<1> HIDE DEF Kids
<1>4. 0 \in 0 .. 2 * K - 1 /\ K \in 0 .. 2 * K - 1
  BY <1>1
<1>5. ASSUME NEW n \in DOMAIN hash
      PROVE  /\ hash[n].Parent = 0 /\ hash[n].Name = m /\ hash[n].NameSpace = table[n].NameSpace
             /\ hash[n].Kind = "dir" /\ hash[n].Root = table[n].PrimaryEntry /\ hash[n].FirstBlock = 0
             /\ hash[n].NameSpace \in 1 .. K /\ hash[n].Root \in DirNos
  <2>1. n \in 0 .. 2 * K - 1 /\ table[n].PrimaryEntry \in {0, K}
    BY <1>1, <1>2
  <2>2. table[table[n].PrimaryEntry].Subdirectory = 0
    BY <1>1, <1>4, <2>1
  <2>3. table[n].NameSpace \in 1 .. K
    BY <1>1, <2>1
  <2>4. table[n].PrimaryEntry \in DirNos
    BY <1>1, <1>4, <2>1
  <2>5. QED
    BY <1>1, <1>3, <2>1, <2>2, <2>3, <2>4
<1>6. ASSUME NEW n \in DOMAIN hash PROVE hash[n].Blocks = IF n = 0 THEN Cardinality({0, K}) ELSE 0
  <2>1. CASE n = 0
    <3>1. Kids(n) = {0, K}
      BY <1>1, <1>4, <2>1 DEF Kids
    <3>2. n \in DOSRecords(table)
      BY <1>1, <2>1
    <3>3. hash[n].Blocks = Cardinality(Kids(n))
      BY <1>3, <3>2
    <3>4. QED
      BY <2>1, <3>1, <3>3
  <2>2. CASE n # 0
    <3>1. Kids(n) = {}
      BY <1>1, <1>4, <2>2 DEF Kids
    <3>2. QED
      BY <1>3, <2>2, <3>1, FS_EmptySet
  <2>3. QED
    BY <2>1, <2>2
<1>7. Cardinality({0, K}) \in Int
  <2>1. IsFiniteSet({0, K})
    <3>1. IsFiniteSet({0}) /\ {0, K} = {0} \cup {K}
      BY FS_Singleton
    <3>2. QED
      BY <3>1, FS_AddElement
  <2>2. QED
    BY <2>1, FS_CardinalityType
<1>8. DOS = {0, K}
  <2>1. \A n \in DOMAIN hash : hash[n].NameSpace = 1 <=> n = 0 \/ n = K
    BY <1>1, <1>2, <1>5
  <2>2. QED
    BY <1>2, <1>4, <2>1 DEF DOS
<1>9. ASSUME NEW n \in {0, K}
      PROVE  LET l == [i \in 1 .. K |-> n + i - 1]
             IN /\ hash[n].nl = Tail(l) /\ l \in Seq(DirNos) /\ Tail(l) \in Seq(DirNos)
                /\ NameSpaceList(n) = l /\ Len(l) = K
  <2> DEFINE l == [i \in 1 .. K |-> n + i - 1]
  <2>1. l \in Seq(DirNos) /\ Len(l) = K /\ l[1] = n /\ NameListOf(table, n) = l
    BY <1>1, FormattedLists DEF LeadsTo
  <2> HIDE DEF l
  <2>2. n \in DOMAIN hash /\ n \in DirNos
    BY <1>1, <1>2, <1>4
  <2>3. hash[n].nl = Tail(l)
    BY <1>1, <1>3, <2>1, <2>2
  <2>4. l # <<>>
    BY <1>1, <2>1, EmptyFacts
  <2>5. Tail(l) \in Seq(DirNos) /\ Len(Tail(l)) = K - 1 /\ \A i \in 1 .. K - 1 : Tail(l)[i] = l[i + 1]
    BY <2>1, <2>4, TailOf
  <2>6. <<n>> \o Tail(l) = l
    <3>1. /\ <<n>> \o Tail(l) \in Seq(DirNos) /\ Len(<<n>> \o Tail(l)) = K
          /\ (<<n>> \o Tail(l))[1] = n
          /\ \A i \in 2 .. K : (<<n>> \o Tail(l))[i] = Tail(l)[i - 1]
      BY <1>1, <2>2, <2>5, Prefixed
    <3>2. \A i \in 2 .. K : Tail(l)[i - 1] = l[i]
      BY <1>1, <2>5
    <3>3. \A i \in 1 .. K : (<<n>> \o Tail(l))[i] = l[i]
      BY <1>1, <2>1, <3>1, <3>2
    <3>4. QED
      BY <2>1, <3>1, <3>3, SeqEqual
  <2>7. NameSpaceList(n) = l
    BY <2>3, <2>6 DEF NameSpaceList
  <2>8. QED
    BY <2>1, <2>3, <2>5, <2>7 DEF l
<1>10. \A n \in DOMAIN hash : hash[n].nl \in Seq(DirNos)
  <2>1. \A n \in DOMAIN hash : n \notin DOSRecords(table) => hash[n].nl = <<>>
    BY <1>3
  <2>2. QED
    BY <1>1, <1>9, <2>1, EmptyFacts
<1>11. \A n \in DOMAIN hash : hash[n] \in Hashes
  <2>1. SUFFICES ASSUME NEW n \in DOMAIN hash PROVE hash[n] \in Hashes
    OBVIOUS
  <2>2. \E a, b, c, d, e, f, g, h : hash[n] = [Parent |-> a, Name |-> b, NameSpace |-> c, Kind |-> d, Root |-> e,
                                               FirstBlock |-> f, Blocks |-> g, nl |-> h]
    BY <1>3
  <2>3. hash[n].Blocks \in Int
    BY <1>6, <1>7
  <2>4. 0 \in DirNos /\ 0 \in Streams
    BY DirNosSize, Constants DEF Streams
  <2>5. /\ hash[n].Parent \in DirNos /\ hash[n].Name \in Names /\ hash[n].NameSpace \in NameSpaces
        /\ hash[n].Kind \in {"dir", "file"} /\ hash[n].Root \in DirNos /\ hash[n].FirstBlock \in Streams
        /\ hash[n].nl \in Seq(DirNos)
    BY <1>5, <1>10, <2>4 DEF NameSpaces, K
  <2>6. QED
    BY <2>2, <2>3, <2>5 DEF Hashes
<1>12. IsHash(hash)
  <2>1. DOMAIN hash \subseteq DirNos
    BY <1>1, <1>2
  <2>2. QED
    BY <1>2, <1>11, <2>1 DEF IsHash
<1>13. \A n \in DOS : NameSpaceList(n) = [i \in 1 .. K |-> n + i - 1]
                     /\ NameSpaceList(n) \in Seq(DirNos) /\ Len(NameSpaceList(n)) = K
  BY <1>8, <1>9
<1>14. QED
  BY <1>2, <1>5, <1>6, <1>8, <1>12, <1>13

LEMMA QuotientOrder ==
  ASSUME NEW n \in Nat, NEW m \in Nat, n <= m
  PROVE  BlockOf(n) <= BlockOf(m) /\ BlockOf(n) \in Nat
<1> DEFINE d == DirsPerBlock
           q == n \div d
           r == m \div d
<1>1. d \in Nat /\ d > 0
  BY Constants
<1>2. q \in Nat /\ r \in Nat /\ d * q <= n /\ m < d * r + d
  BY <1>1
<1>3. ASSUME q >= r + 1 PROVE FALSE
  <2>1. d * q >= d * (r + 1) /\ d * (r + 1) = d * r + d
    BY <1>1, <1>2, <1>3
  <2>2. d * q \in Nat /\ d * r \in Nat
    BY <1>1, <1>2
  <2>3. QED
    BY <1>1, <1>2, <2>1, <2>2
<1>4. QED
  BY <1>2, <1>3 DEF BlockOf

LEMMA InitTypes ==
  ASSUME Init
  PROVE  TypeInv /\ StreamInv
<1>1. PICK m \in Names : table = Formatted(m)
  BY DEF Init
<1>2. IsFormatted(table, m)
  BY <1>1, FormattedFacts
<1>3. IsHash(hash)
  BY <1>2, FormattedHash DEF Init
<1>4. /\ table \in [DirNos -> Records \cup {FREE_NODE}] /\ Used(table) = 0 .. 2 * K - 1 /\ Used(table) \subseteq DirNos
      /\ \A n \in Used(table) : table[n].Subdirectory = 0 /\ table[n].FirstBlock = 0
  BY <1>2 DEF IsFormatted
<1>5. 0 \in DirNos /\ 0 \in Streams /\ K \in Nat /\ K > 0 /\ MaxBlocks \in Nat
  BY DirNosSize, Constants DEF Streams
<1>6. ending \in 1 .. MaxBlocks
  <2>1. ending = BlockOf(2 * K - 1) + 1
    BY DEF Init, K
  <2>2. BlockOf(2 * K - 1) \in 0 .. MaxBlocks - 1
    BY DirNosSize, InBlock DEF Blocks
  <2>3. QED
    BY <1>5, <2>1, <2>2
<1>7. owner \in [Blocks -> DirNos \cup {FREE_NODE}]
  <2>1. owner = MountOwner(table)
    BY DEF Init
  <2>2. ASSUME NEW b \in Blocks PROVE MountOwner(table)[b] \in DirNos \cup {FREE_NODE}
    <3> DEFINE used == RecordsOf(b) \cap Used(table)
    <3>1. CASE used = {}
      BY <3>1 DEF MountOwner
    <3>2. CASE used # {}
      <4>1. \E n \in used : \A k \in used : n <= k
        BY <1>4, <3>2, DirNosSize, LeastIn
      <4>2. (CHOOSE n \in used : \A k \in used : n <= k) \in used
        BY <4>1
      <4>3. MountOwner(table)[b] = table[CHOOSE n \in used : \A k \in used : n <= k].Subdirectory
        BY <3>2 DEF MountOwner
      <4>4. QED
        BY <1>4, <1>5, <4>2, <4>3
    <3>3. QED
      BY <3>1, <3>2
  <2>3. QED
    BY <2>1, <2>2 DEF MountOwner
<1>8. bits \subseteq DirNos
  BY <1>4 DEF Init
<1>9. NoCall \in Calls
  BY <1>1, <1>5, EmptyFacts DEF NoCall, Calls, K
<1>10. call \in [Tasks -> Calls] /\ calls \in Nat /\ errors \in Nat /\ orphaned \in BOOLEAN
  BY <1>9 DEF Init
<1>11. TypeInv
  BY <1>3, <1>4, <1>6, <1>7, <1>8, <1>10 DEF TypeInv, IsHash
<1>12. StreamsUsed = {}
  <2>1. \A t \in Tasks : call[t].data = 0
    BY DEF Init, NoCall
  <2>2. \A x \in Streams \ {0} : x # 0
    OBVIOUS
  <2>3. QED
    BY <1>4, <2>1 DEF StreamsUsed
<1>13. StreamInv
  BY <1>12, FS_EmptySet DEF StreamInv, Init
<1>14. QED
  BY <1>11, <1>13

LEMMA NoCallFields ==
  /\ NoCall.op = "none" /\ NoCall.pc = "idle" /\ NoCall.locks = {} /\ NoCall.dir = 0
  /\ NoCall.data = 0 /\ NoCall.src = 0 /\ NoCall.entries = <<>> /\ NoCall.written = 0
  /\ NoCall.chain = <<>> /\ NoCall.kind = "file"
  BY DEF NoCall

LEMMA InitStruct ==
  ASSUME Init
  PROVE  StructInv
<1>1. PICK m \in Names : IsFormatted(table, m)
  BY FormattedFacts DEF Init
<1>2. /\ Used(table) = 0 .. 2 * K - 1 /\ Used(table) \subseteq DirNos
      /\ \A n \in 0 .. 2 * K - 1 :
       /\ table[n].Subdirectory = 0 /\ table[n].Name = m /\ table[n].Kind = "dir" /\ table[n].FirstBlock = 0
       /\ table[n].NameSpace = (IF n < K THEN n + 1 ELSE n - K + 1)
       /\ table[n].NameList = (IF n = K - 1 \/ n = 2 * K - 1 THEN 0 ELSE n + 1)
       /\ table[n].PrimaryEntry = (IF n < K THEN 0 ELSE K)
  BY <1>1 DEF IsFormatted
<1>3. /\ DOMAIN hash = 0 .. 2 * K - 1 /\ DOS = {0, K}
      /\ \A n \in DOMAIN hash :
           /\ hash[n].Parent = 0 /\ hash[n].NameSpace = table[n].NameSpace
           /\ hash[n].Kind = "dir" /\ hash[n].Root = table[n].PrimaryEntry /\ hash[n].FirstBlock = 0
      /\ \A n \in DOS : NameSpaceList(n) = [i \in 1 .. K |-> n + i - 1]
                        /\ NameSpaceList(n) \in Seq(DirNos) /\ Len(NameSpaceList(n)) = K
  BY <1>1, FormattedHash DEF Init
<1>4. \A t \in Tasks : call[t] = NoCall
  BY DEF Init
<1>5. \A t \in Tasks : Entry(t) = {} /\ Chain(t) = {} /\ Claims(t) = {}
  BY <1>4, NoCallFields, EmptyFacts DEF Entry, Chain, Claims
<1>6. K \in Nat /\ K > 0
  BY Constants
<1>7. ASSUME NEW t \in Tasks PROVE TaskOK(t)
  <2>1. /\ call[t].op = "none" /\ call[t].pc = "idle" /\ call[t].locks = {} /\ call[t].dir = 0
        /\ call[t].data = 0 /\ call[t].src = 0 /\ call[t].entries = <<>> /\ call[t].written = 0
        /\ call[t].chain = <<>> /\ call[t].kind = "file"
    BY <1>4, NoCallFields
  <2>2. CallOK(call[t])
    BY <1>4, <2>1, EmptyFacts DEF CallOK, Making, Deleting
  <2>3. EntriesOK(t) /\ ChainOK(t) /\ SrcOK(t)
    BY <1>5, <2>1 DEF EntriesOK, ChainOK, SrcOK, Making
  <2>4. QED
    BY <1>5, <2>2, <2>3 DEF TaskOK
<1>8. \A t, u \in Tasks : t # u => Apart(t, u)
  BY <1>4, <1>5, NoCallFields DEF Apart
<1>9. \A n \in DOMAIN hash : RecordOK(n)
  BY <1>2, <1>3 DEF RecordOK
<1>10. ASSUME NEW n \in DOS PROVE ListOK(n)
  <2>1. n \in {0, K} /\ DOMAIN NameSpaceList(n) = 1 .. K /\ \A i \in 1 .. K : NameSpaceList(n)[i] = n + i - 1
    BY <1>3, LenProperties
  <2>2. ASSUME NEW i \in 1 .. K
        PROVE  /\ NameSpaceList(n)[i] \in DOMAIN hash /\ hash[NameSpaceList(n)[i]].NameSpace = i
               /\ hash[NameSpaceList(n)[i]].Root = n /\ hash[NameSpaceList(n)[i]].Parent = hash[n].Parent
               /\ table[NameSpaceList(n)[i]].NameList = (IF i = K THEN 0 ELSE NameSpaceList(n)[i + 1])
    <3>1. NameSpaceList(n)[i] = n + i - 1 /\ n + i - 1 \in 0 .. 2 * K - 1
      BY <1>6, <2>1
    <3>2. table[n + i - 1].NameSpace = i /\ table[n + i - 1].PrimaryEntry = n
      <4>1. CASE n = 0
        <5>1. n + i - 1 = i - 1 /\ i - 1 < K /\ i - 1 \in 0 .. 2 * K - 1
          BY <1>6, <4>1
        <5>2. table[i - 1].NameSpace = i - 1 + 1 /\ table[i - 1].PrimaryEntry = 0
          BY <1>2, <5>1
        <5>3. QED
          BY <1>6, <4>1, <5>1, <5>2
      <4>2. CASE n = K
        <5>1. ~(n + i - 1 < K) /\ (n + i - 1) - K + 1 = i /\ n # 0
          BY <1>6, <4>2
        <5>2. /\ table[n + i - 1].NameSpace = (n + i - 1) - K + 1
              /\ table[n + i - 1].PrimaryEntry = K
          BY <1>2, <3>1, <5>1
        <5>3. QED
          BY <4>2, <5>1, <5>2
      <4>3. QED
        BY <2>1, <4>1, <4>2
    <3>3. i # K => NameSpaceList(n)[i + 1] = n + i
      <4>1. i # K => i + 1 \in 1 .. K
        BY <1>6
      <4>2. QED
        BY <1>6, <2>1, <4>1
    <3>4. table[n + i - 1].NameList = (IF i = K THEN 0 ELSE n + i)
      BY <1>2, <1>6, <2>1, <3>1
    <3>5. n \in DOMAIN hash
      BY <1>3, <1>6, <2>1
    <3>6. QED
      BY <1>3, <3>1, <3>2, <3>3, <3>4, <3>5
  <2>3. Linked(n)
    BY <2>1, <2>2 DEF Linked
  <2>4. hash[n].Kind = "dir"
    <3>1. n \in DOMAIN hash
      BY DEF DOS
    <3>2. QED
      BY <1>3, <3>1
  <2>5. Written(n)
    BY <1>3, <2>2, <2>4 DEF Written
  <2>6. QED
    BY <1>5, <2>3, <2>5 DEF ListOK
<1>11. 0 \in DOS
  BY <1>3
<1>12. QED
  BY <1>7, <1>8, <1>9, <1>10, <1>11 DEF StructInv

LEMMA InitBlocks ==
  ASSUME Init
  PROVE  BlockInv
<1>1. PICK m \in Names : IsFormatted(table, m)
  BY FormattedFacts DEF Init
<1>2. /\ Used(table) = 0 .. 2 * K - 1 /\ Used(table) \subseteq DirNos
      /\ \A n \in 0 .. 2 * K - 1 : table[n].Subdirectory = 0
  BY <1>1 DEF IsFormatted
<1>3. bits = Used(table) /\ owner = MountOwner(table) /\ ending = BlockOf(2 * K - 1) + 1
      /\ \A t \in Tasks : call[t].entries = <<>>
  BY DEF Init, NoCall, K
<1>4. \A t \in Tasks : InSequence(call[t].entries) = {}
  BY <1>3, EmptyFacts
<1>5. K \in Nat /\ K > 0 /\ 0 # FREE_NODE
  BY Constants
<1>6. \A n \in bits : BlockOf(n) < ending
  <2>1. SUFFICES ASSUME NEW n \in 0 .. 2 * K - 1 PROVE BlockOf(n) < ending
    BY <1>2, <1>3
  <2>2. n \in Nat /\ 2 * K - 1 \in Nat /\ n <= 2 * K - 1
    BY <1>5
  <2>3. BlockOf(n) <= BlockOf(2 * K - 1) /\ BlockOf(n) \in Nat /\ BlockOf(2 * K - 1) \in Nat
    BY <2>2, QuotientOrder
  <2>4. QED
    BY <1>3, <2>3
<1>7. RecordsAccounted
  BY <1>3, <1>4, <1>6 DEF RecordsAccounted
<1>8. ASSUME NEW b \in Blocks
      PROVE  owner[b] = IF RecordsOf(b) \cap bits = {} THEN FREE_NODE ELSE 0
  <2> DEFINE used == RecordsOf(b) \cap Used(table)
  <2>1. CASE used = {}
    BY <1>3, <2>1 DEF MountOwner
  <2>2. CASE used # {}
    <3>1. \E n \in used : \A k \in used : n <= k
      BY <1>2, <2>2, DirNosSize, LeastIn
    <3>2. (CHOOSE n \in used : \A k \in used : n <= k) \in used
      BY <3>1
    <3>3. MountOwner(table)[b] = table[CHOOSE n \in used : \A k \in used : n <= k].Subdirectory
      BY <2>2 DEF MountOwner
    <3>4. QED
      BY <1>2, <1>3, <2>2, <3>2, <3>3
  <2>3. QED
    BY <2>1, <2>2
<1>9. BlocksOneOwner
  <2>1. \A b \in Blocks : owner[b] = FREE_NODE <=> RecordsOf(b) \cap bits = {}
    BY <1>5, <1>8
  <2>2. \A n \in Used(table) : owner[BlockOf(n)] = table[n].Subdirectory
    <3>1. SUFFICES ASSUME NEW n \in Used(table) PROVE owner[BlockOf(n)] = table[n].Subdirectory
      OBVIOUS
    <3>2. n \in DirNos /\ BlockOf(n) \in Blocks /\ n \in RecordsOf(BlockOf(n))
      BY <1>2, InBlock
    <3>3. QED
      BY <1>2, <1>3, <1>8, <3>2
  <2>3. QED
    BY <1>4, <2>1, <2>2 DEF BlocksOneOwner
<1>10. QED
  BY <1>7, <1>9 DEF BlockInv

LEMMA InvInit ==
  ASSUME Init
  PROVE  Inv /\ StreamInv
  BY InitTypes, InitStruct, InitBlocks DEF Inv
-----------------------------------------------------------------------------
(* The theorems *)

LEMMA InvStays == Spec => [](Inv /\ StreamInv)
<1>1. Init => Inv /\ StreamInv
  BY InvInit
<1>2. Inv /\ StreamInv /\ [Next]_vars => (Inv /\ StreamInv)'
  BY InvNext
<1>3. QED
  BY <1>1, <1>2, PTL DEF Spec

\* AllocateDirectoryRecord, ReleaseDirectoryRecord and FreeDirectoryRecord keep the bit
\* lists exact: a record in use or allocated by a call is marked, no two calls get the
\* same record, and nothing is marked for nobody unless a read or write failed.
THEOREM RecordsStayAccounted == Spec => []RecordsAccounted
<1>1. Inv => RecordsAccounted
  BY DEF Inv, BlockInv
<1>2. QED
  BY <1>1, InvStays, PTL

\* DirAssignHash holds: whatever calls allocate and free, a block has the records of
\* one parent and is on the free list exactly when it has none.
THEOREM BlocksHaveOneOwner == Spec => []BlocksOneOwner
<1>1. Inv => BlocksOneOwner
  BY DEF Inv, BlockInv
<1>2. QED
  BY <1>1, InvStays, PTL
=============================================================================

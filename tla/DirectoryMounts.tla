---------------------------- MODULE DirectoryMounts ----------------------------
(***************************************************************************)
(* Proofs about Directory, continued: what a mount builds from the         *)
(* directory file is what the calls left hashed, entries are counted in    *)
(* their directory, and a rename keeps the file.                           *)
(***************************************************************************)
EXTENDS DirectoryProofs

-----------------------------------------------------------------------------
(* Counts, names and renames *)

\* As long as no directory was moved or removed under a call that makes an entry in
\* it, every entry is in a directory, and directories know how many they have.
ChildrenOf(n) == {m \in DOS : hash[m].Parent = n}

Enters(c, t) ==
  c.op \in {"create", "rename"} =>
    /\ c.dir \in Directories \ Chain(t)
    /\ c.src # 0 => c.dir # c.src
    /\ \A u \in Tasks : c.dir \notin Entry(u)

Housed ==
  \A n \in DOS : /\ hash[n].Parent \in Directories
                 /\ n # 0 => hash[n].Parent # n
                 /\ \A t \in Tasks : hash[n].Parent \notin Entry(t)

CountInv ==
  ~ orphaned => /\ Housed
                /\ \A n \in DOMAIN hash : hash[n].Blocks = Cardinality(ChildrenOf(n))
                /\ \A t \in Tasks : Enters(call[t], t)

\* Only DOS records lead to others; a directory that is renamed has its new name in
\* the hashes.
NameInv ==
  /\ \A n \in DOMAIN hash : hash[n].NameSpace # 1 => hash[n].nl = <<>>
  /\ \A t \in Tasks : call[t].pc = "inplace" => \A n \in Chain(t) : hash[n].Name = call[t].name

\* As long as no call failed, what is in the directory file is hashed or claimed,
\* under the same name, and in the list of its DOS record.
InUseOrClaimed == \A n \in Used(table) : n \in DOMAIN hash \/ \E t \in Tasks : n \in Claims(t)
Renaming(n, t) == call[t].pc = "inplace" /\ n \in Chain(t)
SameNames == \A n \in DOMAIN hash : hash[n].Name = table[n].Name \/ \E t \in Tasks : Renaming(n, t)
Listed(n) == hash[n].Root \in DOS /\ n \in List(hash[n].Root)
AllListed == \A n \in DOMAIN hash : Listed(n) \/ \E t \in Tasks : n \in Chain(t)

QuietInv == errors = 0 => InUseOrClaimed /\ SameNames /\ AllListed

\* A rename that has come to delete the old entry has made the new one.
Replaced(t) ==
  \E n \in DOS : /\ hash[n].FirstBlock = call[t].data
                 /\ hash[n].Parent \in call[t].locks /\ n \notin Chain(t)
Replacing(c) == c.op = "rename" /\ c.src = 0 /\ c.pc \in Deleting

RenameInv == \A t \in Tasks : Replacing(call[t]) => Replaced(t)

More == CountInv /\ NameInv /\ QuietInv /\ RenameInv
-----------------------------------------------------------------------------
(* Steps that leave the hashes alone *)

LEMMA HashesAlone ==
  ASSUME hash' = hash
  PROVE  /\ DOS' = DOS /\ Directories' = Directories
         /\ \A n : List(n)' = List(n) /\ NameSpaceList(n)' = NameSpaceList(n) /\ ChildrenOf(n)' = ChildrenOf(n)
                   /\ (Listed(n)' <=> Listed(n))
<1>1. DOS' = DOS /\ Directories' = Directories
  BY DEF DOS, Directories
<1>2. \A n : List(n)' = List(n) /\ NameSpaceList(n)' = NameSpaceList(n) /\ ChildrenOf(n)' = ChildrenOf(n)
  BY <1>1 DEF List, NameSpaceList, ChildrenOf
<1>3. \A n : Listed(n)' <=> Listed(n)
  BY <1>1, <1>2 DEF Listed
<1>4. QED
  BY <1>1, <1>2, <1>3

LEMMA OthersAlone ==
  ASSUME NEW t \in Tasks, \A u \in Tasks \ {t} : call'[u] = call[u]
  PROVE  \A u \in Tasks \ {t} : Entry(u)' = Entry(u) /\ Chain(u)' = Chain(u) /\ Claims(u)' = Claims(u)
                                /\ \A n : Renaming(n, u)' <=> Renaming(n, u)
  BY DEF Entry, Chain, Claims, Renaming

LEMMA CountSame ==
  ASSUME Inv, CountInv, NEW t \in Tasks, hash' = hash, orphaned' = orphaned,
         \A u \in Tasks \ {t} : call'[u] = call[u],
         \A n \in Entry(t)' : n \in Entry(t) \/ n \notin bits,
         ~ orphaned => Enters(call[t], t)'
  PROVE  CountInv'
<1> SUFFICES ASSUME ~ orphaned'
             PROVE  /\ Housed'
                    /\ \A n \in DOMAIN hash' : hash'[n].Blocks = Cardinality(ChildrenOf(n)')
                    /\ \A u \in Tasks : Enters(call[u], u)'
  BY DEF CountInv
<1>1. /\ Housed
      /\ \A n \in DOMAIN hash : hash[n].Blocks = Cardinality(ChildrenOf(n))
      /\ \A u \in Tasks : Enters(call[u], u)
  BY DEF CountInv
<1>2. \A u \in Tasks : \A n \in Entry(u)' : n \in Entry(u) \/ n \notin bits
  BY OthersAlone
<1>3. \A d \in Directories : d \in bits
  BY InUse DEF Inv, Directories
<1>4. Housed'
  BY <1>1, <1>2, <1>3, HashesAlone DEF Housed
<1>5. ASSUME NEW u \in Tasks, u # t PROVE Enters(call[u], u)'
  <2>1. call'[u] = call[u] /\ Chain(u)' = Chain(u)
    BY <1>5, OthersAlone
  <2>2. Directories' = Directories
    BY HashesAlone
  <2>3. QED
    BY <1>1, <1>2, <1>3, <2>1, <2>2 DEF Enters
<1>6. \A u \in Tasks : Enters(call[u], u)'
  BY <1>5
<1>7. QED
  BY <1>1, <1>4, <1>6, HashesAlone

\* A call that goes on, or ends.
LEMMA EntersStill ==
  ASSUME Inv, CountInv, NEW t \in Tasks, hash' = hash, ~ orphaned,
         \A u \in Tasks \ {t} : call'[u] = call[u],
         \A n \in Entry(t)' : n \in Entry(t) \/ n \notin bits,
         call'[t].op \in {"create", "rename"} =>
           /\ call[t].op = call'[t].op /\ call'[t].dir = call[t].dir /\ call'[t].src \in {call[t].src, 0}
           /\ Chain(t)' \subseteq Chain(t)
  PROVE  Enters(call[t], t)'
<1>1. Enters(call[t], t)
  BY DEF CountInv
<1>2. \A u \in Tasks : \A n \in Entry(u)' : n \in Entry(u) \/ n \notin bits
  BY OthersAlone
<1>3. \A d \in Directories : d \in bits
  BY InUse DEF Inv, Directories
<1>4. Directories' = Directories
  BY HashesAlone
<1>5. QED
  BY <1>1, <1>2, <1>3, <1>4 DEF Enters

LEMMA NameSame ==
  ASSUME NameInv, NEW t \in Tasks, hash' = hash,
         \A u \in Tasks \ {t} : call'[u] = call[u],
         call'[t].pc = "inplace" => call[t].pc = "inplace" /\ Chain(t)' \subseteq Chain(t) /\ call'[t].name = call[t].name
  PROVE  NameInv'
<1>1. ASSUME NEW u \in Tasks, call'[u].pc = "inplace", NEW n \in Chain(u)' PROVE hash[n].Name = call'[u].name
  <2>1. CASE u = t
    BY <1>1, <2>1 DEF NameInv
  <2>2. CASE u # t
    BY <1>1, <2>2, OthersAlone DEF NameInv
  <2>3. QED
    BY <2>1, <2>2
<1>2. QED
  BY <1>1 DEF NameInv

LEMMA RenameSame ==
  ASSUME RenameInv, NEW t \in Tasks, hash' = hash,
         \A u \in Tasks \ {t} : call'[u] = call[u],
         Replacing(call'[t]) => /\ Replacing(call[t]) /\ call'[t].data = call[t].data
                                /\ call'[t].locks = call[t].locks /\ Chain(t)' \subseteq Chain(t)
  PROVE  RenameInv'
<1>1. ASSUME NEW u \in Tasks, Replacing(call'[u]) PROVE Replaced(u)'
  <2>1. Replacing(call[u]) /\ call'[u].data = call[u].data /\ call'[u].locks = call[u].locks /\ Chain(u)' \subseteq Chain(u)
    BY <1>1, OthersAlone
  <2>2. Replaced(u)
    BY <2>1 DEF RenameInv
  <2>3. QED
    BY <2>1, <2>2, HashesAlone DEF Replaced
<1>2. QED
  BY <1>1 DEF RenameInv, Replacing

\* What a call lets go is hashed, and in its list.
LEMMA QuietSame ==
  ASSUME QuietInv, NEW t \in Tasks, hash' = hash, table' = table,
         \A u \in Tasks \ {t} : call'[u] = call[u],
         errors' = 0 => /\ errors = 0 /\ call[t].pc # "inplace" /\ Entry(t) \subseteq Entry(t)'
                        /\ \A n \in Chain(t) : n \in Chain(t)' \/ (n \in DOMAIN hash /\ Listed(n))
  PROVE  QuietInv'
<1> SUFFICES ASSUME errors' = 0 PROVE InUseOrClaimed' /\ SameNames' /\ AllListed'
  BY DEF QuietInv
<1>1. InUseOrClaimed /\ SameNames /\ AllListed
  BY DEF QuietInv
<1>2. \A u \in Tasks : \A n \in Chain(u) : n \in Chain(u)' \/ (n \in DOMAIN hash /\ Listed(n))
  BY OthersAlone
<1>3. \A u \in Tasks : \A n \in Claims(u) : n \in Claims(u)' \/ n \in DOMAIN hash
  <2>1. \A u \in Tasks : Entry(u) \subseteq Entry(u)'
    BY OthersAlone
  <2>2. QED
    BY <1>2, <2>1 DEF Claims
<1>4. InUseOrClaimed'
  BY <1>1, <1>3 DEF InUseOrClaimed, Used
<1>5. SameNames'
  <2>1. \A n : \A u \in Tasks : Renaming(n, u) => Renaming(n, u)'
    BY OthersAlone DEF Renaming
  <2>2. QED
    BY <1>1, <2>1 DEF SameNames
<1>6. AllListed'
  BY <1>1, <1>2, HashesAlone DEF AllListed
<1>7. QED
  BY <1>4, <1>5, <1>6

LEMMA MoreSame ==
  ASSUME Inv, More, NEW t \in Tasks, hash' = hash, table' = table, orphaned' = orphaned,
         \A u \in Tasks \ {t} : call'[u] = call[u],
         \A n \in Entry(t)' : n \in Entry(t) \/ n \notin bits,
         ~ orphaned => Enters(call[t], t)',
         call'[t].pc = "inplace" => call[t].pc = "inplace" /\ Chain(t)' \subseteq Chain(t) /\ call'[t].name = call[t].name,
         Replacing(call'[t]) => /\ Replacing(call[t]) /\ call'[t].data = call[t].data
                                /\ call'[t].locks = call[t].locks /\ Chain(t)' \subseteq Chain(t),
         errors' = 0 => /\ errors = 0 /\ call[t].pc # "inplace" /\ Entry(t) \subseteq Entry(t)'
                        /\ \A n \in Chain(t) : n \in Chain(t)' \/ (n \in DOMAIN hash /\ Listed(n))
  PROVE  More'
<1>1. CountInv'
  BY CountSame DEF More
<1>2. NameInv'
  BY NameSame DEF More
<1>3. RenameInv'
  BY RenameSame DEF More
<1>4. QuietInv'
  BY QuietSame DEF More
<1>5. QED
  BY <1>1, <1>2, <1>3, <1>4 DEF More

\* A call that ends, with its records in order or after an error.
LEMMA MoreEnds ==
  ASSUME Inv, More, NEW t \in Tasks, hash' = hash, table' = table, orphaned' = orphaned,
         \A u \in Tasks \ {t} : call'[u] = call[u], call'[t] = NoCall,
         errors' = 0 => /\ errors = 0 /\ call[t].pc # "inplace" /\ Entry(t) = {}
                        /\ \A n \in Chain(t) : n \in DOMAIN hash /\ Listed(n)
  PROVE  More'
<1>1. Entry(t)' = {} /\ Chain(t)' = {}
  BY RestingOK DEF Inv
<1>2. call'[t].op = "none" /\ call'[t].pc = "idle"
  BY NoCallFields
<1>3. Enters(call[t], t)'
  BY <1>2 DEF Enters
<1>4. ~ Replacing(call'[t])
  BY <1>2 DEF Replacing
<1>5. QED
  BY <1>1, <1>2, <1>3, <1>4, MoreSame

\* A call that goes on to another place, and perhaps has one more record.
LEMMA MoreGoes ==
  ASSUME Inv, More, NEW t \in Tasks, hash' = hash, table' = table, orphaned' = orphaned,
         \A u \in Tasks \ {t} : call'[u] = call[u],
         call'[t].op = call[t].op, call'[t].dir = call[t].dir, call'[t].src = call[t].src,
         call'[t].chain = call[t].chain, call[t].pc \in Making, call'[t].pc \in Making,
         \A n \in Entry(t)' : n \in Entry(t) \/ n \notin bits,
         errors' = 0 => errors = 0 /\ Entry(t) \subseteq Entry(t)'
  PROVE  More'
<1>1. Chain(t)' = Chain(t)
  BY DEF Chain
<1>2. call[t].pc # "inplace" /\ call'[t].pc # "inplace" /\ call'[t].pc \notin Deleting
  BY DEF Making, Deleting
<1>3. ~ orphaned => Enters(call[t], t)'
  BY <1>1, EntersStill DEF More
<1>4. ~ Replacing(call'[t])
  BY <1>2 DEF Replacing
<1>5. QED
  BY <1>1, <1>2, <1>3, <1>4, MoreSame

\* All records of a whole entry are hashed and in its list.
LEMMA WholeListed ==
  ASSUME Inv, NEW t \in Tasks, Whole(t)
  PROVE  \A n \in Chain(t) : n \in DOMAIN hash /\ Listed(n)
<1>1. PICK h : h = Head(call[t].chain)
  OBVIOUS
<1>2. h \in DOS /\ Chain(t) = List(h)
  BY <1>1 DEF Whole, Chain, List
<1>3. ListOK(h) /\ Linked(h)
  BY <1>2 DEF Inv, StructInv, ListOK
<1>4. \A m \in List(h) : m \in DOMAIN hash /\ hash[m].Root = h
  BY <1>2, <1>3, LinkedFacts DEF Inv
<1>5. QED
  BY <1>2, <1>4 DEF Listed

\* A directory that a call may enter is not one that another call still makes.
LEMMA EnteredFacts ==
  ASSUME Inv, NEW d, MayEnter(d)
  PROVE  d \in Directories /\ d \in DOS /\ \A u \in Tasks : d \notin Entry(u)
<1>1. d \in Directories /\ d \in DOS
  BY DEF MayEnter, Directories, DOS
<1>2. ASSUME NEW u \in Tasks, d \in Entry(u) PROVE FALSE
  <2>0. PICK c \in Calls : c = call[u]
    BY CallFacts DEF Inv
  <2>1. TaskOK(u) /\ d # 0
    BY <1>2 DEF Inv, StructInv, TaskOK, Claims
  <2>2. call[u].pc = "write"
    BY <1>1, <1>2, <2>1 DEF TaskOK, EntriesOK, DOS
  <2>3. HalfWritten(c, u)
    BY <2>0, <2>2, WritingFacts
  <2>4. PICK i \in 1 .. K : d = c.entries[i]
    BY <1>2, <2>3 DEF HalfWritten
  <2>5. hash[d].NameSpace = i /\ hash[d].Parent = c.dir /\ i <= c.written
    BY <1>1, <2>3, <2>4 DEF HalfWritten, DOS
  <2>6. i = 1
    BY <1>1, <2>5 DEF DOS
  <2>7. c.written > 0
    BY <2>3, <2>5, <2>6 DEF HalfWritten
  <2>8. hash[d].Name = c.name
    BY <2>3, <2>4, <2>6, <2>7 DEF HalfWritten
  <2>9. c.op = "create" \/ (c.op = "rename" /\ c.src = 0)
    BY <2>3 DEF HalfWritten
  <2>10. BeingMade(d)
    BY <2>0, <2>1, <2>5, <2>8, <2>9 DEF BeingMade
  <2>11. QED
    BY <2>10 DEF MayEnter
<1>3. QED
  BY <1>1, <1>2

LEMMA CreateMore ==
  ASSUME Inv, More, StreamInv, NEW t \in Tasks, NEW d \in Directories, NEW m \in Names,
         NEW k \in {"dir", "file"}, Create(t, d, m, k)
  PROVE  More'
<1>1. MayEnter(d) /\ call[t].pc = "idle" /\ UNCHANGED <<table, bits, hash, errors, orphaned>>
  BY DEF Create, Begin
<1>2. /\ \A u \in Tasks \ {t} : call'[u] = call[u]
      /\ call'[t].op = "create" /\ call'[t].pc = (IF k = "dir" THEN "prealloc" ELSE "alloc")
      /\ call'[t].dir = d /\ call'[t].src = 0 /\ call'[t].entries = <<>> /\ call'[t].chain = <<>>
  BY CreateEffect DEF Inv
<1>3. Entry(t) = {} /\ Chain(t) = {} /\ Entry(t)' = {} /\ Chain(t)' = {}
  BY <1>1, <1>2, IdleFacts, EmptyFacts DEF Inv, Entry, Chain
<1>4. d \in Directories /\ \A u \in Tasks : d \notin Entry(u)
  BY <1>1, EnteredFacts
<1>5. Enters(call[t], t)'
  <2>1. Directories' = Directories
    BY <1>1, HashesAlone
  <2>2. \A u \in Tasks : d \notin Entry(u)'
    BY <1>2, <1>3, <1>4, OthersAlone
  <2>3. QED
    BY <1>2, <1>3, <1>4, <2>1, <2>2 DEF Enters
<1>6. call'[t].pc # "inplace" /\ ~ Replacing(call'[t])
  BY <1>2 DEF Replacing
<1>7. QED
  BY <1>1, <1>2, <1>3, <1>5, <1>6, MoreSame

LEMMA RemoveMore ==
  ASSUME Inv, More, NEW t \in Tasks, NEW d \in Directories, NEW m \in Names, Remove(t, d, m)
  PROVE  More'
<1>1. /\ call[t].pc = "idle" /\ UNCHANGED <<table, bits, hash, errors, orphaned>>
      /\ \A u \in Tasks \ {t} : call'[u] = call[u]
      /\ call'[t].op = "remove" /\ call'[t].pc = "drop" /\ call'[t].entries = <<>>
  BY RemoveEffect DEF Inv
<1>2. Entry(t) = {} /\ Chain(t) = {} /\ Entry(t)' = {}
  BY <1>1, IdleFacts, EmptyFacts DEF Inv, Entry
<1>3. Enters(call[t], t)' /\ ~ Replacing(call'[t])
  BY <1>1 DEF Enters, Replacing
<1>4. QED
  BY <1>1, <1>2, <1>3, MoreSame

\* The directory is neither the entry that is renamed nor the one it replaces.
LEMMA RenameMore ==
  ASSUME Inv, More, NEW t \in Tasks, NEW d \in Directories, NEW m \in Names,
         NEW from \in Directories, NEW old \in Names, Rename(t, from, old, d, m)
  PROVE  More'
<1> DEFINE target == Entries(d, m)
           x == CHOOSE y \in target : TRUE
<1>1. PICK n \in Entries(from, old) :
         /\ MayEnter(d) /\ n # d
         /\ UNCHANGED <<table, bits, hash, errors, orphaned>> /\ call[t].pc = "idle"
         /\ \A u \in Tasks \ {t} : call'[u] = call[u]
         /\ call'[t].op = "rename" /\ call'[t].pc = (IF target = {} THEN "move" ELSE "drop")
         /\ call'[t].dir = d /\ call'[t].src = n /\ call'[t].entries = <<>>
         /\ call'[t].chain = (IF target = {} THEN <<>> ELSE NameSpaceList(x))
         /\ target # {} => x \in target
  BY RenameEffect DEF Inv
<1>2. Entry(t) = {} /\ Chain(t) = {} /\ Entry(t)' = {}
  BY <1>1, IdleFacts, EmptyFacts DEF Inv, Entry
<1>3. n # 0
  BY EntriesFacts DEF Inv
<1>4. d \in Directories /\ d \in DOS /\ \A u \in Tasks : d \notin Entry(u)
  BY <1>1, EnteredFacts
<1>5. ASSUME ~ orphaned PROVE d \notin Chain(t)'
  <2>1. CASE target = {}
    BY <1>1, <2>1, EmptyFacts DEF Chain
  <2>2. CASE target # {}
    <3>1. Chain(t)' = List(x)
      BY <1>1, <2>2 DEF Chain, List
    <3>2. x \in DOS /\ x # 0 /\ hash[x].Parent = d /\ ListOK(x)
      BY <1>1, <2>2, EntriesFacts DEF Inv
    <3>3. x # d
      BY <1>5, <3>2 DEF More, CountInv, Housed
    <3>4. QED
      BY <1>4, <3>1, <3>2, <3>3, LinkedFacts DEF Inv, ListOK
  <2>3. QED
    BY <2>1, <2>2
<1>6. ~ orphaned => Enters(call[t], t)'
  <2>1. Directories' = Directories
    BY <1>1, HashesAlone
  <2>2. \A u \in Tasks : d \notin Entry(u)'
    BY <1>1, <1>2, <1>4, OthersAlone
  <2>3. QED
    BY <1>1, <1>4, <1>5, <2>1, <2>2 DEF Enters
<1>7. call'[t].pc # "inplace" /\ ~ Replacing(call'[t])
  BY <1>1, <1>3 DEF Replacing
<1>8. QED
  BY <1>1, <1>2, <1>6, <1>7, MoreSame

LEMMA StartMore ==
  ASSUME Inv, More, StreamInv, NEW t \in Tasks, Start(t)
  PROVE  More'
BY CreateMore, RemoveMore, RenameMore DEF Start

LEMMA AllocateMore ==
  ASSUME Inv, More, NEW t \in Tasks, Allocate(t)
  PROVE  More'
<1>1. CASE AllocateDirectoryRecord(t) \/ TakeExtended(t)
  <2>1. PICK b : TakesFrom(t, b)
    BY <1>1, Takes
  <2>2. PICK n \in DirNos : n = LowestFree(b) /\ n \notin bits
    BY <2>1, TakenEffect
  <2>3. /\ UNCHANGED <<table, hash, errors, orphaned>>
        /\ \A u \in Tasks \ {t} : call'[u] = call[u]
        /\ call'[t].op = call[t].op /\ call'[t].dir = call[t].dir /\ call'[t].src = call[t].src
        /\ call'[t].chain = call[t].chain /\ call'[t].entries = Append(call[t].entries, n)
        /\ call'[t].pc \in {"write", "alloc"}
    BY <2>1, <2>2, TakenEffect
  <2>4. Entry(t)' = Entry(t) \cup {n}
    BY <2>2, <2>3, CallFacts, Appended DEF Inv, Entry
  <2>5. call[t].pc \in Making /\ call'[t].pc \in Making
    BY <2>1, <2>3 DEF TakesFrom, Making
  <2>6. QED
    BY <2>2, <2>3, <2>4, <2>5, MoreGoes
<1>2. CASE PreAllocate(t) \/ DirectoryFull(t) \/ ExtendDirectory(t) \/ ExtendFails(t) \/ ExtensionTaken(t)
  <2>1. call[t].pc \in Making /\ \E p \in PCs \cap Making : Goto(t, p)
    BY <1>2 DEF PreAllocate, DirectoryFull, ExtendDirectory, ExtendFails, ExtensionTaken, PCs, Making
  <2>2. UNCHANGED <<table, hash, errors, orphaned>>
    BY <1>2 DEF PreAllocate, DirectoryFull, ExtendDirectory, ExtendFails, ExtensionTaken
  <2>3. PICK p \in PCs \cap Making : Goto(t, p)
    BY <2>1
  <2>4. /\ \A u \in Tasks \ {t} : call'[u] = call[u]
        /\ call'[t].op = call[t].op /\ call'[t].dir = call[t].dir /\ call'[t].src = call[t].src
        /\ call'[t].chain = call[t].chain /\ Entry(t)' = Entry(t) /\ call'[t].pc = p
    BY <2>3, GotoEffect DEF Inv, Entry
  <2>5. QED
    BY <2>1, <2>2, <2>4, MoreGoes
<1>3. QED
  BY <1>1, <1>2 DEF Allocate

\* A record that a call has claimed is freed.
LEMMA QuietFreed ==
  ASSUME Inv, QuietInv, NEW t \in Tasks, NEW n \in Claims(t), n \notin DOMAIN hash, FreeDirectoryRecord(n),
         hash' = hash, errors' = errors, call[t].pc # "inplace",
         \A u \in Tasks \ {t} : call'[u] = call[u],
         Entry(t) \subseteq Entry(t)' \cup {n}, Chain(t) \subseteq Chain(t)' \cup {n}
  PROVE  QuietInv'
<1> SUFFICES ASSUME errors' = 0 PROVE InUseOrClaimed' /\ SameNames' /\ AllListed'
  BY DEF QuietInv
<1>1. InUseOrClaimed /\ SameNames /\ AllListed
  BY DEF QuietInv
<1>2. n \in DirNos
  BY CallFacts DEF Inv, Claims
<1>3. Used(table)' = Used(table) \ {n} /\ \A m \in DirNos \ {n} : table'[m] = table[m]
  BY <1>2, FreeDirectoryRecordEffect DEF Inv
<1>4. \A u \in Tasks : Claims(u) \subseteq Claims(u)' \cup {n} /\ Chain(u) \subseteq Chain(u)' \cup {n}
  BY OthersAlone DEF Claims
<1>5. InUseOrClaimed'
  BY <1>1, <1>3, <1>4 DEF InUseOrClaimed
<1>6. SameNames'
  <2>1. \A m : \A u \in Tasks : Renaming(m, u) => Renaming(m, u)'
    BY OthersAlone DEF Renaming
  <2>2. ASSUME NEW m \in DOMAIN hash PROVE table'[m] = table[m]
    BY <1>3, <2>2, HashFacts DEF Inv
  <2>3. QED
    BY <1>1, <2>1, <2>2 DEF SameNames
<1>7. AllListed'
  BY <1>1, <1>4, HashesAlone DEF AllListed
<1>8. QED
  BY <1>5, <1>6, <1>7

LEMMA UnwindMore ==
  ASSUME Inv, More, NEW t \in Tasks, Unwind(t)
  PROVE  More'
<1>1. /\ call[t].pc = "unwind" /\ call[t].entries # <<>>
      /\ FreeDirectoryRecord(Head(call[t].entries))
      /\ call' = [call EXCEPT ![t].entries = Tail(@), ![t].written = 0]
      /\ UNCHANGED <<ending, hash, calls, errors, orphaned>>
  BY DEF Unwind
<1>2. PICK n : n = Head(call[t].entries)
  OBVIOUS
<1>3. /\ \A u \in Tasks \ {t} : call'[u] = call[u]
      /\ call'[t].op = call[t].op /\ call'[t].pc = "unwind" /\ call'[t].dir = call[t].dir
      /\ call'[t].src = call[t].src /\ call'[t].chain = call[t].chain
      /\ Entry(t) = Entry(t)' \cup {n} /\ Chain(t)' = Chain(t)
  BY <1>1, <1>2, TailEffect
<1>4. n \in Claims(t) /\ n \notin DOMAIN hash
  <2>1. TaskOK(t)
    BY DEF Inv, StructInv
  <2>2. QED
    BY <1>1, <1>3, <2>1 DEF TaskOK, EntriesOK, Claims
<1>5. \A m \in Entry(t)' : m \in Entry(t)
  BY <1>3
<1>6. CountInv'
  <2>1. ~ orphaned => Enters(call[t], t)'
    BY <1>1, <1>3, <1>5, EntersStill DEF More
  <2>2. QED
    BY <1>1, <1>3, <1>5, <2>1, CountSame DEF More
<1>7. NameInv'
  BY <1>1, <1>3, NameSame DEF More
<1>8. RenameInv'
  <2>1. ~ Replacing(call'[t])
    BY <1>3 DEF Replacing, Deleting
  <2>2. QED
    BY <1>1, <1>3, <2>1, RenameSame DEF More
<1>9. QuietInv'
  BY <1>1, <1>2, <1>3, <1>4, QuietFreed DEF More
<1>10. QED
  BY <1>6, <1>7, <1>8, <1>9 DEF More

LEMMA UnwindFailsMore ==
  ASSUME Inv, More, NEW t \in Tasks, UnwindFails(t)
  PROVE  More'
<1>1. /\ call[t].pc = "unwind" /\ call[t].entries # <<>>
      /\ call' = [call EXCEPT ![t].entries = Tail(@), ![t].written = 0]
      /\ errors' = errors + 1
      /\ UNCHANGED <<table, hash, orphaned>>
  BY DEF UnwindFails
<1>2. /\ \A u \in Tasks \ {t} : call'[u] = call[u]
      /\ call'[t].op = call[t].op /\ call'[t].pc = "unwind" /\ call'[t].dir = call[t].dir
      /\ call'[t].src = call[t].src /\ call'[t].chain = call[t].chain
      /\ Entry(t)' \subseteq Entry(t)
  BY <1>1, TailEffect
<1>3. call[t].pc \in Making /\ call'[t].pc \in Making
  BY <1>1, <1>2 DEF Making
<1>4. errors' # 0
  BY <1>1 DEF Inv, TypeInv
<1>5. QED
  BY <1>1, <1>2, <1>3, <1>4, MoreGoes

LEMMA UnwoundMore ==
  ASSUME Inv, More, NEW t \in Tasks, Unwound(t)
  PROVE  More'
<1>1. /\ call[t].pc = "unwind" /\ call[t].entries = <<>> /\ Return(t)
      /\ UNCHANGED <<table, hash, errors, orphaned>>
  BY DEF Unwound
<1>2. (\A u \in Tasks \ {t} : call'[u] = call[u]) /\ call'[t] = NoCall
  BY <1>1, ReturnEffect DEF Inv
<1>3. TaskOK(t) /\ CallOK(call[t]) /\ call[t].pc \in Making
  BY <1>1 DEF Inv, StructInv, TaskOK, Making
<1>4. Entry(t) = {}
  BY <1>1, EmptyFacts DEF Entry
<1>5. \A n \in Chain(t) : n \in DOMAIN hash /\ Listed(n)
  <2>1. CASE call[t].op = "rename"
    BY <1>3, <2>1, WholeListed DEF TaskOK, ChainOK
  <2>2. CASE call[t].op # "rename"
    BY <1>3, <2>2, EmptyFacts DEF CallOK, Chain
  <2>3. QED
    BY <2>1, <2>2
<1>6. QED
  BY <1>1, <1>2, <1>4, <1>5, MoreEnds

\* What is refused is a whole entry still.
LEMMA RefuseMore ==
  ASSUME Inv, More, NEW t \in Tasks, RefuseNotEmpty(t)
  PROVE  More'
<1>1. /\ call[t].pc = "drop" /\ NotEmpty(Head(call[t].chain)) /\ Return(t)
      /\ UNCHANGED <<table, hash, errors, orphaned>>
  BY DEF RefuseNotEmpty
<1>2. (\A u \in Tasks \ {t} : call'[u] = call[u]) /\ call'[t] = NoCall
  BY <1>1, ReturnEffect DEF Inv
<1>3. TaskOK(t) /\ Entry(t) = {} /\ Head(call[t].chain) \in Chain(t)
  BY <1>1, DeletingFacts DEF Deleting
<1>4. Head(call[t].chain) \in DOS
  BY <1>1, HeadApart DEF NotEmpty, DOS
<1>5. Whole(t)
  BY <1>1, <1>3, <1>4 DEF TaskOK, ChainOK, Rest
<1>6. QED
  BY <1>1, <1>2, <1>3, <1>5, WholeListed, MoreEnds

LEMMA DeleteFailsMore ==
  ASSUME Inv, More, NEW t \in Tasks, DeleteFails(t)
  PROVE  More'
<1>1. errors' = errors + 1 /\ Return(t) /\ UNCHANGED <<table, hash, orphaned>>
  BY DEF DeleteFails
<1>2. (\A u \in Tasks \ {t} : call'[u] = call[u]) /\ call'[t] = NoCall
  BY <1>1, ReturnEffect DEF Inv
<1>3. errors' # 0
  BY <1>1 DEF Inv, TypeInv
<1>4. QED
  BY <1>1, <1>2, <1>3, MoreEnds

LEMMA FreeRecordMore ==
  ASSUME Inv, More, NEW t \in Tasks, FreeRecord(t)
  PROVE  More'
<1>0. PICK c \in Calls : c = call[t]
  BY CallFacts DEF Inv
<1>1. PICK n : n = Head(c.chain)
  OBVIOUS
<1>2. /\ c.pc = "free" /\ FreeDirectoryRecord(n)
      /\ UNCHANGED <<ending, hash, calls, errors, orphaned>>
      /\ call' \in [Tasks -> Calls]
      /\ \A u \in Tasks \ {t} : call'[u] = call[u]
      /\ \/ call'[t] = NoCall
         \/ /\ call'[t].op = c.op /\ call'[t].locks = c.locks
            /\ call'[t].dir = c.dir /\ call'[t].data = c.data /\ call'[t].src = c.src
            /\ call'[t].entries = c.entries /\ call'[t].chain = Tail(c.chain)
            /\ \/ call'[t].pc = "drop"
               \/ c.src # 0 /\ call'[t].pc = "move"
  BY <1>0, <1>1, FreeRecordEffect
<1>3. /\ Entry(t) = {} /\ TaskOK(t) /\ n \in Chain(t) /\ Chain(t) = InSequence(Tail(c.chain)) \cup {n}
      /\ Tail(c.chain) \in Seq(DirNos)
  BY <1>0, <1>1, <1>2, DeletingFacts DEF Deleting
<1>4. call'[t] = NoCall => Tail(c.chain) = <<>>
  <2>1. ASSUME Tail(c.chain) # <<>> PROVE call'[t] # NoCall
    <3>1. call' = [call EXCEPT ![t].chain = Tail(@), ![t].pc = "drop"]
      BY <1>0, <2>1 DEF FreeRecord
    <3>2. call'[t].pc = "drop"
      BY <3>1 DEF Inv, TypeInv, Calls
    <3>3. QED
      BY <3>2, NoCallFields
  <2>2. QED
    BY <2>1
<1>5. n \notin DOMAIN hash /\ n \in Claims(t)
  BY <1>0, <1>1, <1>2, <1>3 DEF TaskOK, ChainOK, Claims
<1>6. Entry(t)' = {} /\ Chain(t) = Chain(t)' \cup {n}
  <2>1. CASE call'[t] = NoCall
    <3>1. Entry(t)' = {} /\ Chain(t)' = {}
      BY <2>1, RestingOK DEF Inv
    <3>2. QED
      BY <1>3, <1>4, <2>1, <3>1, EmptyFacts
  <2>2. CASE call'[t].entries = c.entries /\ call'[t].chain = Tail(c.chain)
    BY <1>0, <1>3, <2>2 DEF Entry, Chain
  <2>3. QED
    BY <1>2, <2>1, <2>2
<1>7. \/ /\ call'[t].op = c.op /\ call'[t].dir = c.dir /\ call'[t].src = c.src
         /\ call'[t].data = c.data /\ call'[t].locks = c.locks
      \/ call'[t].op = "none"
  BY <1>2, NoCallFields
<1>8. CountInv'
  <2>1. ~ orphaned => Enters(call[t], t)'
    BY <1>0, <1>2, <1>6, <1>7, EntersStill DEF More, Enters
  <2>2. QED
    BY <1>2, <1>6, <2>1, CountSame DEF More
<1>9. call'[t].pc # "inplace"
  BY <1>2, NoCallFields
<1>10. NameInv'
  BY <1>2, <1>9, NameSame DEF More
<1>11. Replacing(call'[t]) => /\ Replacing(c) /\ call'[t].data = c.data
                              /\ call'[t].locks = c.locks /\ Chain(t)' \subseteq Chain(t)
  BY <1>2, <1>6, <1>7 DEF Replacing, Deleting
<1>12. RenameInv'
  BY <1>0, <1>2, <1>11, RenameSame DEF More
<1>13. QuietInv'
  BY <1>0, <1>2, <1>3, <1>5, <1>6, QuietFreed DEF More
<1>14. QED
  BY <1>8, <1>10, <1>12, <1>13 DEF More

\* What a rename moves is not the directory it moves it to.
LEMMA MoveMore ==
  ASSUME Inv, More, NEW t \in Tasks, Move(t)
  PROVE  More'
<1>0. PICK c \in Calls : c = call[t]
  BY CallFacts DEF Inv
<1>1. /\ c.pc = "move" /\ UNCHANGED <<table, hash, errors, orphaned>>
      /\ Return(t) \/ call' = [call EXCEPT ![t] = Moved(c)]
  BY <1>0 DEF Move
<1>2. TaskOK(t) /\ CallOK(c)
  BY <1>0 DEF Inv, StructInv, TaskOK
<1>3. c.op = "rename" /\ c.src # 0 /\ Entry(t) = {} /\ Chain(t) = {}
  BY <1>0, <1>1, <1>2, OpFacts, EmptyFacts DEF Entry, Chain
<1>4. CASE Return(t)
  <2>1. (\A u \in Tasks \ {t} : call'[u] = call[u]) /\ call'[t] = NoCall
    BY <1>4, ReturnEffect DEF Inv
  <2>2. QED
    BY <1>0, <1>1, <1>3, <2>1, MoreEnds
<1>5. CASE call' = [call EXCEPT ![t] = Moved(c)]
  <2>1. PICK s : s = c.src
    OBVIOUS
  <2>2. /\ \A u \in Tasks \ {t} : call'[u] = call[u]
        /\ call'[t].op = c.op /\ call'[t].pc = "alloc" /\ call'[t].dir = c.dir /\ call'[t].src = 0
        /\ call'[t].entries = c.entries /\ call'[t].chain = NameSpaceList(s)
    BY <1>0, <1>1, <1>5, <2>1, MovedEffect
  <2>3. Entry(t)' = {} /\ Chain(t)' = List(s)
    BY <1>0, <1>3, <2>2 DEF Entry, Chain, List
  <2>4. s \in DOS /\ Linked(s)
    BY <1>0, <1>3, <2>1, SrcFacts DEF Inv
  <2>5. ~ orphaned => Enters(call[t], t)'
    <3>1. SUFFICES ASSUME ~ orphaned PROVE Enters(call[t], t)'
      OBVIOUS
    <3>2. c.dir \in Directories /\ c.dir # s /\ \A u \in Tasks : c.dir \notin Entry(u)
      BY <1>0, <1>3, <2>1, <3>1 DEF More, CountInv, Enters
    <3>3. c.dir \in DOS
      BY <3>2 DEF Directories, DOS
    <3>4. c.dir \notin List(s)
      BY <2>4, <3>2, <3>3, LinkedFacts DEF Inv
    <3>5. \A u \in Tasks : c.dir \notin Entry(u)'
      BY <2>2, <2>3, <3>2, OthersAlone
    <3>6. Directories' = Directories
      BY <1>1, HashesAlone
    <3>7. QED
      BY <2>2, <2>3, <3>2, <3>4, <3>5, <3>6 DEF Enters
  <2>6. call'[t].pc # "inplace" /\ ~ Replacing(call'[t])
    BY <2>2 DEF Replacing, Deleting
  <2>7. QED
    BY <1>0, <1>1, <1>3, <2>2, <2>3, <2>5, <2>6, MoreSame
<1>6. QED
  BY <1>1, <1>4, <1>5
-----------------------------------------------------------------------------
(* Counts and names when a record is written *)

LEMMA ChildrenFinite ==
  ASSUME TypeInv, NEW n
  PROVE  IsFiniteSet(ChildrenOf(n)) /\ Cardinality(ChildrenOf(n)) \in Nat
<1>1. IsFiniteSet(DirNos)
  BY DirNosSize, FS_Interval DEF DirNos
<1>2. ChildrenOf(n) \subseteq DirNos
  BY HashFacts DEF ChildrenOf, DOS
<1>3. QED
  BY <1>1, <1>2, FS_Subset, FS_CardinalityType

\* The hashes when a record of the entry e is written: the entry has its first i records.
Extends(e, i) ==
  /\ i \in 1 .. K /\ e[i] \notin DOMAIN hash /\ e[1] \in DOMAIN hash' /\ (i # 1 => e[i] # e[1] /\ hash'[e[i]].nl = <<>>)
  /\ DOMAIN hash' = DOMAIN hash \cup {e[i]}
  /\ \A m \in DOMAIN hash : /\ hash'[m].Parent = hash[m].Parent /\ hash'[m].Name = hash[m].Name
                            /\ hash'[m].NameSpace = hash[m].NameSpace /\ hash'[m].Kind = hash[m].Kind
                            /\ hash'[m].Root = hash[m].Root /\ hash'[m].FirstBlock = hash[m].FirstBlock
                            /\ m # e[1] => hash'[m].nl = hash[m].nl
  /\ hash'[e[i]].NameSpace = i

LEMMA WriteExtends ==
  ASSUME Inv, NEW t \in Tasks, NEW c \in Calls, c = call[t], Wrote(c)
  PROVE  Extends(c.entries, c.written + 1)
<1> DEFINE i == c.written + 1
           n == c.entries[i]
           p == c.entries[1]
<1>1. /\ i \in 1 .. K /\ n \notin DOMAIN hash /\ p \in DOMAIN hash' /\ (i # 1 => n # p /\ hash'[n].nl = <<>>)
      /\ DOMAIN hash' = DOMAIN hash \cup {n} /\ hash'[n].NameSpace = i
      /\ \A m \in DOMAIN hash \ {p} : SameHash(hash'[m], hash[m])
      /\ p \in DOMAIN hash => SameHash(hash'[p], [hash[p] EXCEPT !.nl = hash'[p].nl])
  BY DEF Wrote
<1>2. ASSUME NEW m \in DOMAIN hash
      PROVE  /\ hash'[m].Parent = hash[m].Parent /\ hash'[m].Name = hash[m].Name
             /\ hash'[m].NameSpace = hash[m].NameSpace /\ hash'[m].Kind = hash[m].Kind
             /\ hash'[m].Root = hash[m].Root /\ hash'[m].FirstBlock = hash[m].FirstBlock
             /\ m # p => hash'[m].nl = hash[m].nl
  <2>1. CASE m # p
    BY <1>1, <2>1 DEF SameHash
  <2>2. CASE m = p
    <3>1. hash[p] \in Hashes
      BY <2>2 DEF Inv, TypeInv
    <3>2. SameHash(hash'[p], [hash[p] EXCEPT !.nl = hash'[p].nl])
      BY <1>1, <2>2
    <3>3. QED
      BY <2>2, <3>1, <3>2 DEF SameHash, Hashes
  <2>3. QED
    BY <2>1, <2>2
<1>3. QED
  BY <1>1, <1>2 DEF Extends

\* The new entry when its records up to i are written.
NewEntry(c, i) ==
  LET e == c.entries
  IN /\ e[1] \in DOS' /\ hash'[e[1]].FirstBlock = c.data /\ hash'[e[1]].Parent = c.dir
     /\ \A j \in 1 .. K : j <= i <=> e[j] \in DOMAIN hash'
     /\ \A j \in 1 .. i : hash'[e[j]].Root = e[1] /\ e[j] \in List(e[1])'
     /\ e[1] \in DOMAIN hash => e[1] \in DOS /\ List(e[1]) \subseteq {e[j] : j \in 1 .. i}

LEMMA WriteMakes ==
  ASSUME Inv, NEW t \in Tasks, NEW c \in Calls, c = call[t], Wrote(c)
  PROVE  NewEntry(c, c.written + 1)
<1> DEFINE i == c.written + 1
           e == c.entries
           n == e[i]
           p == e[1]
<1>1. /\ c.pc = "write" /\ i \in 1 .. K /\ n \notin DOMAIN hash
      /\ hash'[n].Parent = c.dir /\ hash'[n].NameSpace = i /\ hash'[n].Root = p /\ hash'[n].FirstBlock = c.data
      /\ hash'[p].nl = SubSeq(e, 2, i)
  BY DEF Wrote
<1>2. Extends(e, i)
  BY WriteExtends
<1>3. HalfWritten(c, t)
  BY <1>1, WritingFacts
<1>4. /\ e \in Seq(DirNos) /\ Len(e) = K /\ c.written \in Nat /\ c.written < K /\ K \in Nat /\ 1 \in 1 .. K
      /\ \A j \in 1 .. K : /\ (e[j] \in DOMAIN hash) <=> j <= c.written
                           /\ j <= c.written => /\ hash[e[j]].Parent = c.dir /\ hash[e[j]].NameSpace = j
                                                /\ hash[e[j]].FirstBlock = c.data /\ hash[e[j]].Root = p
      /\ \A j, k \in 1 .. K : e[j] = e[k] => j = k
      /\ c.written > 0 => hash[p].nl = SubSeq(e, 2, c.written)
  BY <1>3, Constants DEF HalfWritten
<1>5. i \in Nat /\ i - 1 = c.written /\ \A j \in 1 .. K : j # i => (j <= i <=> j <= c.written)
  BY <1>4
<1> HIDE DEF i
<1>6. ASSUME NEW j \in 1 .. K
      PROVE  /\ j <= i <=> e[j] \in DOMAIN hash'
             /\ j <= i => /\ hash'[e[j]].Parent = c.dir /\ hash'[e[j]].NameSpace = j
                          /\ hash'[e[j]].FirstBlock = c.data /\ hash'[e[j]].Root = p
  <2>1. CASE j = i
    BY <1>1, <1>2, <1>5, <2>1 DEF Extends
  <2>2. CASE j # i
    <3>1. (j <= i <=> j <= c.written) /\ i \in 1 .. K
      BY <1>1, <1>5, <2>2
    <3>2. e[j] # n
      BY <1>4, <2>2, <3>1
    <3>3. DOMAIN hash' = DOMAIN hash \cup {n}
      BY <1>2 DEF Extends
    <3>4. j <= i <=> e[j] \in DOMAIN hash'
      BY <1>4, <3>1, <3>2, <3>3
    <3>5. ASSUME j <= i
          PROVE  /\ hash'[e[j]].Parent = c.dir /\ hash'[e[j]].NameSpace = j
                 /\ hash'[e[j]].FirstBlock = c.data /\ hash'[e[j]].Root = p
      <4>1. /\ e[j] \in DOMAIN hash /\ hash[e[j]].Parent = c.dir /\ hash[e[j]].NameSpace = j
            /\ hash[e[j]].FirstBlock = c.data /\ hash[e[j]].Root = p
        BY <1>4, <3>1, <3>5
      <4>2. QED
        BY <1>2, <4>1 DEF Extends
    <3>6. QED
      BY <3>4, <3>5
  <2>3. QED
    BY <2>1, <2>2
<1>7. p \in DOS' /\ hash'[p].FirstBlock = c.data /\ hash'[p].Parent = c.dir
  <2>1. 1 \in 1 .. K /\ 1 <= i
    BY <1>1, <1>4, <1>5
  <2>2. QED
    BY <1>6, <2>1 DEF DOS
<1>8. PICK l : l = NameSpaceList(p)'
  OBVIOUS
<1>9. ASSUME NEW j \in 1 .. i PROVE e[j] \in List(p)'
  <2>1. IsStart(l, e, i)
    BY <1>1, <1>4, <1>8, WrittenList DEF NameSpaceList
  <2>2. e[j] \in InSequence(l)
    BY <2>1, SetOf DEF IsStart
  <2>3. QED
    BY <1>8, <2>2 DEF List
<1>10. ASSUME p \in DOMAIN hash PROVE p \in DOS /\ List(p) \subseteq {e[j] : j \in 1 .. i}
  <2>1. c.written > 0 /\ c.written \in 1 .. K
    BY <1>4, <1>10
  <2>2. p \in DOS
    BY <1>4, <1>10, <2>1 DEF DOS
  <2>3. IsStart(NameSpaceList(p), e, c.written)
    BY <1>4, <2>1, WrittenList DEF NameSpaceList
  <2>4. \A m \in List(p) : \E j \in 1 .. c.written : m = e[j]
    BY <2>3, SetOf DEF List, IsStart
  <2>5. \A j \in 1 .. c.written : j \in 1 .. i
    BY <1>4, <1>5
  <2>6. QED
    BY <2>2, <2>4, <2>5
<1>11. \A j \in 1 .. i : j \in 1 .. K /\ j <= i
  BY <1>1, <1>4, <1>5
<1>12. \A j \in 1 .. i : hash'[e[j]].Root = p
  BY <1>6, <1>11
<1>13. QED
  BY <1>6, <1>7, <1>9, <1>10, <1>12 DEF NewEntry, i

\* What the call is after the step.
LEMMA WroteCall ==
  ASSUME Inv, NEW t \in Tasks, NEW c \in Calls, c = call[t], WriteDirectoryRecord(t)
  PROVE  LET i == c.written + 1
         IN /\ \A u \in Tasks \ {t} : call'[u] = call[u]
            /\ Entry(t)' = Entry(t) \/ (i = K /\ Entry(t)' = {})
            /\ Chain(t)' = Chain(t) /\ call'[t].pc \in {"write", "drop", "idle"}
            /\ \/ /\ call'[t].op = c.op /\ call'[t].dir = c.dir /\ call'[t].src = c.src
                  /\ call'[t].data = c.data /\ call'[t].locks = c.locks
               \/ call'[t].op = "none"
            /\ call'[t].pc = "drop" => i = K
<1> DEFINE i == c.written + 1
<1>1. /\ call' \in [Tasks -> Calls] /\ (\A u \in Tasks \ {t} : call'[u] = call[u]) /\ WentOn(c, t)
  BY WriteCallEffect
<1>2. c.pc = "write" /\ TaskOK(t) /\ CallOK(c)
  BY DEF WriteDirectoryRecord, Inv, StructInv, TaskOK
<1>3. CASE i = K /\ c.op = "create" /\ call'[t] = NoCall
  <2>1. Entry(t)' = {} /\ Chain(t)' = {} /\ call'[t].op = "none" /\ call'[t].pc = "idle"
    BY <1>3, RestingOK, NoCallFields DEF Inv
  <2>2. Chain(t) = {}
    BY <1>2, <1>3, EmptyFacts DEF CallOK, Chain
  <2>3. QED
    BY <1>1, <1>3, <2>1, <2>2
<1>4. CASE /\ i < K \/ (i = K /\ c.op = "rename")
           /\ call'[t].op = c.op /\ call'[t].locks = c.locks
           /\ call'[t].dir = c.dir /\ call'[t].data = c.data /\ call'[t].src = c.src /\ call'[t].chain = c.chain
           /\ i < K => call'[t].entries = c.entries /\ call'[t].pc = "write"
           /\ i = K => call'[t].entries = <<>> /\ call'[t].pc = "drop"
  <2>1. Chain(t)' = Chain(t)
    BY <1>4 DEF Chain
  <2>2. CASE i = K
    <3>1. Entry(t)' = {}
      BY <1>4, <2>2, EmptyFacts DEF Entry
    <3>2. QED
      BY <1>1, <1>4, <2>1, <2>2, <3>1
  <2>3. CASE i < K
    <3>1. Entry(t)' = Entry(t)
      BY <1>4, <2>3 DEF Entry
    <3>2. i # K
      BY <2>3, Constants DEF Calls
    <3>3. QED
      BY <1>1, <1>4, <2>1, <2>3, <3>1, <3>2
  <2>4. QED
    BY <1>4, <2>2, <2>3
<1>5. QED
  BY <1>1, <1>3, <1>4 DEF WentOn

\* The directories and their entries when a record is written.
LEMMA WriteCount ==
  ASSUME Inv, CountInv, NEW t \in Tasks, NEW c \in Calls, c = call[t], WriteDirectoryRecord(t)
  PROVE  CountInv'
<1> DEFINE i == c.written + 1
           n == c.entries[i]
<1>1. /\ UNCHANGED orphaned /\ DOMAIN hash' = DOMAIN hash \cup {n} /\ n \notin DOMAIN hash
      /\ hash'[n].Parent = c.dir /\ hash'[n].NameSpace = i
      /\ \A m \in DOMAIN hash \cup {n} : hash'[m].Blocks =
           (IF m = n THEN 0 ELSE hash[m].Blocks) + (IF i = 1 /\ m = c.dir THEN 1 ELSE 0)
  BY WriteEffect DEF Wrote
<1>2. \A m \in DOMAIN hash : /\ hash'[m].Parent = hash[m].Parent /\ hash'[m].NameSpace = hash[m].NameSpace
                             /\ hash'[m].Kind = hash[m].Kind
  BY WriteEffect, WriteExtends DEF Extends
<1>3. /\ \A u \in Tasks \ {t} : call'[u] = call[u]
      /\ Entry(t)' \subseteq Entry(t) /\ Chain(t)' = Chain(t)
      /\ \/ call'[t].op = c.op /\ call'[t].dir = c.dir /\ call'[t].src = c.src
         \/ call'[t].op = "none"
  BY WroteCall
<1>4. c.pc = "write" /\ c.op \in {"create", "rename"}
  BY WritingFacts DEF WriteDirectoryRecord, HalfWritten
<1> HIDE DEF i, n
<1> SUFFICES ASSUME ~ orphaned
             PROVE  /\ Housed'
                    /\ \A m \in DOMAIN hash' : hash'[m].Blocks = Cardinality(ChildrenOf(m)')
                    /\ \A u \in Tasks : Enters(call[u], u)'
  BY <1>1 DEF CountInv
<1>5. /\ Housed
      /\ \A m \in DOMAIN hash : hash[m].Blocks = Cardinality(ChildrenOf(m))
      /\ \A u \in Tasks : Enters(call[u], u)
  BY DEF CountInv
<1>6. /\ Directories \subseteq Directories' /\ Directories \subseteq DOMAIN hash
      /\ \A m \in DOS' : m \in DOS \/ (m = n /\ i = 1)
      /\ DOS \subseteq DOS' /\ (i = 1 => n \in DOS')
  BY <1>1, <1>2 DEF Directories, DOS
<1>7. \A u \in Tasks : Entry(u)' \subseteq Entry(u) /\ Chain(u)' = Chain(u)
  BY <1>3, OthersAlone
<1>8. c.dir \in Directories /\ c.dir # n /\ \A u \in Tasks : c.dir \notin Entry(u)
  BY <1>1, <1>4, <1>5, <1>6 DEF Enters
<1>9. Housed'
  <2>1. ASSUME NEW m \in DOS'
        PROVE  /\ hash'[m].Parent \in Directories' /\ (m # 0 => hash'[m].Parent # m)
               /\ \A u \in Tasks : hash'[m].Parent \notin Entry(u)'
    <3>1. CASE m \in DOS
      <4>1. hash'[m].Parent = hash[m].Parent
        BY <1>2, <3>1 DEF DOS
      <4>2. QED
        BY <1>5, <1>6, <1>7, <3>1, <4>1 DEF Housed
    <3>2. CASE m = n
      BY <1>1, <1>6, <1>7, <1>8, <3>2
    <3>3. QED
      BY <1>6, <2>1, <3>1, <3>2
  <2>2. QED
    BY <2>1 DEF Housed
<1>10. ASSUME NEW m \in DOMAIN hash' PROVE hash'[m].Blocks = Cardinality(ChildrenOf(m)')
  <2>1. \A k \in DOS : k # n /\ hash'[k].Parent = hash[k].Parent /\ hash[k].Parent # n
    BY <1>1, <1>2, <1>5, <1>6 DEF DOS, Housed
  <2>2. CASE i = 1 /\ m = c.dir
    <3>1. ChildrenOf(m)' = ChildrenOf(m) \cup {n} /\ n \notin ChildrenOf(m)
      BY <1>1, <1>6, <2>1, <2>2 DEF ChildrenOf
    <3>2. m \in DOMAIN hash /\ m # n
      BY <1>6, <1>8, <2>2
    <3>3. hash'[m].Blocks = Cardinality(ChildrenOf(m)) + 1
      BY <1>1, <1>5, <2>2, <3>2, ChildrenFinite DEF Inv
    <3>4. PICK S : S = ChildrenOf(m)
      OBVIOUS
    <3>5. Cardinality(S \cup {n}) = Cardinality(S) + 1
      BY <3>1, <3>4, ChildrenFinite, FS_AddElement DEF Inv
    <3>6. QED
      BY <3>1, <3>3, <3>4, <3>5
  <2>3. CASE ~ (i = 1 /\ m = c.dir) /\ m # n
    <3>1. ChildrenOf(m)' = ChildrenOf(m)
      BY <1>1, <1>6, <2>1, <2>3 DEF ChildrenOf
    <3>2. m \in DOMAIN hash /\ hash[m].Blocks \in Int
      BY <1>1, <2>3, HashFacts DEF Inv
    <3>3. hash'[m].Blocks = hash[m].Blocks
      BY <1>1, <2>3, <3>2
    <3>4. QED
      BY <1>5, <3>1, <3>2, <3>3
  <2>4. CASE m = n
    <3>1. ChildrenOf(n)' = {}
      BY <1>1, <1>6, <1>8, <2>1 DEF ChildrenOf
    <3>2. hash'[n].Blocks = 0
      BY <1>1, <1>8
    <3>3. QED
      BY <2>4, <3>1, <3>2, FS_EmptySet
  <2>5. QED
    BY <2>2, <2>3, <2>4
<1>11. ASSUME NEW u \in Tasks PROVE Enters(call[u], u)'
  <2>1. CASE u # t
    <3>1. call'[u] = call[u]
      BY <1>3, <2>1
    <3>2. QED
      BY <1>5, <1>6, <1>7, <3>1 DEF Enters
  <2>2. CASE u = t /\ call'[t].op = "none"
    BY <2>2 DEF Enters
  <2>3. CASE u = t /\ call'[t].op = c.op /\ call'[t].dir = c.dir /\ call'[t].src = c.src
    BY <1>5, <1>6, <1>7, <2>3 DEF Enters
  <2>4. QED
    BY <1>3, <2>1, <2>2, <2>3
<1>12. QED
  BY <1>9, <1>10, <1>11

LEMMA InPlaceHashed ==
  ASSUME Inv, NEW t \in Tasks, call[t].pc = "inplace"
  PROVE  Chain(t) \subseteq DOMAIN hash /\ \A m \in Chain(t) : Listed(m)
<1>1. PICK s : s = call[t].src
  OBVIOUS
<1>2. s \in DOS /\ Chain(t) \subseteq List(s)
  BY <1>1, InPlaceFacts
<1>3. Linked(s)
  BY <1>2 DEF Inv, StructInv, ListOK
<1>4. \A m \in List(s) : m \in DOMAIN hash /\ hash[m].Root = s
  BY <1>2, <1>3, LinkedFacts DEF Inv
<1>5. QED
  BY <1>2, <1>4 DEF Listed

LEMMA WriteName ==
  ASSUME Inv, NameInv, NEW t \in Tasks, NEW c \in Calls, c = call[t], WriteDirectoryRecord(t)
  PROVE  NameInv'
<1> DEFINE i == c.written + 1
           n == c.entries[i]
           p == c.entries[1]
<1>1. Extends(c.entries, i) /\ HalfWritten(c, t)
  BY WriteEffect, WriteExtends, WritingFacts DEF WriteDirectoryRecord
<1>2. (\A u \in Tasks \ {t} : call'[u] = call[u]) /\ call'[t].pc \in {"write", "drop", "idle"}
  BY WroteCall
<1>3. ASSUME NEW m \in DOMAIN hash', hash'[m].NameSpace # 1 PROVE hash'[m].nl = <<>>
  <2>1. CASE m = n
    BY <1>1, <1>3, <2>1 DEF Extends
  <2>2. CASE m # n
    <3>1. m \in DOMAIN hash /\ hash[m].NameSpace # 1
      BY <1>1, <1>3, <2>2 DEF Extends
    <3>2. m # p
      <4>1. 1 \in 1 .. K /\ c.written \in Nat
        BY <1>1, Constants DEF HalfWritten
      <4>2. p \in DOMAIN hash => 1 <= c.written
        BY <1>1, <4>1 DEF HalfWritten
      <4>3. p \in DOMAIN hash => hash[p].NameSpace = 1
        BY <1>1, <4>1, <4>2 DEF HalfWritten
      <4>4. QED
        BY <3>1, <4>3
    <3>3. QED
      BY <1>1, <3>1, <3>2 DEF Extends, NameInv
  <2>3. QED
    BY <2>1, <2>2
<1>4. ASSUME NEW u \in Tasks, call'[u].pc = "inplace", NEW m \in Chain(u)' PROVE hash'[m].Name = call'[u].name
  <2>1. u # t
    BY <1>2, <1>4
  <2>2. call'[u] = call[u] /\ Chain(u)' = Chain(u)
    BY <1>2, <2>1, OthersAlone
  <2>3. m \in DOMAIN hash
    BY <1>4, <2>2, InPlaceHashed
  <2>4. hash[m].Name = call[u].name
    BY <1>4, <2>2 DEF NameInv
  <2>5. QED
    BY <1>1, <2>2, <2>3, <2>4 DEF Extends
<1>5. QED
  BY <1>3, <1>4 DEF NameInv

LEMMA WriteRename ==
  ASSUME Inv, RenameInv, NEW t \in Tasks, NEW c \in Calls, c = call[t], WriteDirectoryRecord(t)
  PROVE  RenameInv'
<1> DEFINE i == c.written + 1
           p == c.entries[1]
<1>1. Extends(c.entries, i) /\ NewEntry(c, i) /\ HalfWritten(c, t)
  BY WriteEffect, WriteExtends, WriteMakes, WritingFacts DEF WriteDirectoryRecord
<1>2. /\ \A u \in Tasks \ {t} : call'[u] = call[u]
      /\ Chain(t)' = Chain(t)
      /\ \/ call'[t].op = c.op /\ call'[t].data = c.data /\ call'[t].locks = c.locks
         \/ call'[t].op = "none"
  BY WroteCall
<1>3. ASSUME NEW u \in Tasks, Replacing(call'[u]) PROVE Replaced(u)'
  <2>1. CASE u = t
    <3>1. call'[t].data = c.data /\ call'[t].locks = c.locks
      BY <1>2, <1>3, <2>1 DEF Replacing
    <3>2. 1 \in 1 .. K
      BY Constants
    <3>3. p \notin Chain(t) /\ c.dir \in c.locks
      BY <1>1, <3>2 DEF HalfWritten
    <3>4. p \in DOS' /\ hash'[p].FirstBlock = c.data /\ hash'[p].Parent = c.dir
      BY <1>1 DEF NewEntry
    <3>5. QED
      BY <1>2, <2>1, <3>1, <3>3, <3>4 DEF Replaced
  <2>2. CASE u # t
    <3>1. call'[u] = call[u] /\ Chain(u)' = Chain(u)
      BY <1>2, <2>2, OthersAlone
    <3>2. PICK m \in DOS : hash[m].FirstBlock = call[u].data /\ hash[m].Parent \in call[u].locks /\ m \notin Chain(u)
      BY <1>3, <3>1 DEF RenameInv, Replaced
    <3>3. m \in DOS' /\ hash'[m].FirstBlock = hash[m].FirstBlock /\ hash'[m].Parent = hash[m].Parent
      BY <1>1, <3>2 DEF Extends, DOS
    <3>4. QED
      BY <3>1, <3>2, <3>3 DEF Replaced
  <2>3. QED
    BY <2>1, <2>2
<1>4. QED
  BY <1>3 DEF RenameInv, Replacing

LEMMA WriteQuiet ==
  ASSUME Inv, QuietInv, NEW t \in Tasks, NEW c \in Calls, c = call[t], WriteDirectoryRecord(t)
  PROVE  QuietInv'
<1> DEFINE i == c.written + 1
           e == c.entries
           n == e[i]
           p == e[1]
<1>1. Extends(e, i) /\ NewEntry(c, i) /\ HalfWritten(c, t)
  BY WriteEffect, WriteExtends, WriteMakes, WritingFacts DEF WriteDirectoryRecord
<1>2. /\ \A u \in Tasks \ {t} : call'[u] = call[u]
      /\ Entry(t)' = Entry(t) \/ (i = K /\ Entry(t)' = {})
      /\ Chain(t)' = Chain(t)
  BY WroteCall
<1>3. /\ UNCHANGED errors /\ table' = [table EXCEPT ![n] = NewRecord(c, i)]
      /\ hash'[n].Name = c.name /\ c.pc = "write" /\ i \in 1 .. K
  BY WriteEffect DEF Wrote
<1>4. /\ \A m \in Entry(t) : \E j \in 1 .. K : m = e[j]
      /\ \A j \in 1 .. K : e[j] \in DirNos
  BY <1>1 DEF HalfWritten
<1>5. NewRecord(c, i).Name = c.name /\ NewRecord(c, i) # FREE_NODE
  BY <1>3, NewRecordFacts DEF IsNewRecord
<1>6. \A m \in DirNos : table'[m] = IF m = n THEN NewRecord(c, i) ELSE table[m]
  BY <1>3, <1>4 DEF Inv, TypeInv
<1>7. /\ \A j \in 1 .. K : j <= i <=> e[j] \in DOMAIN hash'
      /\ \A j \in 1 .. i : hash'[e[j]].Root = p /\ e[j] \in List(p)'
      /\ p \in DOMAIN hash => p \in DOS /\ List(p) \subseteq {e[j] : j \in 1 .. i}
      /\ p \in DOS'
  BY <1>1 DEF NewEntry
<1>8. /\ n \notin DOMAIN hash /\ DOMAIN hash' = DOMAIN hash \cup {n}
      /\ \A m \in DOMAIN hash : /\ hash'[m].Name = hash[m].Name /\ hash'[m].NameSpace = hash[m].NameSpace
                                /\ hash'[m].Root = hash[m].Root
                                /\ m # p => hash'[m].nl = hash[m].nl
  BY <1>1 DEF Extends
<1> HIDE DEF i, n, p
<1> SUFFICES ASSUME errors' = 0 PROVE InUseOrClaimed' /\ SameNames' /\ AllListed'
  BY DEF QuietInv
<1>9. InUseOrClaimed /\ SameNames /\ AllListed
  BY <1>3 DEF QuietInv
<1>10. \A u \in Tasks : Chain(u)' = Chain(u)
  BY <1>2, OthersAlone
<1>11. \A u \in Tasks : \A m \in Claims(u) : m \in Claims(u)' \/ m \in DOMAIN hash'
  <2>1. ASSUME NEW u \in Tasks, NEW m \in Entry(u) PROVE m \in Entry(u)' \/ m \in DOMAIN hash'
    <3>1. CASE u # t
      BY <1>2, <2>1, <3>1, OthersAlone
    <3>2. CASE u = t /\ i = K
      <4>1. PICK j \in 1 .. K : m = e[j]
        BY <1>4, <2>1, <3>2
      <4>2. j <= i
        BY <3>2, <4>1, Constants
      <4>3. QED
        BY <1>7, <4>1, <4>2
    <3>3. CASE u = t /\ Entry(t)' = Entry(t)
      BY <2>1, <3>3
    <3>4. QED
      BY <1>2, <3>1, <3>2, <3>3
  <2>2. QED
    BY <1>10, <2>1 DEF Claims
<1>12. InUseOrClaimed'
  <2>1. Used(table)' \subseteq Used(table) \cup {n}
    BY <1>6 DEF Used
  <2>2. QED
    BY <1>8, <1>9, <1>11, <2>1 DEF InUseOrClaimed
<1>13. SameNames'
  <2>1. \A m : \A u \in Tasks : Renaming(m, u) => Renaming(m, u)'
    BY <1>2, <1>3, OthersAlone DEF Renaming
  <2>2. ASSUME NEW m \in DOMAIN hash' PROVE hash'[m].Name = table'[m].Name \/ \E u \in Tasks : Renaming(m, u)'
    <3>1. CASE m = n
      <4>1. n \in DirNos
        BY <1>3, <1>4 DEF n
      <4>2. QED
        BY <1>3, <1>5, <1>6, <3>1, <4>1
    <3>2. CASE m # n
      <4>1. m \in DOMAIN hash /\ m \in DirNos
        BY <1>8, <2>2, <3>2, HashFacts DEF Inv
      <4>2. QED
        BY <1>6, <1>8, <1>9, <2>1, <3>2, <4>1 DEF SameNames
    <3>3. QED
      BY <3>1, <3>2
  <2>3. QED
    BY <2>2 DEF SameNames
<1>14. AllListed'
  <2>1. \A j \in 1 .. i : Listed(e[j])'
    BY <1>7 DEF Listed
  <2>2. ASSUME NEW m \in DOMAIN hash' PROVE Listed(m)' \/ \E u \in Tasks : m \in Chain(u)'
    <3>1. CASE m = n
      <4>1. i \in 1 .. i
        BY <1>3, Constants
      <4>2. QED
        BY <2>1, <3>1, <4>1 DEF n
    <3>2. CASE m # n /\ \E u \in Tasks : m \in Chain(u)
      BY <1>10, <3>2
    <3>3. CASE m # n /\ Listed(m)
      <4>1. m \in DOMAIN hash
        BY <1>8, <2>2, <3>3
      <4>2. PICK r : r = hash[m].Root
        OBVIOUS
      <4>3. r \in DOS /\ m \in List(r) /\ hash'[m].Root = r
        BY <1>8, <3>3, <4>1, <4>2 DEF Listed
      <4>4. CASE r = p
        <5>1. \E j \in 1 .. i : m = e[j]
          BY <1>7, <4>3, <4>4 DEF DOS
        <5>2. QED
          BY <2>1, <5>1
      <4>5. CASE r # p
        <5>1. r \in DOS' /\ List(r)' = List(r)
          BY <1>8, <4>3, <4>5 DEF DOS, List, NameSpaceList
        <5>2. QED
          BY <4>3, <5>1 DEF Listed
      <4>6. QED
        BY <4>4, <4>5
    <3>4. QED
      BY <1>8, <1>9, <2>2, <3>1, <3>2, <3>3 DEF AllListed
  <2>3. QED
    BY <2>2 DEF AllListed
<1>15. QED
  BY <1>12, <1>13, <1>14

LEMMA WriteRecordMore ==
  ASSUME Inv, More, NEW t \in Tasks, WriteDirectoryRecord(t)
  PROVE  More'
<1>1. PICK c \in Calls : c = call[t]
  BY CallFacts DEF Inv
<1>2. QED
  BY <1>1, WriteCount, WriteName, WriteRename, WriteQuiet DEF More
-----------------------------------------------------------------------------
(* Counts and names when hashes are freed *)

\* Hashes X are gone and one entry less is counted in directory p, if there was a DOS
\* record among them.
Loses(X, p) ==
  /\ DOMAIN hash' = DOMAIN hash \ X
  /\ \A m \in DOMAIN hash' :
       /\ SameHash(hash'[m], hash[m])
       /\ hash'[m].Blocks = hash[m].Blocks - (IF DOS \cap X # {} /\ m = p THEN 1 ELSE 0)

LEMMA LosesDOS ==
  ASSUME NEW X, NEW p, Loses(X, p)
  PROVE  /\ DOS' = DOS \ X /\ Directories' = Directories \ X
         /\ \A m \in DOS' : hash'[m].Parent = hash[m].Parent /\ hash'[m].FirstBlock = hash[m].FirstBlock
         /\ \A m \in DOMAIN hash' : List(m)' = List(m)
<1>1. \A m \in DOMAIN hash' : /\ m \in DOMAIN hash /\ m \notin X /\ hash'[m].Parent = hash[m].Parent
                              /\ hash'[m].FirstBlock = hash[m].FirstBlock /\ hash'[m].Kind = hash[m].Kind
                              /\ hash'[m].NameSpace = hash[m].NameSpace /\ hash'[m].nl = hash[m].nl
  BY DEF Loses, SameHash
<1>2. \A m \in DOMAIN hash \ X : m \in DOMAIN hash'
  BY DEF Loses
<1>3. DOS' = DOS \ X /\ Directories' = Directories \ X
  BY <1>1, <1>2 DEF DOS, Directories
<1>4. \A m \in DOMAIN hash' : List(m)' = List(m)
  BY <1>1 DEF List, NameSpaceList
<1>5. QED
  BY <1>1, <1>3, <1>4 DEF DOS

\* An entry with nothing in it, or the other records of one, leave the hashes; no
\* call makes an entry in it.
LEMMA LosesCount ==
  ASSUME Inv, CountInv, ~ orphaned, NEW t \in Tasks, NEW X, NEW p, Loses(X, p),
         \A u \in Tasks \ {t} : call'[u] = call[u],
         Entry(t)' \subseteq Entry(t), Chain(t)' = Chain(t),
         call'[t].op = call[t].op, call'[t].dir = call[t].dir, call'[t].src = call[t].src,
         \A m \in DOS \cap X : hash[m].Parent = p /\ DOS \cap X = {m},
         \A m \in DOS \ X : hash[m].Parent \notin X,
         \A u \in Tasks : call[u].op \in {"create", "rename"} => call[u].dir \notin X
  PROVE  CountInv'
<1>1. /\ Housed
      /\ \A m \in DOMAIN hash : hash[m].Blocks = Cardinality(ChildrenOf(m))
      /\ \A u \in Tasks : Enters(call[u], u)
  BY DEF CountInv
<1>2. /\ DOS' = DOS \ X /\ Directories' = Directories \ X
      /\ \A m \in DOS' : hash'[m].Parent = hash[m].Parent
  BY LosesDOS
<1>3. \A u \in Tasks : Entry(u)' \subseteq Entry(u) /\ Chain(u)' = Chain(u)
  BY OthersAlone
<1>4. Housed'
  BY <1>1, <1>2, <1>3 DEF Housed
<1>5. ASSUME NEW m \in DOMAIN hash' PROVE hash'[m].Blocks = Cardinality(ChildrenOf(m)')
  <2>1. /\ m \in DOMAIN hash
        /\ hash'[m].Blocks = hash[m].Blocks - (IF DOS \cap X # {} /\ m = p THEN 1 ELSE 0)
    BY DEF Loses
  <2>2. ChildrenOf(m)' = ChildrenOf(m) \ X
    BY <1>2 DEF ChildrenOf
  <2>3. CASE DOS \cap X # {} /\ m = p
    <3>1. PICK k \in DOS \cap X : hash[k].Parent = p /\ DOS \cap X = {k}
      BY <2>3
    <3>2. PICK S : S = ChildrenOf(m)
      OBVIOUS
    <3>3. k \in S /\ ChildrenOf(m)' = S \ {k}
      BY <2>2, <2>3, <3>1, <3>2 DEF ChildrenOf
    <3>4. IsFiniteSet(S) /\ Cardinality(S) \in Nat
      BY <3>2, ChildrenFinite DEF Inv
    <3>5. Cardinality(S \ {k}) = Cardinality(S) - 1
      BY <3>3, <3>4, FS_RemoveElement
    <3>6. QED
      BY <1>1, <2>1, <2>3, <3>2, <3>3, <3>5
  <2>4. CASE ~ (DOS \cap X # {} /\ m = p)
    <3>1. ChildrenOf(m)' = ChildrenOf(m)
      BY <2>2, <2>4 DEF ChildrenOf
    <3>2. hash[m].Blocks \in Int
      BY <2>1, HashFacts DEF Inv
    <3>3. hash'[m].Blocks = hash[m].Blocks
      BY <2>1, <2>4, <3>2
    <3>4. QED
      BY <1>1, <2>1, <3>1, <3>3
  <2>5. QED
    BY <2>3, <2>4
<1>6. ASSUME NEW u \in Tasks PROVE Enters(call[u], u)'
  <2>1. call'[u].op = call[u].op /\ call'[u].dir = call[u].dir /\ call'[u].src = call[u].src
    OBVIOUS
  <2>2. QED
    BY <1>1, <1>2, <1>3, <2>1 DEF Enters
<1>7. QED
  BY <1>4, <1>5, <1>6 DEF CountInv

\* The names and the entries that others rename stay.
LEMMA LosesName ==
  ASSUME Inv, NameInv, NEW t \in Tasks, NEW X, NEW p, Loses(X, p),
         \A u \in Tasks \ {t} : call'[u] = call[u] /\ X \cap Reach(u) = {},
         call'[t].pc # "inplace"
  PROVE  NameInv'
<1>1. \A m \in DOMAIN hash' : /\ m \in DOMAIN hash /\ hash'[m].NameSpace = hash[m].NameSpace
                              /\ hash'[m].nl = hash[m].nl /\ hash'[m].Name = hash[m].Name
  BY DEF Loses, SameHash
<1>2. ASSUME NEW u \in Tasks, call'[u].pc = "inplace", NEW m \in Chain(u)' PROVE hash'[m].Name = call'[u].name
  <2>1. u # t /\ call'[u] = call[u] /\ Chain(u)' = Chain(u)
    BY <1>2, OthersAlone
  <2>2. m \in DOMAIN hash /\ m \notin X
    BY <1>2, <2>1, InPlaceHashed DEF Reach, Claims
  <2>3. m \in DOMAIN hash'
    BY <2>2 DEF Loses
  <2>4. QED
    BY <1>1, <1>2, <2>1, <2>3 DEF NameInv
<1>3. QED
  BY <1>1, <1>2 DEF NameInv

LEMMA LosesRename ==
  ASSUME Inv, RenameInv, NEW t \in Tasks, NEW X, NEW p, Loses(X, p),
         \A u \in Tasks \ {t} : call'[u] = call[u],
         \A m \in DOS \cap X : hash[m].Parent \in call[t].locks,
         Replacing(call'[t]) => /\ Replacing(call[t]) /\ call'[t].data = call[t].data
                                /\ call'[t].locks = call[t].locks /\ Chain(t)' = Chain(t) /\ X \subseteq Chain(t)
  PROVE  RenameInv'
<1>1. ASSUME NEW u \in Tasks, Replacing(call'[u]) PROVE Replaced(u)'
  <2>1. /\ Replacing(call[u]) /\ call'[u].data = call[u].data
        /\ call'[u].locks = call[u].locks /\ Chain(u)' = Chain(u)
    BY <1>1, OthersAlone
  <2>2. PICK m \in DOS : hash[m].FirstBlock = call[u].data /\ hash[m].Parent \in call[u].locks /\ m \notin Chain(u)
    BY <2>1 DEF RenameInv, Replaced
  <2>3. m \notin X
    <3>1. CASE u = t
      BY <1>1, <2>2, <3>1
    <3>2. CASE u # t
      <4>1. call[t].locks \cap call[u].locks = {}
        BY <3>2 DEF Inv, StructInv, Apart
      <4>2. QED
        BY <2>2, <4>1
    <3>3. QED
      BY <3>1, <3>2
  <2>4. m \in DOS' /\ hash'[m].FirstBlock = hash[m].FirstBlock /\ hash'[m].Parent = hash[m].Parent
    BY <2>2, <2>3, LosesDOS
  <2>5. QED
    BY <2>1, <2>2, <2>4 DEF Replaced
<1>2. QED
  BY <1>1 DEF RenameInv, Replacing

LEMMA WriteFailsMore ==
  ASSUME Inv, More, NEW t \in Tasks, WriteFails(t)
  PROVE  More'
<1>0. PICK c \in Calls : c = call[t]
  BY CallFacts DEF Inv
<1> DEFINE e == c.entries
           s == SubSeq(e, 1, c.written)
<1>1. /\ c.pc = "write" /\ hash' = FreeHashes(hash, s) /\ errors' = errors + 1 /\ Goto(t, "unwind")
      /\ UNCHANGED <<table, orphaned>>
  BY <1>0 DEF WriteFails
<1>2. HalfWritten(c, t)
  BY <1>0, <1>1, WritingFacts
<1>3. /\ e \in Seq(DirNos) /\ Len(e) = K /\ c.written \in Nat /\ c.written < K /\ K \in Nat
      /\ \A j \in 1 .. K : /\ e[j] \in Entry(t) /\ (e[j] \in DOMAIN hash) <=> j <= c.written
                           /\ j <= c.written => hash[e[j]].Parent = c.dir /\ hash[e[j]].NameSpace = j
      /\ c.dir \in c.locks /\ c.op \in {"create", "rename"}
  BY <1>2 DEF HalfWritten
<1>4. /\ s \in Seq(DirNos) /\ Len(s) = c.written /\ \A j \in 1 .. c.written : s[j] = e[j]
  BY <1>3, SubSeqProperties
<1> HIDE DEF s
<1>5. PICK X : X = InSequence(s)
  OBVIOUS
<1>6. \A m : m \in X <=> \E j \in 1 .. c.written : m = e[j]
  BY <1>4, <1>5, SetOf
<1>7. \A j \in 1 .. c.written : j \in 1 .. K /\ j <= c.written
  BY <1>3
<1>8. /\ X \subseteq Entry(t)
      /\ \A m \in X : m \in DOMAIN hash /\ hash[m].Parent = c.dir
      /\ \A m \in DOS \cap X : m = e[1]
      /\ DOS \cap X # {} <=> s # <<>>
      /\ s # <<>> => s[1] \in DOMAIN hash /\ hash[s[1]].Parent = c.dir
  <2>1. X \subseteq Entry(t) /\ \A m \in X : m \in DOMAIN hash /\ hash[m].Parent = c.dir
    BY <1>3, <1>6, <1>7
  <2>2. \A m \in DOS \cap X : m = e[1]
    BY <1>3, <1>6, <1>7 DEF DOS
  <2>3. s = <<>> => X = {}
    BY <1>4, <1>5, SetOf
  <2>4. ASSUME s # <<>> PROVE s[1] \in DOMAIN hash /\ hash[s[1]].Parent = c.dir /\ s[1] \in DOS \cap X
    <3>1. 1 \in 1 .. c.written /\ 1 \in 1 .. K
      BY <1>3, <1>4, <2>4, SetOf
    <3>2. s[1] = e[1] /\ e[1] \in X
      BY <1>4, <1>6, <3>1
    <3>3. QED
      BY <1>3, <1>7, <3>1, <3>2 DEF DOS
  <2>5. QED
    BY <2>1, <2>2, <2>3, <2>4
<1>9. Loses(X, c.dir)
  <2>1. IsHash(hash)
    BY DEF Inv, TypeInv, IsHash
  <2>2. s # <<>> => s[1] \in DOMAIN hash
    BY <1>8
  <2>3. /\ DOMAIN hash' = DOMAIN hash \ InSequence(s)
        /\ \A m \in DOMAIN hash' :
             /\ SameHash(hash'[m], hash[m])
             /\ hash'[m].Blocks = hash[m].Blocks - (IF s # <<>> /\ m = hash[s[1]].Parent THEN 1 ELSE 0)
    BY <1>1, <1>4, <2>1, <2>2, FreeHashesEffect
  <2>4. \A m : (s # <<>> /\ m = hash[s[1]].Parent) <=> (DOS \cap X # {} /\ m = c.dir)
    BY <1>8
  <2>5. QED
    BY <1>5, <2>3, <2>4 DEF Loses
<1>10. /\ \A u \in Tasks \ {t} : call'[u] = call[u]
       /\ call'[t].op = c.op /\ call'[t].dir = c.dir /\ call'[t].src = c.src /\ call'[t].pc = "unwind"
       /\ Entry(t)' = Entry(t) /\ Chain(t)' = Chain(t)
  <2>1. "unwind" \in PCs
    BY DEF PCs
  <2>2. QED
    BY <1>0, <1>1, <2>1, GotoEffect DEF Inv, Entry, Chain
<1>11. CountInv'
  <2>1. CASE orphaned
    BY <1>1, <2>1 DEF CountInv
  <2>2. CASE ~ orphaned
    <3>1. \A m \in DOS \cap X : hash[m].Parent = c.dir /\ DOS \cap X = {m}
      BY <1>8
    <3>2. \A m \in DOS \ X : hash[m].Parent \notin X
      BY <1>8, <2>2 DEF More, CountInv, Housed
    <3>3. \A u \in Tasks : call[u].op \in {"create", "rename"} => call[u].dir \notin X
      BY <1>8, <2>2 DEF More, CountInv, Enters
    <3>4. QED
      BY <1>0, <1>9, <1>10, <2>2, <3>1, <3>2, <3>3, LosesCount DEF More
  <2>3. QED
    BY <2>1, <2>2
<1>12. NameInv'
  <2>1. \A u \in Tasks \ {t} : X \cap Reach(u) = {}
    BY <1>0, <1>1, <1>8, WritingApart
  <2>2. QED
    BY <1>9, <1>10, <2>1, LosesName DEF More
<1>13. RenameInv'
  <2>1. \A m \in DOS \cap X : hash[m].Parent \in call[t].locks
    BY <1>0, <1>3, <1>8
  <2>2. ~ Replacing(call'[t])
    BY <1>10 DEF Replacing, Deleting
  <2>3. QED
    BY <1>9, <1>10, <2>1, <2>2, LosesRename DEF More
<1>14. QuietInv'
  <2>1. errors' # 0
    BY <1>1 DEF Inv, TypeInv
  <2>2. QED
    BY <2>1 DEF QuietInv
<1>15. QED
  BY <1>11, <1>12, <1>13, <1>14 DEF More

LEMMA FreeHashMore ==
  ASSUME Inv, More, NEW t \in Tasks, FreeHashDirectoryRecord(t)
  PROVE  More'
<1>0. PICK c \in Calls : c = call[t]
  BY CallFacts DEF Inv
<1>1. PICK n : n = Head(c.chain)
  OBVIOUS
<1>2. /\ c.pc = "drop" /\ ~ NotEmpty(n) /\ hash' = FreeHash(hash, n) /\ Goto(t, "free")
      /\ orphaned' = (orphaned \/ Entered(n, t)) /\ UNCHANGED <<table, errors>>
  BY <1>0, <1>1 DEF FreeHashDirectoryRecord
<1>3. /\ n \in DOMAIN hash /\ n \in Chain(t) /\ TaskOK(t)
      /\ \A u \in Tasks \ {t} : n \notin Reach(u)
  BY <1>0, <1>1, <1>2, HeadApart, DeletingFacts DEF Deleting
<1>4. PICK p : p = hash[n].Parent
  OBVIOUS
<1>5. n \in DOS <=> hash[n].NameSpace = 1
  BY <1>3 DEF DOS
<1>6. Loses({n}, p)
  <2>1. IsHash(hash)
    BY DEF Inv, TypeInv, IsHash
  <2>2. /\ DOMAIN hash' = DOMAIN hash \ {n}
        /\ \A m \in DOMAIN hash' :
             /\ SameHash(hash'[m], hash[m])
             /\ hash'[m].Blocks = hash[m].Blocks - (IF hash[n].NameSpace = 1 /\ m = hash[n].Parent THEN 1 ELSE 0)
    BY <1>2, <1>3, <2>1, FreeHashEffect
  <2>3. DOS \cap {n} # {} <=> hash[n].NameSpace = 1
    BY <1>5
  <2>4. QED
    BY <1>4, <2>2, <2>3 DEF Loses
<1>7. /\ \A u \in Tasks \ {t} : call'[u] = call[u]
      /\ call'[t].op = c.op /\ call'[t].dir = c.dir /\ call'[t].src = c.src /\ call'[t].pc = "free"
      /\ call'[t].data = c.data /\ call'[t].locks = c.locks
      /\ Entry(t)' = Entry(t) /\ Chain(t)' = Chain(t)
  <2>1. "free" \in PCs
    BY DEF PCs
  <2>2. QED
    BY <1>0, <1>2, <2>1, GotoEffect DEF Inv, Entry, Chain
<1>8. CountInv'
  <2>1. SUFFICES ASSUME ~ orphaned, ~ Entered(n, t) PROVE CountInv'
    BY <1>2 DEF CountInv
  <2>2. \A m \in DOS : hash[m].Parent # n
    <3>1. CASE n \in Directories
      <4>1. hash[n].Blocks = 0
        BY <1>2, <3>1 DEF NotEmpty, Directories
      <4>2. Cardinality(ChildrenOf(n)) = 0
        BY <1>3, <2>1, <4>1 DEF More, CountInv
      <4>3. ChildrenOf(n) = {}
        BY <4>2, ChildrenFinite, FS_EmptySet DEF Inv
      <4>4. QED
        BY <4>3 DEF ChildrenOf
    <3>2. CASE n \notin Directories
      BY <2>1, <3>2 DEF More, CountInv, Housed
    <3>3. QED
      BY <3>1, <3>2
  <2>3. \A u \in Tasks : call[u].op \in {"create", "rename"} => call[u].dir # n
    <3>1. CASE call[t].op \in {"create", "rename"}
      BY <1>3, <2>1, <3>1 DEF More, CountInv, Enters, Entered
    <3>2. CASE call[t].op \notin {"create", "rename"}
      BY <2>1, <3>2 DEF Entered
    <3>3. QED
      BY <3>1, <3>2
  <2>4. \A m \in DOS \cap {n} : hash[m].Parent = p /\ DOS \cap {n} = {m}
    BY <1>4
  <2>5. QED
    BY <1>0, <1>6, <1>7, <2>1, <2>2, <2>3, <2>4, LosesCount DEF More
<1>9. NameInv'
  BY <1>3, <1>6, <1>7, LosesName DEF More
<1>10. RenameInv'
  <2>1. ASSUME n \in DOS PROVE hash[n].Parent \in call[t].locks
    <3>1. ListOK(n) /\ n \in List(n)
      BY <1>3, <2>1, ListFacts DEF Inv, StructInv
    <3>2. QED
      BY <1>3, <3>1 DEF ListOK, Claims
  <2>2. Replacing(call'[t]) => Replacing(call[t])
    BY <1>0, <1>2, <1>7 DEF Replacing, Deleting
  <2>3. QED
    BY <1>0, <1>3, <1>6, <1>7, <2>1, <2>2, LosesRename DEF More
\* The records that the list of the entry led to are still to be deleted.
<1>11. QuietInv'
  <2>1. SUFFICES ASSUME errors = 0 PROVE InUseOrClaimed' /\ SameNames' /\ AllListed'
    BY <1>2 DEF QuietInv
  <2>2. InUseOrClaimed /\ SameNames /\ AllListed
    BY <2>1 DEF More, QuietInv
  <2>3. \A u \in Tasks : Chain(u)' = Chain(u) /\ Claims(u)' = Claims(u) /\ \A m : Renaming(m, u) => Renaming(m, u)'
    <3>1. Chain(t)' = Chain(t) /\ Claims(t)' = Claims(t)
      BY <1>7 DEF Claims
    <3>2. \A m : ~ Renaming(m, t)
      BY <1>0, <1>2 DEF Renaming
    <3>3. QED
      BY <1>7, <3>1, <3>2, OthersAlone
  <2>4. \A m \in DOMAIN hash' : /\ m \in DOMAIN hash /\ m # n /\ hash'[m].Name = hash[m].Name
                                /\ hash'[m].Root = hash[m].Root
    BY <1>6 DEF Loses, SameHash
  <2>5. \A m \in DOMAIN hash : m # n => m \in DOMAIN hash'
    BY <1>6 DEF Loses
  <2>6. InUseOrClaimed'
    <3>1. Used(table)' = Used(table)
      BY <1>2 DEF Used
    <3>2. \A m \in DOMAIN hash : m \in DOMAIN hash' \/ m \in Claims(t)
      BY <1>3, <2>5 DEF Claims
    <3>3. QED
      BY <2>2, <2>3, <3>1, <3>2 DEF InUseOrClaimed
  <2>7. SameNames'
    BY <1>2, <2>2, <2>3, <2>4 DEF SameNames
  <2>8. ASSUME NEW m \in DOMAIN hash', Listed(m) PROVE Listed(m)' \/ m \in Chain(t)
    <3>1. PICK r : r = hash[m].Root
      OBVIOUS
    <3>2. r \in DOS /\ m \in List(r) /\ hash'[m].Root = r
      BY <2>4, <2>8, <3>1 DEF Listed
    <3>3. CASE r # n
      <4>1. r \in DOS' /\ r \in DOMAIN hash'
        BY <1>6, <2>5, <3>2, <3>3, LosesDOS DEF DOS
      <4>2. List(r)' = List(r)
        BY <1>6, <4>1, LosesDOS
      <4>3. QED
        BY <3>2, <4>1, <4>2 DEF Listed
    <3>4. CASE r = n
      <4>1. Whole(t)
        BY <1>0, <1>2, <1>3, <3>2, <3>4 DEF TaskOK, ChainOK, Rest
      <4>2. Chain(t) = List(n)
        BY <1>0, <1>1, <4>1 DEF Whole, Chain, List
      <4>3. QED
        BY <3>2, <3>4, <4>2
    <3>5. QED
      BY <3>3, <3>4
  <2>9. AllListed'
    BY <2>2, <2>3, <2>4, <2>8 DEF AllListed
  <2>10. QED
    BY <2>6, <2>7, <2>9
<1>12. QED
  BY <1>8, <1>9, <1>10, <1>11 DEF More
-----------------------------------------------------------------------------
(* Counts and names when a directory is renamed in place *)

\* Only the names of the records X change.
OnlyNames(X) ==
  /\ DOMAIN hash' = DOMAIN hash
  /\ \A m \in DOMAIN hash :
       /\ hash'[m].Parent = hash[m].Parent /\ hash'[m].NameSpace = hash[m].NameSpace
       /\ hash'[m].Kind = hash[m].Kind /\ hash'[m].Root = hash[m].Root
       /\ hash'[m].FirstBlock = hash[m].FirstBlock /\ hash'[m].Blocks = hash[m].Blocks
       /\ hash'[m].nl = hash[m].nl
       /\ m \notin X => hash'[m].Name = hash[m].Name

LEMMA RenamedNames ==
  ASSUME Inv, NEW s \in DOS, NEW m \in Names, hash' = Renamed(hash, NameSpaceList(s), m)
  PROVE  OnlyNames(List(s)) /\ \A n \in DOMAIN hash \cap List(s) : hash'[n].Name = m
<1>1. /\ IsHash(hash') /\ DOMAIN hash' = DOMAIN hash
      /\ \A n \in DOMAIN hash \ List(s) : hash'[n] = hash[n]
      /\ \A n \in DOMAIN hash : /\ SameHash([hash'[n] EXCEPT !.Name = hash[n].Name], hash[n])
                                /\ hash'[n].Blocks = hash[n].Blocks
                                /\ n \in List(s) => hash'[n].Name = m
                                /\ hash'[n].Parent = hash[n].Parent /\ hash'[n].NameSpace = hash[n].NameSpace
                                /\ hash'[n].Kind = hash[n].Kind /\ hash'[n].nl = hash[n].nl
  BY RenamedHash
<1>2. ASSUME NEW n \in DOMAIN hash PROVE hash'[n].Root = hash[n].Root /\ hash'[n].FirstBlock = hash[n].FirstBlock
  BY <1>1 DEF SameHash, IsHash, Hashes
<1>3. QED
  BY <1>1, <1>2 DEF OnlyNames

LEMMA NamesAlone ==
  ASSUME NEW X, OnlyNames(X)
  PROVE  /\ DOS' = DOS /\ Directories' = Directories
         /\ \A n : ChildrenOf(n)' = ChildrenOf(n)
         /\ \A n \in DOMAIN hash : List(n)' = List(n) /\ (Listed(n) => Listed(n)')
<1>1. DOS' = DOS /\ Directories' = Directories
  BY DEF OnlyNames, DOS, Directories
<1>2. \A n : ChildrenOf(n)' = ChildrenOf(n)
  BY <1>1 DEF OnlyNames, ChildrenOf, DOS
<1>3. \A n \in DOMAIN hash : List(n)' = List(n)
  BY DEF OnlyNames, List, NameSpaceList
<1>4. \A n \in DOMAIN hash : Listed(n) => Listed(n)'
  BY <1>1, <1>3 DEF OnlyNames, Listed, DOS
<1>5. QED
  BY <1>1, <1>2, <1>3, <1>4

LEMMA NamesCount ==
  ASSUME Inv, CountInv, NEW X, OnlyNames(X), orphaned' = orphaned, NEW t \in Tasks,
         \A u \in Tasks \ {t} : call'[u] = call[u],
         Entry(t)' = Entry(t), ~ orphaned => Enters(call[t], t)'
  PROVE  CountInv'
<1> SUFFICES ASSUME ~ orphaned
             PROVE  /\ Housed'
                    /\ \A n \in DOMAIN hash' : hash'[n].Blocks = Cardinality(ChildrenOf(n)')
                    /\ \A u \in Tasks : Enters(call[u], u)'
  BY DEF CountInv
<1>1. /\ Housed
      /\ \A n \in DOMAIN hash : hash[n].Blocks = Cardinality(ChildrenOf(n))
      /\ \A u \in Tasks : Enters(call[u], u)
  BY DEF CountInv
<1>2. \A u \in Tasks : Entry(u)' = Entry(u)
  BY OthersAlone
<1>3. \A n \in DOS : n \in DOMAIN hash
  BY DEF DOS
<1>4. Housed'
  BY <1>1, <1>2, <1>3, NamesAlone DEF Housed, OnlyNames
<1>5. ASSUME NEW u \in Tasks PROVE Enters(call[u], u)'
  <2>1. CASE u # t
    <3>1. call'[u] = call[u] /\ Chain(u)' = Chain(u)
      BY <2>1, OthersAlone
    <3>2. QED
      BY <1>1, <1>2, <3>1, NamesAlone DEF Enters
  <2>2. QED
    BY <2>1
<1>6. QED
  BY <1>1, <1>4, <1>5, NamesAlone DEF OnlyNames

LEMMA NamesName ==
  ASSUME Inv, NameInv, NEW t \in Tasks, NEW X, OnlyNames(X),
         \A u \in Tasks \ {t} : call'[u] = call[u] /\ X \cap Reach(u) = {},
         call'[t].pc = "inplace" => \A m \in Chain(t)' : hash'[m].Name = call'[t].name
  PROVE  NameInv'
<1>1. ASSUME NEW u \in Tasks, call'[u].pc = "inplace", NEW m \in Chain(u)' PROVE hash'[m].Name = call'[u].name
  <2>1. CASE u = t
    BY <1>1, <2>1
  <2>2. CASE u # t
    <3>1. call'[u] = call[u] /\ Chain(u)' = Chain(u)
      BY <2>2, OthersAlone
    <3>2. m \in DOMAIN hash /\ m \notin X
      BY <1>1, <2>2, <3>1, InPlaceHashed DEF Reach, Claims
    <3>3. QED
      BY <1>1, <3>1, <3>2 DEF NameInv, OnlyNames
  <2>3. QED
    BY <2>1, <2>2
<1>2. QED
  BY <1>1 DEF NameInv, OnlyNames

LEMMA NamesRename ==
  ASSUME Inv, RenameInv, NEW t \in Tasks, NEW X, OnlyNames(X),
         \A u \in Tasks \ {t} : call'[u] = call[u], ~ Replacing(call'[t])
  PROVE  RenameInv'
<1>1. ASSUME NEW u \in Tasks, Replacing(call'[u]) PROVE Replaced(u)'
  <2>1. call'[u] = call[u] /\ Chain(u)' = Chain(u)
    BY <1>1, OthersAlone
  <2>2. PICK m \in DOS : hash[m].FirstBlock = call[u].data /\ hash[m].Parent \in call[u].locks /\ m \notin Chain(u)
    BY <1>1, <2>1 DEF RenameInv, Replaced
  <2>3. m \in DOS' /\ hash'[m].FirstBlock = hash[m].FirstBlock /\ hash'[m].Parent = hash[m].Parent
    BY <2>2, NamesAlone DEF OnlyNames, DOS
  <2>4. QED
    BY <2>1, <2>2, <2>3 DEF Replaced
<1>2. QED
  BY <1>1 DEF RenameInv, Replacing

LEMMA RenameInPlaceMore ==
  ASSUME Inv, More, NEW t \in Tasks, RenameInPlace(t)
  PROVE  More'
<1>0. PICK c \in Calls : c = call[t]
  BY CallFacts DEF Inv
<1>1. PICK s \in DirNos : s = c.src
  BY <1>0, CallFacts DEF Inv
<1>2. /\ c.pc = "move" /\ c.kind = "dir" /\ hash' = Renamed(hash, NameSpaceList(s), c.name)
      /\ call' = [call EXCEPT ![t].chain = NameSpaceList(s), ![t].pc = "inplace"]
      /\ UNCHANGED <<table, errors, orphaned>>
  BY <1>0, <1>1 DEF RenameInPlace
<1>3. TaskOK(t) /\ CallOK(c)
  BY <1>0 DEF Inv, StructInv, TaskOK
<1>4. c.op = "rename" /\ c.src # 0 /\ Entry(t) = {} /\ Chain(t) = {} /\ c.name \in Names
  BY <1>0, <1>2, <1>3, OpFacts, EmptyFacts, CallFacts DEF Inv, Entry, Chain
<1>5. s \in DOS /\ Linked(s) /\ \A u \in Tasks \ {t} : List(s) \cap Reach(u) = {}
  BY <1>0, <1>1, <1>4, SrcFacts DEF Inv
<1>6. OnlyNames(List(s)) /\ \A n \in DOMAIN hash \cap List(s) : hash'[n].Name = c.name
  BY <1>2, <1>4, <1>5, RenamedNames
<1>7. /\ \A u \in Tasks \ {t} : call'[u] = call[u]
      /\ call'[t].op = c.op /\ call'[t].pc = "inplace" /\ call'[t].dir = c.dir /\ call'[t].name = c.name
      /\ call'[t].src = s /\ call'[t].entries = c.entries /\ call'[t].chain = NameSpaceList(s)
  <2>1. s = call[t].src /\ s \in DOS /\ call' = [call EXCEPT ![t].chain = NameSpaceList(s), ![t].pc = "inplace"]
    BY <1>0, <1>1, <1>2, <1>5
  <2>2. LET d == call[t]
        IN /\ \A u \in Tasks \ {t} : call'[u] = call[u]
           /\ call'[t].op = d.op /\ call'[t].pc = "inplace" /\ call'[t].dir = d.dir /\ call'[t].name = d.name
           /\ call'[t].src = s /\ call'[t].entries = d.entries /\ call'[t].chain = NameSpaceList(s)
    BY <1>1, <2>1, RenameInPlaceEffect
  <2>3. QED
    BY <1>0, <2>2
<1>8. Entry(t)' = {} /\ Chain(t)' = List(s)
  <2>1. NameSpaceList(s) = call'[t].chain
    BY <1>7
  <2>2. QED
    BY <1>0, <1>4, <1>7, <2>1 DEF Entry, Chain, List
<1>9. \A m \in List(s) : m \in DOMAIN hash
  BY <1>5, LinkedFacts DEF Inv
<1>10. CountInv'
  <2>1. ASSUME ~ orphaned PROVE Enters(call[t], t)'
    <3>1. c.dir \in Directories /\ c.dir # s /\ \A u \in Tasks : c.dir \notin Entry(u)
      BY <1>0, <1>1, <1>4, <2>1 DEF More, CountInv, Enters
    <3>2. c.dir \in DOS
      BY <3>1 DEF Directories, DOS
    <3>3. c.dir \notin List(s)
      BY <1>5, <3>1, <3>2, LinkedFacts DEF Inv
    <3>4. \A u \in Tasks : c.dir \notin Entry(u)'
      BY <1>7, <1>8, <3>1, OthersAlone
    <3>5. Directories' = Directories
      BY <1>6, NamesAlone
    <3>6. QED
      BY <1>7, <1>8, <3>1, <3>3, <3>4, <3>5 DEF Enters
  <2>2. QED
    BY <1>2, <1>4, <1>6, <1>7, <1>8, <2>1, NamesCount DEF More
<1>11. NameInv'
  BY <1>5, <1>6, <1>7, <1>8, <1>9, NamesName DEF More
<1>12. RenameInv'
  <2>1. ~ Replacing(call'[t])
    BY <1>7 DEF Replacing, Deleting
  <2>2. QED
    BY <1>6, <1>7, <2>1, NamesRename DEF More
<1>13. QuietInv'
  <2>1. SUFFICES ASSUME errors = 0 PROVE InUseOrClaimed' /\ SameNames' /\ AllListed'
    BY <1>2 DEF QuietInv
  <2>2. InUseOrClaimed /\ SameNames /\ AllListed
    BY <2>1 DEF More, QuietInv
  <2>3. \A u \in Tasks : /\ Chain(u) \subseteq Chain(u)' /\ Claims(u) \subseteq Claims(u)'
                         /\ \A m : Renaming(m, u) => Renaming(m, u)'
    <3>1. \A m : ~ Renaming(m, t)
      BY <1>0, <1>2 DEF Renaming
    <3>2. QED
      BY <1>4, <1>7, <3>1, OthersAlone DEF Claims
  <2>4. InUseOrClaimed'
    BY <1>2, <1>6, <2>2, <2>3 DEF InUseOrClaimed, Used, OnlyNames
  <2>5. SameNames'
    <3>1. \A m \in List(s) : Renaming(m, t)'
      BY <1>7, <1>8 DEF Renaming
    <3>2. QED
      BY <1>2, <1>6, <2>2, <2>3, <3>1 DEF SameNames, OnlyNames
  <2>6. AllListed'
    BY <1>6, <2>2, <2>3, NamesAlone DEF AllListed, OnlyNames
  <2>7. QED
    BY <2>4, <2>5, <2>6
<1>14. QED
  BY <1>10, <1>11, <1>12, <1>13 DEF More

LEMMA WriteInPlaceFailsMore ==
  ASSUME Inv, More, NEW t \in Tasks, WriteInPlaceFails(t)
  PROVE  More'
<1>0. PICK c \in Calls : c = call[t]
  BY CallFacts DEF Inv
<1>1. PICK s : s = c.src
  OBVIOUS
<1>2. /\ c.pc = "inplace" /\ hash' = Renamed(hash, NameSpaceList(s), c.old)
      /\ errors' = errors + 1 /\ Return(t) /\ UNCHANGED orphaned
  BY <1>0, <1>1 DEF WriteInPlaceFails
<1>3. c.src # 0 /\ Entry(t) = {} /\ c.old \in Names
  BY <1>0, <1>2, InPlaceFacts, CallFacts DEF Inv
<1>4. s \in DOS /\ \A u \in Tasks \ {t} : List(s) \cap Reach(u) = {}
  BY <1>0, <1>1, <1>3, SrcFacts DEF Inv
<1>5. OnlyNames(List(s))
  BY <1>2, <1>3, <1>4, RenamedNames
<1>6. (\A u \in Tasks \ {t} : call'[u] = call[u]) /\ call'[t] = NoCall
  BY <1>2, ReturnEffect DEF Inv
<1>7. Entry(t)' = {} /\ call'[t].op = "none" /\ call'[t].pc = "idle"
  BY <1>6, RestingOK, NoCallFields DEF Inv
<1>8. Enters(call[t], t)' /\ ~ Replacing(call'[t])
  BY <1>7 DEF Enters, Replacing
<1>9. CountInv'
  BY <1>2, <1>3, <1>5, <1>6, <1>7, <1>8, NamesCount DEF More
<1>10. NameInv'
  BY <1>4, <1>5, <1>6, <1>7, NamesName DEF More
<1>11. RenameInv'
  BY <1>5, <1>6, <1>8, NamesRename DEF More
<1>12. QuietInv'
  <2>1. errors' # 0
    BY <1>2 DEF Inv, TypeInv
  <2>2. QED
    BY <2>1 DEF QuietInv
<1>13. QED
  BY <1>9, <1>10, <1>11, <1>12 DEF More

LEMMA WriteInPlaceMore ==
  ASSUME Inv, More, NEW t \in Tasks, WriteInPlace(t)
  PROVE  More'
<1>0. PICK c \in Calls : c = call[t]
  BY CallFacts DEF Inv
<1>1. PICK n : n = Head(c.chain)
  OBVIOUS
<1>2. /\ c.pc = "inplace" /\ UNCHANGED <<hash, errors, orphaned>>
      /\ n \in DOMAIN hash /\ n \in DirNos /\ n \in Used(table)
      /\ \A m \in DirNos \ {n} : table'[m] = table[m]
      /\ table'[n] = [table[n] EXCEPT !.Name = c.name]
      /\ Used(table)' = Used(table)
      /\ \A u \in Tasks \ {t} : call'[u] = call[u]
      /\ \/ Tail(c.chain) = <<>> /\ call'[t] = NoCall
         \/ /\ call'[t].op = c.op /\ call'[t].pc = c.pc /\ call'[t].dir = c.dir /\ call'[t].name = c.name
            /\ call'[t].src = c.src /\ call'[t].entries = c.entries /\ call'[t].chain = Tail(c.chain)
  BY <1>0, <1>1, WriteInPlaceEffect
<1>3. c.chain \in Seq(DirNos) /\ c.chain # <<>> /\ Entry(t) = {} /\ c.op = "rename"
  BY <1>0, <1>2, InPlaceFacts
<1>4. n \in Chain(t) /\ Chain(t) = InSequence(Tail(c.chain)) \cup {n}
  BY <1>0, <1>1, <1>3, TailOf DEF Chain
<1>5. \/ call'[t].op = "none" /\ call'[t].pc = "idle" /\ Entry(t)' = {} /\ Chain(t)' = {} /\ Chain(t) = {n}
      \/ /\ call'[t].op = c.op /\ call'[t].pc = "inplace" /\ call'[t].dir = c.dir /\ call'[t].name = c.name
         /\ call'[t].src = c.src /\ Entry(t)' = {} /\ Chain(t) = Chain(t)' \cup {n}
  <2>1. CASE Tail(c.chain) = <<>> /\ call'[t] = NoCall
    <3>1. call'[t].op = "none" /\ call'[t].pc = "idle" /\ Entry(t)' = {} /\ Chain(t)' = {}
      BY <2>1, RestingOK, NoCallFields DEF Inv
    <3>2. QED
      BY <1>4, <2>1, <3>1, EmptyFacts
  <2>2. CASE /\ call'[t].op = c.op /\ call'[t].pc = c.pc /\ call'[t].dir = c.dir /\ call'[t].name = c.name
             /\ call'[t].src = c.src /\ call'[t].entries = c.entries /\ call'[t].chain = Tail(c.chain)
    BY <1>0, <1>2, <1>3, <1>4, <2>2 DEF Entry, Chain
  <2>3. QED
    BY <1>2, <2>1, <2>2
<1>6. Entry(t)' = {} /\ Chain(t) = Chain(t)' \cup {n} /\ ~ Replacing(call'[t])
  BY <1>5 DEF Replacing, Deleting
<1>7. CountInv'
  <2>1. ~ orphaned => Enters(call[t], t)'
    BY <1>0, <1>2, <1>5, <1>6, EntersStill DEF More
  <2>2. QED
    BY <1>2, <1>6, <2>1, CountSame DEF More
<1>8. NameInv'
  BY <1>0, <1>2, <1>5, <1>6, NameSame DEF More
<1>9. RenameInv'
  BY <1>2, <1>6, RenameSame DEF More
<1>10. QuietInv'
  <2>1. SUFFICES ASSUME errors = 0 PROVE InUseOrClaimed' /\ SameNames' /\ AllListed'
    BY <1>2 DEF QuietInv
  <2>2. InUseOrClaimed /\ SameNames /\ AllListed
    BY <2>1 DEF More, QuietInv
  <2>3. \A u \in Tasks : Chain(u) \subseteq Chain(u)' \cup {n} /\ Claims(u) \subseteq Claims(u)' \cup {n}
    BY <1>2, <1>3, <1>6, OthersAlone DEF Claims
  <2>4. InUseOrClaimed'
    BY <1>2, <2>2, <2>3 DEF InUseOrClaimed
  <2>5. ASSUME NEW m \in DOMAIN hash PROVE hash[m].Name = table'[m].Name \/ \E u \in Tasks : Renaming(m, u)'
    <3>1. m \in DirNos
      BY HashFacts DEF Inv
    <3>2. CASE m = n
      <4>1. hash[n].Name = c.name
        BY <1>0, <1>2, <1>4 DEF More, NameInv
      <4>2. table'[n].Name = c.name
        BY <1>2, RecordFacts DEF Inv, Records
      <4>3. QED
        BY <3>2, <4>1, <4>2
    <3>3. CASE m # n
      <4>1. \A u \in Tasks : Renaming(m, u) => Renaming(m, u)'
        <5>1. Renaming(m, t) => Renaming(m, t)'
          BY <1>5, <3>3 DEF Renaming
        <5>2. QED
          BY <1>2, <5>1, OthersAlone
      <4>2. QED
        BY <1>2, <2>2, <3>1, <3>3, <4>1 DEF SameNames
    <3>4. QED
      BY <3>2, <3>3
  <2>6. SameNames'
    BY <1>2, <2>5 DEF SameNames
  <2>7. AllListed'
    <3>1. \A m \in Chain(t) : Listed(m)
      BY <1>0, <1>2, InPlaceHashed
    <3>2. Listed(n)
      BY <1>4, <3>1
    <3>3. QED
      BY <1>2, <2>2, <2>3, <3>2, HashesAlone DEF AllListed
  <2>8. QED
    BY <2>4, <2>6, <2>7
<1>11. QED
  BY <1>7, <1>8, <1>9, <1>10 DEF More

LEMMA MoreNext ==
  ASSUME Inv, StreamInv, More, [Next]_vars
  PROVE  More'
<1>1. ASSUME NEW t \in Tasks, Write(t) PROVE More'
  BY <1>1, WriteRecordMore, WriteFailsMore, UnwindMore, UnwindFailsMore, UnwoundMore DEF Write
<1>2. ASSUME NEW t \in Tasks, Delete(t) PROVE More'
  BY <1>2, FreeHashMore, RefuseMore, FreeRecordMore, DeleteFailsMore DEF Delete
<1>3. ASSUME NEW t \in Tasks, MoveEntry(t) PROVE More'
  BY <1>3, MoveMore, RenameInPlaceMore, WriteInPlaceMore, WriteInPlaceFailsMore DEF MoveEntry
<1>4. CASE UNCHANGED vars
  <2>1. hash' = hash /\ table' = table /\ call' = call /\ errors' = errors /\ orphaned' = orphaned
    BY <1>4 DEF vars
  <2>2. CountInv' <=> CountInv
    BY <2>1 DEF CountInv, Housed, ChildrenOf, Enters, DOS, Directories, Entry, Chain
  <2>3. NameInv' <=> NameInv
    BY <2>1 DEF NameInv, Chain
  <2>4. QuietInv' <=> QuietInv
    BY <2>1 DEF QuietInv, InUseOrClaimed, SameNames, AllListed, Renaming, Listed, Used, Claims, Entry, Chain,
                DOS, List, NameSpaceList
  <2>5. RenameInv' <=> RenameInv
    BY <2>1 DEF RenameInv, Replacing, Replaced, DOS, Chain
  <2>6. QED
    BY <2>2, <2>3, <2>4, <2>5 DEF More
<1>5. QED
  BY <1>1, <1>2, <1>3, <1>4, StartMore, AllocateMore DEF Next

\* A formatted volume has two directories, the root and one in it, which is empty.
LEMMA MoreInit ==
  ASSUME Init
  PROVE  More
<1>1. PICK m \in Names : table = Formatted(m)
  BY DEF Init
<1>2. IsFormatted(table, m) /\ hash = MountHash(table)
  BY <1>1, FormattedFacts DEF Init
<1>3. /\ DOMAIN hash = 0 .. 2 * K - 1 /\ DOS = {0, K}
      /\ \A n \in DOMAIN hash :
           /\ hash[n].Parent = 0 /\ hash[n].Name = m /\ hash[n].NameSpace = table[n].NameSpace
           /\ hash[n].Kind = "dir" /\ hash[n].Root = table[n].PrimaryEntry
           /\ hash[n].Blocks = (IF n = 0 THEN Cardinality({0, K}) ELSE 0)
      /\ \A n \in DOS : NameSpaceList(n) = [i \in 1 .. K |-> n + i - 1]
  BY <1>2, FormattedHash
<1>4. /\ Used(table) = 0 .. 2 * K - 1 /\ DOSRecords(table) = {0, K}
      /\ \A n \in 0 .. 2 * K - 1 : /\ table[n].Name = m
                                   /\ table[n].NameSpace = (IF n < K THEN n + 1 ELSE n - K + 1)
                                   /\ table[n].PrimaryEntry = (IF n < K THEN 0 ELSE K)
  BY <1>2 DEF IsFormatted
<1>5. K \in Nat /\ K > 0
  BY Constants
<1>6. /\ \A t \in Tasks : /\ call[t].op = "none" /\ call[t].pc = "idle"
                          /\ call[t].entries = <<>> /\ call[t].chain = <<>>
  BY NoCallFields DEF Init
<1>7. \A t \in Tasks : Entry(t) = {} /\ Chain(t) = {}
  BY <1>6, EmptyFacts DEF Entry, Chain
<1>8. 0 \in Directories /\ \A n \in DOS : hash[n].Parent = 0
  BY <1>3, <1>5 DEF Directories, DOS
<1>9. Housed
  BY <1>7, <1>8 DEF Housed
<1>10. ASSUME NEW n \in DOMAIN hash PROVE hash[n].Blocks = Cardinality(ChildrenOf(n))
  <2>1. CASE n = 0
    <3>1. ChildrenOf(n) = {0, K}
      BY <1>3, <1>8, <2>1 DEF ChildrenOf
    <3>2. QED
      BY <1>3, <2>1, <3>1
  <2>2. CASE n # 0
    <3>1. ChildrenOf(n) = {}
      BY <1>8, <2>2 DEF ChildrenOf
    <3>2. QED
      BY <1>3, <2>2, <3>1, FS_EmptySet
  <2>3. QED
    BY <2>1, <2>2
<1>11. CountInv
  BY <1>6, <1>9, <1>10 DEF CountInv, Enters
<1>12. NameInv
  <2>1. ASSUME NEW n \in DOMAIN hash, hash[n].NameSpace # 1 PROVE hash[n].nl = <<>>
    <3>1. n \in Used(table) /\ n \notin DOSRecords(table)
      BY <1>3, <1>4, <2>1 DEF DOSRecords
    <3>2. QED
      BY <1>2, <3>1 DEF MountHash
  <2>2. QED
    BY <1>6, <2>1 DEF NameInv
<1>13. AllListed
  <2>1. ASSUME NEW n \in DOMAIN hash PROVE Listed(n)
    <3>1. n \in 0 .. 2 * K - 1
      BY <1>3
    <3>2. PICK r \in {0, K} : r = hash[n].Root /\ n - r + 1 \in 1 .. K
      <4>1. CASE n < K
        <5>1. hash[n].Root = 0
          BY <1>3, <1>4, <3>1, <4>1
        <5>2. n - 0 + 1 \in 1 .. K
          BY <1>5, <3>1, <4>1
        <5>3. QED
          BY <5>1, <5>2
      <4>2. CASE ~ (n < K)
        <5>1. hash[n].Root = K
          BY <1>3, <1>4, <3>1, <4>2
        <5>2. n - K + 1 \in 1 .. K
          BY <1>5, <3>1, <4>2
        <5>3. QED
          BY <5>1, <5>2
      <4>3. QED
        BY <4>1, <4>2
    <3>3. NameSpaceList(r) = [i \in 1 .. K |-> r + i - 1] /\ r \in DOS
      BY <1>3, <3>2
    <3>4. r \in Int /\ n \in Int
      BY <1>5, <3>1, <3>2
    <3>5. NameSpaceList(r)[n - r + 1] = n /\ n - r + 1 \in DOMAIN NameSpaceList(r)
      BY <3>2, <3>3, <3>4
    <3>6. n \in List(r)
      BY <3>5 DEF List, InSequence
    <3>7. QED
      BY <3>2, <3>3, <3>6 DEF Listed
  <2>2. QED
    BY <2>1 DEF AllListed
<1>14. QuietInv
  BY <1>3, <1>4, <1>13 DEF QuietInv, InUseOrClaimed, SameNames
<1>15. RenameInv
  BY <1>6 DEF RenameInv, Replacing
<1>16. QED
  BY <1>11, <1>12, <1>14, <1>15 DEF More
-----------------------------------------------------------------------------
(* The invariant and what it implies *)

LEMMA InvHolds == Spec => [](Inv /\ More)
<1>1. Init => Inv /\ StreamInv /\ More
  BY InvInit, MoreInit
<1>2. Inv /\ StreamInv /\ More /\ [Next]_vars => (Inv /\ StreamInv /\ More)'
  BY InvNext, MoreNext
<1>3. QED
  BY <1>1, <1>2, PTL DEF Spec

\* The directory file, the owners and bit lists of its blocks, the hashes and the
\* calls have their types at every step of every call, and, as long as no directory
\* was taken away under a call that makes an entry in it, the number of entries that
\* RemoveParentHash counts down never falls below zero.
THEOREM TypeCorrect == Spec => []TypeOK
<1>1. ASSUME Inv, More PROVE TypeOK
  <2>1. ~ orphaned => \A n \in DOMAIN hash : hash[n].Blocks \in Nat
    BY <1>1, ChildrenFinite DEF Inv, More, CountInv
  <2>2. QED
    BY <1>1, <2>1 DEF Inv, TypeInv, TypeOK
<1>2. QED
  BY <1>1, InvHolds, PTL
-----------------------------------------------------------------------------
(* What mounting builds *)

LEMMA TailPrefixed ==
  ASSUME NEW S, NEW x \in S, NEW s \in Seq(S)
  PROVE  Tail(<<x>> \o s) = s
<1> DEFINE l == <<x>> \o s
<1>1. /\ l \in Seq(S) /\ Len(l) = Len(s) + 1 /\ l # <<>>
      /\ \A i \in 2 .. Len(s) + 1 : l[i] = s[i - 1]
  BY Prefixed
<1>2. l = <<x>> \o s
  OBVIOUS
<1> HIDE DEF l
<1>3. Tail(l) \in Seq(S) /\ Len(Tail(l)) = Len(l) - 1 /\ \A i \in 1 .. Len(Tail(l)) : Tail(l)[i] = l[i + 1]
  BY <1>1, TailOf
<1>4. Len(s) \in Nat
  BY SetOf
<1>5. Len(Tail(l)) = Len(s)
  BY <1>1, <1>3, <1>4
<1>6. ASSUME NEW i \in 1 .. Len(Tail(l)) PROVE Tail(l)[i] = s[i]
  <2>1. i + 1 \in 2 .. Len(s) + 1 /\ (i + 1) - 1 = i
    BY <1>4, <1>5
  <2>2. QED
    BY <1>1, <1>3, <2>1
<1>7. Tail(l) = s
  BY <1>3, <1>5, <1>6, SeqEqual
<1>8. QED
  BY <1>2, <1>7

\* The list of an entry that is written is what its name list leads to.
LEMMA WrittenLeads ==
  ASSUME Inv, NEW n \in DOS, Written(n)
  PROVE  LeadsTo(table, n, NameSpaceList(n)) /\ NameListOf(table, n) = NameSpaceList(n)
<1> DEFINE l == NameSpaceList(n)
<1>1. n \in DOMAIN hash /\ Linked(n) /\ K \in Nat
  BY Constants DEF DOS, Inv, StructInv, ListOK
<1>2. l \in Seq(DirNos) /\ l[1] = n /\ DOMAIN l = 1 .. Len(l)
  BY <1>1, ListFacts DEF Inv
<1>3. Len(l) = K /\ \A i \in 1 .. K : table[l[i]].NameList = IF i = K THEN 0 ELSE l[i + 1]
  BY DEF Written
<1>4. \A i \in 1 .. K : l[i] \in DOMAIN hash /\ hash[l[i]].NameSpace = i
  BY <1>1, <1>2, <1>3 DEF Linked
<1>5. \A i \in 1 .. K : l[i] \in Used(table)
  BY <1>4, InUse DEF Inv
<1>6. ASSUME NEW i \in 1 .. K, i # K PROVE l[i + 1] # 0
  <2>1. i + 1 \in 1 .. K /\ i + 1 # 1
    BY <1>1, <1>6
  <2>2. hash[l[i + 1]].NameSpace # 1
    BY <1>4, <2>1
  <2>3. 0 \in DOS
    BY DEF Inv, StructInv
  <2>4. QED
    BY <2>2, <2>3 DEF DOS
<1>7. LeadsTo(table, n, l)
  BY <1>2, <1>3, <1>5, <1>6 DEF LeadsTo
<1>8. QED
  BY <1>7, NameListOfIs

LEMMA OwnersRebuilt ==
  ASSUME Inv, bits = Used(table)
  PROVE  owner = MountOwner(table)
<1>1. ASSUME NEW b \in Blocks PROVE owner[b] = MountOwner(table)[b]
  <2> DEFINE used == RecordsOf(b) \cap Used(table)
  <2>1. owner[b] = FREE_NODE <=> used = {}
    BY DEF Inv, BlockInv, BlocksOneOwner
  <2>2. CASE used = {}
    BY <2>1, <2>2 DEF MountOwner
  <2>3. CASE used # {}
    <3>1. used \subseteq Nat
      BY DirNosSize DEF RecordsOf
    <3>2. \E n \in used : \A k \in used : n <= k
      BY <2>3, <3>1, LeastIn
    <3>3. PICK m \in used : m = CHOOSE n \in used : \A k \in used : n <= k
      BY <3>2
    <3>4. MountOwner(table)[b] = table[m].Subdirectory
      BY <2>3, <3>3 DEF MountOwner
    <3>5. BlockOf(m) = b /\ m \in Used(table)
      BY DEF RecordsOf
    <3>6. owner[BlockOf(m)] = table[m].Subdirectory
      BY <3>5 DEF Inv, BlockInv, BlocksOneOwner
    <3>7. QED
      BY <3>4, <3>5, <3>6
  <2>4. QED
    BY <2>2, <2>3
<1>2. owner = [b \in Blocks |-> owner[b]]
  BY DEF Inv, TypeInv
<1>3. MountOwner(table) = [b \in Blocks |-> MountOwner(table)[b]]
  BY DEF MountOwner
<1>4. QED
  BY <1>1, <1>2, <1>3

\* What is in the hashes of a record that mounting would find.
LEMMA HashRebuilt ==
  ASSUME Inv, CountInv, NameInv, ~ orphaned, DOSRecords(table) = DOS, NEW n \in DOMAIN hash, n \in Used(table),
         Listed(n), hash[n].Name = table[n].Name, n \in DOS => NameListOf(table, n) = NameSpaceList(n)
  PROVE  hash[n] = MountHash(table)[n]
<1> DEFINE g == MountHash(table)[n]
<1>1. g = [Parent |-> table[table[n].PrimaryEntry].Subdirectory, Name |-> table[n].Name,
           NameSpace |-> table[n].NameSpace, Kind |-> table[n].Kind, Root |-> table[n].PrimaryEntry,
           FirstBlock |-> table[n].FirstBlock,
           Blocks |-> IF n \in DOS THEN Cardinality({m \in DOS : table[m].Subdirectory = n}) ELSE 0,
           nl |-> IF n \in DOS THEN Tail(NameListOf(table, n)) ELSE <<>>]
  BY DEF MountHash
<1>2. /\ hash[n].NameSpace = table[n].NameSpace /\ hash[n].Kind = table[n].Kind
      /\ hash[n].FirstBlock = table[n].FirstBlock /\ hash[n].Root = table[n].PrimaryEntry
  BY DEF Inv, StructInv, RecordOK
<1>3. hash[n].Parent = table[table[n].PrimaryEntry].Subdirectory
  <2>1. PICK r : r = hash[n].Root
    OBVIOUS
  <2>2. r \in DOS /\ n \in List(r)
    BY <2>1 DEF Listed
  <2>3. Linked(r) /\ RecordOK(r)
    BY <2>2 DEF Inv, StructInv, ListOK, DOS
  <2>4. hash[n].Parent = hash[r].Parent
    BY <2>2, <2>3, LinkedFacts DEF Inv
  <2>5. hash[r].Parent = table[r].Subdirectory
    BY <2>3 DEF RecordOK
  <2>6. QED
    BY <1>2, <2>1, <2>4, <2>5
<1>4. hash[n].Blocks = IF n \in DOS THEN Cardinality({m \in DOS : table[m].Subdirectory = n}) ELSE 0
  <2>1. \A m \in DOS : hash[m].Parent = table[m].Subdirectory
    BY DEF Inv, StructInv, RecordOK, DOS
  <2>2. ChildrenOf(n) = {m \in DOS : table[m].Subdirectory = n}
    BY <2>1 DEF ChildrenOf
  <2>3. hash[n].Blocks = Cardinality(ChildrenOf(n))
    BY DEF CountInv
  <2>4. ASSUME n \notin DOS PROVE ChildrenOf(n) = {}
    <3>1. n \notin Directories
      BY <2>4 DEF Directories, DOS
    <3>2. QED
      BY <3>1 DEF CountInv, Housed, ChildrenOf
  <2>5. QED
    BY <2>2, <2>3, <2>4, FS_EmptySet
<1>5. hash[n].nl = IF n \in DOS THEN Tail(NameListOf(table, n)) ELSE <<>>
  <2>1. n \in DirNos /\ hash[n].nl \in Seq(DirNos)
    BY HashFacts DEF Inv
  <2>2. n \in DOS => hash[n].nl = Tail(NameListOf(table, n))
    BY <2>1, TailPrefixed DEF NameSpaceList
  <2>3. n \notin DOS => hash[n].nl = <<>>
    BY DEF NameInv, DOS
  <2>4. QED
    BY <2>2, <2>3
<1>6. hash[n] \in Hashes
  BY HashFacts DEF Inv
<1>7. hash[n] = [Parent |-> hash[n].Parent, Name |-> hash[n].Name, NameSpace |-> hash[n].NameSpace,
                 Kind |-> hash[n].Kind, Root |-> hash[n].Root, FirstBlock |-> hash[n].FirstBlock,
                 Blocks |-> hash[n].Blocks, nl |-> hash[n].nl]
  BY <1>6 DEF Hashes
<1>8. QED
  BY <1>1, <1>2, <1>3, <1>4, <1>5, <1>7

\* Whenever no call is under way and none failed half way, what ReadDirectoryTable,
\* HashDirectoryRecord and LinkVolumeNameSpaces would build from the directory file
\* is what create, unlink, rmdir and rename have left in memory.
THEOREM MountsRebuild == Spec => []MountRebuilds
<1>1. ASSUME Inv, More PROVE MountRebuilds
  <2>1. SUFFICES ASSUME \A t \in Tasks : call[t].pc = "idle", errors = 0, ~ orphaned
                 PROVE  /\ ~ MountRefused(table) /\ owner = MountOwner(table)
                        /\ bits = Used(table) /\ hash = MountHash(table)
    BY DEF MountRebuilds
  <2>2. \A t \in Tasks : Entry(t) = {} /\ Chain(t) = {} /\ Claims(t) = {}
    BY <1>1, <2>1, IdleFacts DEF Inv
  <2>3. DOMAIN hash = Used(table)
    BY <1>1, <2>1, <2>2, InUse DEF Inv, More, QuietInv, InUseOrClaimed
  <2>4. bits = Used(table)
    <3>1. bits = Used(table) \cup UNION {Entry(t) : t \in Tasks}
      BY <1>1, <2>1 DEF Inv, BlockInv, RecordsAccounted, Entry
    <3>2. UNION {Entry(t) : t \in Tasks} = {}
      BY <2>2
    <3>3. QED
      BY <3>1, <3>2
  <2>5. DOSRecords(table) = DOS
    BY <1>1, <2>3 DEF Inv, StructInv, RecordOK, DOSRecords, DOS
  <2>6. ASSUME NEW n \in DOS
        PROVE  LeadsTo(table, n, NameSpaceList(n)) /\ NameListOf(table, n) = NameSpaceList(n)
    <3>1. Written(n)
      BY <1>1, <2>2 DEF Inv, StructInv, ListOK
    <3>2. QED
      BY <1>1, <3>1, WrittenLeads
  <2>7. ~ MountRefused(table)
    <3>1. ASSUME NEW n \in DOS PROVE InSequence(NameListOf(table, n)) \subseteq Used(table)
      <4>1. NameSpaceList(n) \in Seq(DirNos) /\ Len(NameSpaceList(n)) = K
            /\ \A i \in 1 .. K : NameSpaceList(n)[i] \in Used(table)
        BY <2>6 DEF LeadsTo
      <4>2. QED
        BY <2>6, <4>1, SetOf
    <3>2. QED
      BY <2>5, <3>1 DEF MountRefused
  <2>8. owner = MountOwner(table)
    BY <1>1, <2>4, OwnersRebuilt
  <2>9. ASSUME NEW n \in DOMAIN hash PROVE hash[n] = MountHash(table)[n]
    <3>1. Listed(n) /\ hash[n].Name = table[n].Name
      BY <1>1, <2>1, <2>2 DEF More, QuietInv, AllListed, SameNames, Renaming
    <3>2. QED
      BY <1>1, <2>1, <2>3, <2>5, <2>6, <3>1, HashRebuilt DEF More
  <2>10. hash = MountHash(table)
    <3>1. hash = [n \in Used(table) |-> hash[n]]
      BY <1>1, <2>3 DEF Inv, TypeInv
    <3>2. MountHash(table) = [n \in Used(table) |-> MountHash(table)[n]]
      BY DEF MountHash
    <3>3. QED
      BY <2>3, <2>9, <3>1, <3>2
  <2>11. QED
    BY <2>4, <2>7, <2>8, <2>10
<1>2. QED
  BY <1>1, InvHolds, PTL
-----------------------------------------------------------------------------
(* What a rename keeps *)

LEMMA WholeEntry ==
  ASSUME Inv, NEW x \in Streams \ {0}, NEW n \in DOS, hash[n].FirstBlock = x, \A t \in Tasks : n \notin Entry(t)
  PROVE  EntryOf(x)
<1>1. Written(n) /\ Linked(n) /\ RecordOK(n)
  BY DEF Inv, StructInv, ListOK, DOS
<1>2. PICK l : l = NameSpaceList(n)
  OBVIOUS
<1>3. /\ LeadsTo(table, n, l) /\ NameListOf(table, n) = l
  BY <1>1, <1>2, WrittenLeads
<1>4. Len(l) = K /\ DOMAIN l = 1 .. K /\ \A i \in 1 .. K : l[i] \in Used(table)
  BY <1>3, SetOf DEF LeadsTo
<1>5. n \in DOSRecords(table) /\ table[n].FirstBlock = x
  BY <1>1 DEF RecordOK, DOSRecords, DOS
<1>6. hash[n].Kind = "file"
  <2>1. hash[n].Kind \in {"dir", "file"}
    BY HashFacts DEF Inv, DOS
  <2>2. QED
    BY <1>1, <2>1 DEF RecordOK
<1>7. ASSUME NEW i \in NameSpaces
      PROVE  /\ l[i] \in Used(table) /\ table[l[i]].PrimaryEntry = n
             /\ table[l[i]].NameSpace = i /\ table[l[i]].Name = table[n].Name
  <2>1. i \in 1 .. K
    BY Constants DEF NameSpaces
  <2>2. l[i] \in DOMAIN hash /\ hash[l[i]].NameSpace = i /\ hash[l[i]].Root = n
    BY <1>1, <1>2, <1>4, <2>1 DEF Linked
  <2>3. RecordOK(l[i])
    BY <2>2 DEF Inv, StructInv
  <2>4. table[l[i]].Name = table[n].Name
    BY <1>1, <1>2, <1>6, <2>1 DEF Written
  <2>5. QED
    BY <1>4, <2>1, <2>2, <2>3, <2>4 DEF RecordOK
<1>8. QED
  BY <1>3, <1>4, <1>5, <1>7, Constants DEF EntryOf

\* The file that is renamed has an entry, the old one or the new.
LEMMA RenamedEntry ==
  ASSUME Inv, RenameInv, NEW t \in Tasks, call[t].op = "rename", call[t].data # 0
  PROVE  \E n \in DOS : hash[n].FirstBlock = call[t].data /\ \A u \in Tasks : n \notin Entry(u)
<1>0. PICK c \in Calls : c = call[t]
  BY CallFacts DEF Inv
<1>1. TaskOK(t) /\ CallOK(c)
  BY <1>0 DEF Inv, StructInv, TaskOK
<1>2. c.src = 0 /\ c.pc \in Making \cup Deleting
  BY <1>0, <1>1, OpFacts DEF CallOK
<1>3. CASE c.pc \in Making
  <2>1. PICK n : n = Head(c.chain)
    OBVIOUS
  <2>2. n \in DOS /\ c.chain = NameSpaceList(n) /\ hash[n].FirstBlock = c.data
    BY <1>0, <1>1, <1>3, <2>1 DEF TaskOK, ChainOK, Whole
  <2>3. n \in Chain(t)
    BY <1>0, <2>2, ListFacts DEF Inv, DOS, Chain, List
  <2>4. \A u \in Tasks : n \notin Entry(u)
    BY <1>1, <2>3 DEF TaskOK, Inv, StructInv, Apart, Claims
  <2>5. QED
    BY <1>0, <2>2, <2>4
<1>4. CASE c.pc \in Deleting
  <2>1. Replaced(t)
    BY <1>0, <1>2, <1>4 DEF RenameInv, Replacing
  <2>2. PICK n \in DOS : hash[n].FirstBlock = c.data /\ hash[n].Parent \in c.locks
    BY <1>0, <2>1 DEF Replaced
  <2>3. n \notin Entry(t)
    BY <1>0, <1>4, DeletingFacts
  <2>4. ASSUME NEW u \in Tasks, u # t PROVE n \notin Entry(u)
    <3>1. ListOK(n) /\ n \in List(n)
      BY ListFacts DEF Inv, StructInv, DOS
    <3>2. n \in Entry(u) => hash[n].Parent \in call[u].locks
      BY <3>1 DEF ListOK, Claims
    <3>3. call[t].locks \cap call[u].locks = {}
      BY <2>4 DEF Inv, StructInv, Apart
    <3>4. QED
      BY <1>0, <2>2, <3>2, <3>3
  <2>5. QED
    BY <1>0, <2>2, <2>3, <2>4
<1>5. QED
  BY <1>2, <1>3, <1>4

\* NWRenameEntry never loses the file: at every step of a rename, also of one that
\* fails, the directory file has a whole entry of it, and so it has of every file
\* that is hashed and not being deleted or made.
THEOREM RenamesKeepFile == Spec => []RenameKeepsFile
<1>1. ASSUME Inv, More PROVE RenameKeepsFile
  <2>1. SUFFICES ASSUME NEW x \in Streams \ {0},
                        \/ \E t \in Tasks : call[t].op = "rename" /\ call[t].data = x
                        \/ \E n \in DOMAIN hash :
                             /\ hash[n].NameSpace = 1 /\ hash[n].FirstBlock = x
                             /\ \A t \in Tasks : n \notin InSequence(call[t].entries) \cup InSequence(call[t].chain)
                 PROVE  EntryOf(x)
    BY DEF RenameKeepsFile
  <2>2. \E n \in DOS : hash[n].FirstBlock = x /\ \A u \in Tasks : n \notin Entry(u)
    <3>1. CASE \E t \in Tasks : call[t].op = "rename" /\ call[t].data = x
      BY <1>1, <2>1, <3>1, RenamedEntry DEF More
    <3>2. CASE \E n \in DOMAIN hash :
                 /\ hash[n].NameSpace = 1 /\ hash[n].FirstBlock = x
                 /\ \A t \in Tasks : n \notin InSequence(call[t].entries) \cup InSequence(call[t].chain)
      BY <3>2 DEF DOS, Entry
    <3>3. QED
      BY <2>1, <3>1, <3>2
  <2>3. QED
    BY <1>1, <2>2, WholeEntry
<1>2. QED
  BY <1>1, InvHolds, PTL
=============================================================================

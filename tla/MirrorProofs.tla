---------------------------- MODULE MirrorProofs ----------------------------
(***************************************************************************)
(* Proofs about module Mirror, for any number of members, blocks, writes,  *)
(* failures and restarts.  BaseInv says of the group, the remirror process *)
(* and the write of the volume what their types do not; DataInv says which *)
(* members hold what a read may return: those a reader trusts (TrustInv),  *)
(* all present for the blocks the remirror process has done (ValidInv),    *)
(* the source of a copy (CopyInv), the members compared so far             *)
(* (CompareInv) and those the write has passed (WriteInv).                 *)
(*                                                                         *)
(* TwoInv, last, is about groups of two: where both members hold the same, *)
(* and what the mirror sector, in memory and on disk, says of it.          *)
(***************************************************************************)
EXTENDS Mirror, FiniteSetTheorems, WellFoundedInduction, TLAPS

-----------------------------------------------------------------------------
(* The least of some numbers, and sections *)

\* CHOOSE m : least, as the model picks the first member or block.
Least(S) == CHOOSE m \in S : \A k \in S : m <= k

\* The order of the numbers as a relation, for WFMin.
Less == {p \in Nat \X Nat : p[1] < p[2]}

LEMMA LessWellFounded == IsWellFoundedOn(Less, Nat)
  BY NatLessThanWellFounded DEF OpToRel, Less

LEMMA LeastIn ==
  ASSUME NEW S, S \subseteq Nat, S # {}
  PROVE  Least(S) \in S /\ \A k \in S : Least(S) <= k
<1>1. \E m \in S : \A k \in S : ~(<<k, m>> \in Less)
  BY WFMin, LessWellFounded
<1>2. \A k, m \in S : <<k, m>> \in Less \/ m <= k
  BY DEF Less
<1>3. \E m \in S : \A k \in S : m <= k
  BY <1>1, <1>2
<1>4. QED
  BY <1>3 DEF Least

LEMMA Division ==
  ASSUME NEW a \in Nat, NEW s \in Nat, s > 0
  PROVE  /\ a \div s \in Nat /\ a % s \in Nat /\ a % s < s
         /\ a = s * (a \div s) + (a % s)
<1>1. a \div s \in Nat /\ a % s \in Nat
  OBVIOUS
<1>2. a % s < s
  OBVIOUS
<1>3. a = s * (a \div s) + (a % s)
  OBVIOUS
<1>4. QED
  BY <1>1, <1>2, <1>3

LEMMA Multiples ==
  ASSUME NEW s \in Nat, NEW i \in Nat, NEW k \in Nat
  PROVE  /\ s * i \in Nat /\ i * s = s * i
         /\ s * (i + 1) = s * i + s
         /\ i <= k => s * i <= s * k
<1>1. s * i \in Nat /\ i * s = s * i
  OBVIOUS
<1>2. s * (i + 1) = s * i + s
  OBVIOUS
<1>3. ASSUME i <= k PROVE s * i <= s * k
  BY <1>3
<1>4. QED
  BY <1>1, <1>2, <1>3

\* A block is where its section and its place in the section say.
LEMMA Sections ==
  ASSUME NEW b \in Block
  PROVE  /\ SectionOf(b) \in 0 .. TopSection
         /\ b % SectionSize \in 0 .. SectionSize - 1
         /\ b = SectionOf(b) * SectionSize + (b % SectionSize)
<1> DEFINE s == SectionSize
           i == b \div s
           k == Blocks \div s
           x == b % s
           y == Blocks % s
<1>1. /\ b \in Nat /\ s \in Nat /\ s > 0 /\ Blocks \in Nat /\ b < Blocks
  BY MirrorConstants DEF Block
<1>2. i \in Nat /\ x \in Nat /\ x < s /\ b = s * i + x
  BY <1>1, Division
<1>3. k \in Nat /\ y \in Nat /\ y < s /\ Blocks = s * k + y
  BY <1>1, Division
<1>4. SectionOf(b) = i /\ TopSection = k /\ b % SectionSize = x
  BY DEF SectionOf, TopSection
<1> HIDE DEF s, i, k, x, y
<1>5. i <= k
  <2>1. ASSUME k < i PROVE FALSE
    <3>1. k + 1 \in Nat /\ k + 1 <= i
      BY <1>2, <1>3, <2>1
    <3>2. s * (k + 1) <= s * i /\ s * (k + 1) = s * k + s /\ s * i \in Nat /\ s * k \in Nat
      BY <1>1, <1>2, <1>3, <3>1, Multiples
    <3> DEFINE p == s * i
               q == s * k
    <3>3. /\ p \in Nat /\ q \in Nat /\ q + s <= p /\ b = p + x /\ Blocks = q + y
      BY <1>2, <1>3, <3>2
    <3> HIDE DEF p, q
    <3>4. QED
      BY <1>1, <1>2, <1>3, <3>3
  <2>2. QED
    BY <1>2, <1>3, <2>1
<1>6. b = i * s + x
  BY <1>1, <1>2, Multiples
<1>7. QED
  BY <1>1, <1>2, <1>3, <1>4, <1>5, <1>6 DEF s

-----------------------------------------------------------------------------
(* What the invariant says of the remirror process *)

\* The block at a place of a section.
Place(section, index) == section * SectionSize + index

\* A process at work has a block of its section that is not valid yet; one that
\* found no difference has passed over valid blocks only.  With a mirror left
\* (any), what is not valid is a block of the group.
ControlOK(c, any) ==
  /\ c.state = "none" => c = NoControl
  /\ c.section <= TopSection
  /\ c.state = "finish" => c.section = 0
  /\ c.step = "poll" => c.buffer = NoData /\ c.at = 1
  /\ c.step # "poll" => /\ c.state \in {"validate", "remirror"}
                        /\ c.index < SectionSize /\ c.index \notin c.valid
  /\ c.step = "write" => c.state = "remirror" /\ c.buffer # NoData
  /\ c.step \in {"read", "write"} => c.at \in Members
  /\ c.step \in {"read", "write"} \/ c.buffer # NoData => Place(c.section, c.index) < Blocks
  /\ c.state = "validate" /\ ~c.check =>
       \A i \in 0 .. SectionSize - 1 : i < c.index => i \in c.valid
  /\ c.state = "update" => \A i \in 0 .. SectionSize - 1 : i \in c.valid
  /\ any =>
       \A i \in 0 .. SectionSize - 1 :
         /\ i \notin c.valid
         /\ c.state = "remirror" \/ (c.state = "validate" /\ i < c.index)
         => Place(c.section, i) < Blocks

ControlInv == ControlOK(control, AnyMirror)

LEMMA Constants ==
  /\ N \in Nat /\ N > 1 /\ SectionSize \in Nat /\ SectionSize > 0
  /\ Blocks \in Nat /\ Blocks > 0 /\ MaxWrites \in Nat /\ MaxFailures \in Nat /\ MaxCrashes \in Nat
  /\ TopSection \in Nat /\ Out = TopSection + 2
  /\ Section = 0 .. TopSection + 2
  /\ Data = 0 .. MaxWrites /\ NoData = MaxWrites + 1 /\ Members = 1 .. N
<1>1. TopSection \in Nat
  BY MirrorConstants, Division DEF TopSection
<1>2. QED
  BY <1>1, MirrorConstants DEF Out, Section, Data, NoData, Members

\* Nothing is left to do of the section, or the first block that is not valid.
LEMMA SkipFacts ==
  ASSUME NEW c \in Control
  PROVE  \/ \E i \in c.index .. SectionSize - 1 :
              /\ i \notin c.valid /\ \A j \in c.index .. i - 1 : j \in c.valid
              /\ SkipValid(c) = [c EXCEPT !.index = i]
         \/ /\ \A j \in c.index .. SectionSize - 1 : j \in c.valid
            /\ SkipValid(c) = Done(c, IF c.state = "remirror" THEN "validate"
                                      ELSE IF c.check THEN "remirror" ELSE "update")
<1> DEFINE todo == {i \in c.index .. SectionSize - 1 : i \notin c.valid}
<1>1. c.index \in Nat /\ SectionSize \in Nat
  BY Constants DEF Control
<1>2. SkipValid(c) = IF todo # {} THEN [c EXCEPT !.index = Least(todo)]
                     ELSE IF c.state = "remirror" THEN Done(c, "validate")
                     ELSE Done(c, IF c.check THEN "remirror" ELSE "update")
  BY DEF SkipValid, Least
<1>3. CASE todo = {}
  BY <1>2, <1>3
<1>4. CASE todo # {}
  <2>1. todo \subseteq Nat
    BY <1>1
  <2>2. Least(todo) \in todo /\ \A k \in todo : Least(todo) <= k
    BY <1>4, <2>1, LeastIn
  <2>3. \A j \in c.index .. Least(todo) - 1 : j \in c.valid
    BY <1>1, <2>1, <2>2
  <2>4. QED
    BY <1>2, <1>4, <2>2, <2>3
<1>5. QED
  BY <1>3, <1>4

LEMMA DoneIn ==
  ASSUME NEW c \in Control, NEW s \in {"none", "validate", "remirror", "update", "finish"}
  PROVE  /\ Done(c, s) \in Control /\ Done(c, s).state = s /\ Done(c, s).step = "poll"
         /\ Done(c, s).index = 0 /\ ~Done(c, s).check /\ Done(c, s).buffer = NoData
         /\ Done(c, s).at = 1
         /\ Done(c, s).section = c.section /\ Done(c, s).valid = c.valid
         /\ Done(c, s).abort = c.abort
<1>1. 0 \in 0 .. SectionSize /\ 1 \in 1 .. N + 1 /\ 0 \in 0 .. N
  BY Constants
<1>2. Done(c, s) \in Control
  BY <1>1 DEF Done, Control
<1>3. QED
  BY <1>2 DEF Done, Control

LEMMA DoneOK ==
  ASSUME NEW c \in Control, NEW s \in {"validate", "remirror", "update"}, NEW any,
         c.section <= TopSection,
         s = "update" => \A i \in 0 .. SectionSize - 1 : i \in c.valid,
         s = "remirror" /\ any => \A i \in 0 .. SectionSize - 1 :
                                     i \notin c.valid => Place(c.section, i) < Blocks
  PROVE  Done(c, s) \in Control /\ ControlOK(Done(c, s), any)
<1> DEFINE d == Done(c, s)
<1>1. /\ d \in Control /\ d.state = s /\ d.step = "poll" /\ d.index = 0 /\ ~d.check
      /\ d.buffer = NoData /\ d.at = 1 /\ d.section = c.section /\ d.valid = c.valid
  BY DoneIn
<1> HIDE DEF d
<1>2. ControlOK(d, any)
  BY <1>1, Constants DEF ControlOK, Control
<1>3. QED
  BY <1>1, <1>2 DEF d

\* A process that goes on to the next block or the next state.
LEMMA SkipOK ==
  ASSUME NEW c \in Control, NEW any, c.state \in {"validate", "remirror"},
         c.section <= TopSection, c.step = "poll", c.buffer = NoData, c.at = 1,
         c.state = "validate" /\ ~c.check =>
           \A i \in 0 .. SectionSize - 1 : i < c.index => i \in c.valid,
         any => \A i \in 0 .. SectionSize - 1 :
                  /\ i \notin c.valid
                  /\ c.state = "remirror" \/ i < c.index
                  => Place(c.section, i) < Blocks
  PROVE  /\ SkipValid(c) \in Control /\ ControlOK(SkipValid(c), any)
         /\ SkipValid(c).state \in {"validate", "remirror", "update"}
         /\ SkipValid(c).step = "poll" /\ SkipValid(c).buffer = NoData
         /\ SkipValid(c).at = 1
         /\ SkipValid(c).section = c.section /\ SkipValid(c).valid = c.valid
         /\ SkipValid(c).state = c.state =>
              /\ SkipValid(c).index < SectionSize /\ SkipValid(c).index \notin c.valid
<1> DEFINE d == SkipValid(c)
<1>1. CASE \E i \in c.index .. SectionSize - 1 :
              /\ i \notin c.valid /\ \A j \in c.index .. i - 1 : j \in c.valid
              /\ SkipValid(c) = [c EXCEPT !.index = i]
  <2>1. PICK i \in c.index .. SectionSize - 1 :
              /\ i \notin c.valid /\ \A j \in c.index .. i - 1 : j \in c.valid
              /\ d = [c EXCEPT !.index = i]
    BY <1>1
  <2>0. c.index \in Nat /\ SectionSize \in Nat
    BY Constants DEF Control
  <2>2. c.index \in Nat /\ i \in Nat /\ SectionSize \in Nat /\ c.index <= i /\ i < SectionSize
    BY <2>0
  <2>3. /\ d \in Control /\ d.state = c.state /\ d.step = "poll" /\ d.index = i /\ d.check = c.check
        /\ d.buffer = NoData /\ d.at = 1 /\ d.section = c.section /\ d.valid = c.valid
    BY <2>1, <2>2 DEF Control
  <2> HIDE DEF d
  <2>4. \A j \in 0 .. SectionSize - 1 : j < i /\ j \notin c.valid => j < c.index
    BY <2>1, <2>2
  <2>5. /\ d.state = "validate" /\ ~d.check =>
             \A j \in 0 .. SectionSize - 1 : j < d.index => j \in d.valid
        /\ any => \A j \in 0 .. SectionSize - 1 :
             /\ j \notin d.valid
             /\ d.state = "remirror" \/ (d.state = "validate" /\ j < d.index)
             => Place(d.section, j) < Blocks
    BY <2>3, <2>4
  <2>6. ControlOK(d, any)
    BY <2>3, <2>5 DEF ControlOK
  <2>7. QED
    BY <2>1, <2>2, <2>3, <2>6 DEF d
<1>2. CASE /\ \A j \in c.index .. SectionSize - 1 : j \in c.valid
           /\ d = Done(c, IF c.state = "remirror" THEN "validate"
                          ELSE IF c.check THEN "remirror" ELSE "update")
  <2> DEFINE s == IF c.state = "remirror" THEN "validate"
                  ELSE IF c.check THEN "remirror" ELSE "update"
  <2>1. s \in {"validate", "remirror", "update"} /\ d = Done(c, s) /\ s # c.state
    BY <1>2
  <2>2. c.index \in Nat /\ SectionSize \in Nat
    BY Constants DEF Control
  <2>3. \A i \in 0 .. SectionSize - 1 : i \notin c.valid => i < c.index
    BY <1>2, <2>2
  <2>4. /\ s = "update" => c.state = "validate" /\ ~c.check
        /\ s = "remirror" => c.state = "validate"
    OBVIOUS
  <2> HIDE DEF s
  <2>5. /\ s = "update" => \A i \in 0 .. SectionSize - 1 : i \in c.valid
        /\ s = "remirror" /\ any => \A i \in 0 .. SectionSize - 1 :
                                       i \notin c.valid => Place(c.section, i) < Blocks
    BY <2>3, <2>4
  <2>6. Done(c, s) \in Control /\ ControlOK(Done(c, s), any)
    BY <2>1, <2>5, DoneOK
  <2>7. /\ Done(c, s).state = s /\ Done(c, s).step = "poll" /\ Done(c, s).buffer = NoData
        /\ Done(c, s).at = 1
        /\ Done(c, s).section = c.section /\ Done(c, s).valid = c.valid
    BY DEF Done, Control
  <2>8. QED
    BY <2>1, <2>6, <2>7
<1>3. QED
  BY <1>1, <1>2, SkipFacts

\* How a process goes on after a block.
Onward(c, d, any) ==
  /\ d \in Control /\ ControlOK(d, any)
  /\ d.state \in {"validate", "remirror", "update"}
  /\ d.step = "poll" /\ d.buffer = NoData /\ d.at = 1 /\ d.section = c.section

LEMMA NextBlockOK ==
  ASSUME NEW c \in Control, NEW any, c.state \in {"validate", "remirror"},
         c.section <= TopSection, c.index < SectionSize,
         c.state = "validate" /\ ~c.check =>
           \A i \in 0 .. SectionSize - 1 : i <= c.index => i \in c.valid,
         any => \A i \in 0 .. SectionSize - 1 :
                  /\ i \notin c.valid
                  /\ c.state = "remirror" \/ i <= c.index
                  => Place(c.section, i) < Blocks
  PROVE  Onward(c, NextBlock(c), any) /\ NextBlock(c).valid = c.valid
<1> DEFINE e == [c EXCEPT !.index = @ + 1, !.step = "poll", !.at = 1, !.from = 0,
                          !.buffer = NoData, !.seen = {}]
<1>1. c.index \in Nat
  BY Constants DEF Control
<1>2. c.index + 1 \in 0 .. SectionSize /\ 1 \in 1 .. N + 1 /\ 0 \in 0 .. N
  BY <1>1, Constants
<1>3. /\ e.state = c.state /\ e.step = "poll" /\ e.index = c.index + 1
      /\ e.check = c.check /\ e.buffer = NoData /\ e.at = 1 /\ e.section = c.section /\ e.valid = c.valid
  BY DEF Control
<1>4. e \in Control
  BY <1>2 DEF Control
<1>5. NextBlock(c) = SkipValid(e)
  BY DEF NextBlock
<1> HIDE DEF e
<1>6. \A i \in 0 .. SectionSize - 1 : i < e.index <=> i <= c.index
  BY <1>1, <1>3
<1>7. e.state = "validate" /\ ~e.check =>
        \A i \in 0 .. SectionSize - 1 : i < e.index => i \in e.valid
  BY <1>3, <1>6
<1>8. any => \A i \in 0 .. SectionSize - 1 :
               i \notin e.valid /\ (e.state = "remirror" \/ i < e.index) => Place(e.section, i) < Blocks
  BY <1>3, <1>6
<1>9. QED
  BY <1>3, <1>4, <1>5, <1>7, <1>8, SkipOK DEF Onward

\* The three ends of the work on a block.
LEMMA BlockDone ==
  ASSUME NEW c \in Control, NEW any, ControlOK(c, any), c.step # "poll"
  PROVE  /\ c.state = "validate" =>
              /\ Onward(c, ValidBlock(c), any) /\ ValidBlock(c).valid = c.valid \union {c.index}
         /\ c.state = "validate" /\ (any => Place(c.section, c.index) < Blocks) =>
              /\ Onward(c, InvalidBlock(c), any) /\ InvalidBlock(c).valid = c.valid
         /\ c.state = "remirror" =>
              /\ Onward(c, NextBlock(c), any) /\ NextBlock(c).valid = c.valid
<1>1. /\ c.index \in 0 .. SectionSize - 1 /\ c.valid \in SUBSET (0 .. SectionSize - 1)
      /\ c.check \in BOOLEAN /\ c.section <= TopSection /\ c.index < SectionSize
      /\ c.state \in {"validate", "remirror"} /\ c.index \in Nat
  BY Constants DEF ControlOK, Control
<1>0. \A i \in 0 .. SectionSize - 1 : i <= c.index <=> i < c.index \/ i = c.index
  BY <1>1
<1>2. ASSUME c.state = "validate"
      PROVE  Onward(c, ValidBlock(c), any) /\ ValidBlock(c).valid = c.valid \union {c.index}
  <2> DEFINE e == [c EXCEPT !.valid = @ \union {c.index}]
  <2>1. c.valid \union {c.index} \in SUBSET (0 .. SectionSize - 1)
    BY <1>1
  <2>2. /\ e \in Control /\ e.state = "validate" /\ e.section = c.section /\ e.index = c.index
        /\ e.check = c.check /\ e.valid = c.valid \union {c.index}
    BY <1>2, <2>1 DEF Control
  <2>3. ValidBlock(c) = NextBlock(e)
    BY DEF ValidBlock
  <2> HIDE DEF e
  <2>4. e.state = "validate" /\ ~e.check =>
          \A i \in 0 .. SectionSize - 1 : i <= e.index => i \in e.valid
    BY <1>0, <1>2, <2>2 DEF ControlOK
  <2>5. any => \A i \in 0 .. SectionSize - 1 :
                 i \notin e.valid /\ (e.state = "remirror" \/ i <= e.index) => Place(e.section, i) < Blocks
    BY <1>0, <1>2, <2>2 DEF ControlOK
  <2>6. Onward(e, NextBlock(e), any) /\ NextBlock(e).valid = e.valid
    BY <1>1, <2>2, <2>4, <2>5, NextBlockOK
  <2>7. QED
    BY <2>2, <2>3, <2>6 DEF Onward
<1>3. ASSUME c.state = "validate", any => Place(c.section, c.index) < Blocks
      PROVE  Onward(c, InvalidBlock(c), any) /\ InvalidBlock(c).valid = c.valid
  <2> DEFINE e == [c EXCEPT !.check = TRUE]
  <2>1. /\ e \in Control /\ e.state = "validate" /\ e.section = c.section /\ e.index = c.index
        /\ e.check /\ e.valid = c.valid
    BY <1>3 DEF Control
  <2>2. InvalidBlock(c) = NextBlock(e)
    BY DEF InvalidBlock
  <2> HIDE DEF e
  <2>3. any => \A i \in 0 .. SectionSize - 1 :
                 i \notin e.valid /\ (e.state = "remirror" \/ i <= e.index) => Place(e.section, i) < Blocks
    BY <1>0, <1>3, <2>1 DEF ControlOK
  <2>4. Onward(e, NextBlock(e), any) /\ NextBlock(e).valid = e.valid
    BY <1>1, <2>1, <2>3, NextBlockOK
  <2>5. QED
    BY <2>1, <2>2, <2>4 DEF Onward
<1>4. ASSUME c.state = "remirror"
      PROVE  Onward(c, NextBlock(c), any) /\ NextBlock(c).valid = c.valid
  <2>1. any => \A i \in 0 .. SectionSize - 1 : i \notin c.valid => Place(c.section, i) < Blocks
    BY <1>4 DEF ControlOK
  <2>2. QED
    BY <1>1, <1>4, <2>1, NextBlockOK
<1>5. QED
  BY <1>2, <1>3, <1>4

LEMMA AbortedOK ==
  ASSUME NEW c \in Control, NEW any, ControlOK(c, any), c.step # "poll"
  PROVE  /\ Aborted(c) \in Control /\ ControlOK(Aborted(c), any)
         /\ Aborted(c).state = c.state /\ Aborted(c).step = "poll" /\ Aborted(c).buffer = NoData
         /\ Aborted(c).section = c.section /\ Aborted(c).valid = c.valid
<1>1. c.state \in {"validate", "remirror"} /\ c.section <= TopSection
  BY DEF ControlOK
<1> DEFINE e == Done(c, c.state)
           d == [e EXCEPT !.abort = TRUE]
<1>0. d = Aborted(c)
  BY DEF Aborted
<1>2. /\ d \in Control /\ d.state = c.state /\ d.step = "poll" /\ d.index = 0
      /\ d.buffer = NoData /\ d.at = 1 /\ d.section = c.section /\ d.valid = c.valid
  <2>1. /\ e \in Control /\ e.state = c.state /\ e.step = "poll" /\ e.index = 0
        /\ e.buffer = NoData /\ e.at = 1 /\ e.section = c.section /\ e.valid = c.valid
    BY <1>1, DoneIn
  <2> HIDE DEF e
  <2>2. QED
    BY <2>1 DEF Control
<1> HIDE DEF d
<1>3. ControlOK(d, any)
  BY <1>1, <1>2, Constants DEF ControlOK, Control
<1>4. QED
  BY <1>0, <1>2, <1>3

-----------------------------------------------------------------------------
(* What it says of the group and of the write of the volume *)

\* The members in synch that are present.
InSynch == {m \in Present : member[m].insynch}

\* What a group that is down has forgotten.
Forgotten ==
  /\ group = NoGroup /\ control = NoControl /\ client = NoClient /\ ~mounted /\ missed = {}
  /\ \A m \in Members : ~member[m].present

\* The mount and the remirror process hold the group open.
OpensCounted ==
  group.opens = (IF mounted THEN 1 ELSE 0) + (IF control.state # "none" THEN 1 ELSE 0)

\* A group is active as long as a member in synch is there; once it is not,
\* one of those that went was never marked.
ActiveExact ==
  /\ group.active => InSynch # {}
  /\ ~exposed /\ InSynch # {} => group.active
  /\ mounted => group.active
  /\ up /\ ~group.active => \E m \in Members \ Present : group.sector.log[m] # Out

\* A member in synch is not marked, and a mark is on disk.
MarksKept ==
  /\ \A m \in InSynch : group.sector.log[m] # Out
  /\ up => \A m \in Members : group.sector.log[m] = Out => saved.log[m] = Out

\* Devices that respond are present, and who missed a write is absent.
GroupInv ==
  /\ ~up => Forgotten
  /\ up => online \subseteq Present /\ online # {} /\ missed \subseteq Members \ Present
  /\ OpensCounted /\ ActiveExact /\ MarksKept

\* A write in flight may be read.
ClientInv ==
  /\ client.success < client.at
  /\ client.op = "write" => client.value \in good[client.block]

LEMMA PresentFacts ==
  ASSUME TypeOK
  PROVE  /\ Present \subseteq Members /\ InSynch \subseteq Present
         /\ Members \subseteq Nat /\ IsFiniteSet(Present) /\ Cardinality(Present) \in Nat
<1>1. Members \subseteq Nat /\ Present \subseteq Members /\ InSynch \subseteq Present
  BY Constants DEF Present, InSynch
<1>2. IsFiniteSet(Members)
  BY FS_Interval, Constants
<1>3. QED
  BY <1>1, <1>2, FS_Subset, FS_CardinalityType

LEMMA NextPresentIn ==
  ASSUME TypeOK, NEW from \in 1 .. N + 1
  PROVE  /\ NextPresent(from) \in from .. N + 1
         /\ NextPresent(from) <= N => NextPresent(from) \in Present
         /\ NextPresent(from) = N + 1 => \A k \in Present : k < from
         /\ \A k \in Present : k >= from => k >= NextPresent(from)
<1> DEFINE ms == {m \in Present : m >= from}
<1>1. ms \subseteq Nat /\ ms \subseteq Present /\ \A m \in ms : m \in from .. N
  BY PresentFacts, Constants
<1>2. NextPresent(from) = IF ms = {} THEN N + 1 ELSE Least(ms)
  BY DEF NextPresent, Least
<1>3. CASE ms = {}
  <2>1. \A k \in Present : k \in 1 .. N /\ ~(k >= from)
    BY <1>3, PresentFacts, Constants
  <2>2. QED
    BY <1>2, <1>3, <2>1, Constants
<1>4. CASE ms # {}
  <2>1. Least(ms) \in ms /\ \A k \in ms : Least(ms) <= k
    BY <1>1, <1>4, LeastIn
  <2> DEFINE l == Least(ms)
  <2>2. l \in from .. N /\ l \in Present /\ \A k \in Present : k >= from => k >= l
    BY <1>1, <2>1
  <2> HIDE DEF l
  <2>3. NextPresent(from) = l
    BY <1>2, <1>4 DEF l
  <2> HIDE DEF ms
  <2>4. l # N + 1 /\ l \in from .. N + 1
    BY <2>2, Constants
  <2>5. QED
    BY <2>2, <2>3, <2>4
<1>5. QED
  BY <1>3, <1>4

\* Members do not come back while the group is up, so the mirror is not made
\* from what is one member.
LEMMA MirrorGoes ==
  ASSUME TypeOK, TypeOK', Present' \subseteq Present
  PROVE  AnyMirror' => AnyMirror
<1>1. IsFiniteSet(Present) /\ Cardinality(Present) \in Nat
  BY PresentFacts
<1>2. IsFiniteSet(Present') /\ Cardinality(Present') \in Nat
  BY <1>1, FS_Subset, FS_CardinalityType
<1>3. Cardinality(Present') <= Cardinality(Present)
  BY <1>1, FS_Subset
<1>4. AnyMirror' <=> Cardinality(Present') > 1
  BY DEF AnyMirror
<1>5. QED
  BY <1>1, <1>2, <1>3, <1>4 DEF AnyMirror

LEMMA FewerMirrors ==
  ASSUME ControlInv, AnyMirror' => AnyMirror, control' = control
  PROVE  ControlInv'
  BY DEF ControlInv, ControlOK

LEMMA SectorFields ==
  ASSUME TypeOK
  PROVE  /\ group.sector.log \in [Members -> Section] /\ saved.log \in [Members -> Section]
         /\ group.sector \in MirrorSector /\ group.opens \in 0 .. 2
  BY DEF TypeOK, GroupState, MirrorSector

\* The four ways in which a group changes hands.
LEMMA OpenFacts ==
  ASSUME TypeOK, group.opens < 2
  PROVE  /\ Opened(group) \in GroupState
         /\ Opened(group).opens = group.opens + 1 /\ Opened(group).active = group.active
         /\ Opened(group).modifyCheck = group.modifyCheck
         /\ Opened(group).sector.log = group.sector.log
<1> DEFINE status == IF group.opens = 0 THEN "opened" ELSE group.sector.status
<1>1. group.opens + 1 \in 0 .. 2 /\ status \in {"closed", "opened", "check"}
  BY DEF TypeOK, GroupState, MirrorSector
<1>2. Opened(group) = [group EXCEPT !.opens = group.opens + 1, !.sector.status = status]
  BY DEF Opened
<1> HIDE DEF status
<1>3. group \in GroupState
  BY DEF TypeOK
<1> DEFINE o == Opened(group)
<1>4. /\ o.opens = group.opens + 1 /\ o.active = group.active /\ o.modifyCheck = group.modifyCheck
      /\ o.sector.log = group.sector.log
  BY <1>2, <1>3 DEF GroupState, MirrorSector
<1>5. o \in GroupState
  <2> DEFINE sector == [group.sector EXCEPT !.status = status]
             opens  == group.opens + 1
  <2>1. sector \in MirrorSector /\ opens \in 0 .. 2
    BY <1>1, <1>3 DEF GroupState, MirrorSector
  <2>2. o = [group EXCEPT !.opens = opens, !.sector = sector]
    BY <1>2, <1>3 DEF GroupState
  <2> HIDE DEF sector, opens, o
  <2>3. QED
    BY <1>3, <2>1, <2>2 DEF GroupState
<1>6. QED
  BY <1>4, <1>5

LEMMA CloseFacts ==
  ASSUME TypeOK, NEW g \in GroupState, g.opens > 0, CloseGroup(g)
  PROVE  /\ group' \in GroupState /\ group'.opens = g.opens - 1 /\ group'.active = g.active
         /\ group'.modifyCheck = g.modifyCheck /\ group'.sector.log = g.sector.log
         /\ saved' \in MirrorSector /\ holders' \subseteq Members
         /\ saved' = saved \/ saved'.log = g.sector.log
<1> DEFINE status == IF g.opens > 1 THEN g.sector.status ELSE IF g.check THEN "check" ELSE "closed"
<1>1. g.opens - 1 \in 0 .. 2 /\ status \in {"closed", "opened", "check"}
  BY DEF GroupState, MirrorSector
<1>2. group' = [g EXCEPT !.opens = g.opens - 1, !.sector.status = status]
  BY DEF CloseGroup, Closed
<1> HIDE DEF status
<1>3. /\ group' \in GroupState /\ group'.opens = g.opens - 1 /\ group'.active = g.active
      /\ group'.modifyCheck = g.modifyCheck /\ group'.sector.log = g.sector.log
      /\ group'.sector \in MirrorSector
  BY <1>1, <1>2 DEF GroupState, MirrorSector
<1>4. \/ saved' = group'.sector /\ holders' = Present \intersect online
      \/ saved' = saved /\ holders' = holders
  BY DEF CloseGroup, Flush
<1>5. QED
  BY <1>3, <1>4 DEF TypeOK

LEMMA MarkFacts ==
  ASSUME TypeOK, MarkAbsent
  PROVE  /\ group' \in GroupState /\ group'.opens = group.opens /\ group'.active = group.active
         /\ member' \in [Members -> MemberState] /\ Present' = Present /\ InSynch' = InSynch
         /\ saved' \in MirrorSector /\ holders' \subseteq Members /\ missed' \subseteq Members
         /\ \A m \in Members : m \in Present => member'[m] = member[m]
         /\ \/ /\ group.active /\ Members \ Present # {} /\ missed' = {}
               /\ group'.sector.log = [m \in Members |-> IF m \in Present THEN group.sector.log[m] ELSE Out]
               /\ saved' = group'.sector
            \/ /\ ~group.active \/ Members \ Present = {}
               /\ missed' = missed /\ saved' = saved /\ group'.sector = group.sector
               /\ member' = member
         /\ ~group'.modifyCheck
<1> DEFINE absent == Members \ Present
           log    == [m \in Members |-> IF m \in absent THEN Out ELSE group.sector.log[m]]
<1>1. Out \in Section /\ log \in [Members -> Section]
  BY SectorFields, Constants
<1>2. CASE group.active /\ absent # {}
  <2>1. /\ group' = [group EXCEPT !.modifyCheck = FALSE, !.sector.log = log]
        /\ member' = [m \in Members |->
                IF m \in absent THEN [member[m] EXCEPT !.insynch = FALSE, !.section = Out]
                ELSE member[m]]
        /\ saved' = group'.sector /\ holders' = Present \intersect online /\ missed' = {}
    BY <1>2 DEF MarkAbsent, Flush
  <2>2. log = [m \in Members |-> IF m \in Present THEN group.sector.log[m] ELSE Out]
    OBVIOUS
  <2> HIDE DEF log
  <2>3. /\ group' \in GroupState /\ group'.opens = group.opens /\ group'.active = group.active
        /\ group'.sector.log = log /\ ~group'.modifyCheck /\ group'.sector \in MirrorSector
    BY <1>1, <2>1 DEF TypeOK, GroupState, MirrorSector
  <2>4. /\ member' \in [Members -> MemberState]
        /\ \A m \in Members : /\ member'[m].present = member[m].present
                              /\ m \in Present => member'[m] = member[m]
    BY <1>1, <2>1 DEF TypeOK, MemberState
  <2>5. Present' = Present
    BY <2>4 DEF Present
  <2>6. InSynch' = InSynch
    BY <2>4, <2>5, PresentFacts DEF InSynch
  <2>7. holders' \subseteq Members
    BY <2>1, PresentFacts
  <2>8. QED
    BY <1>2, <2>1, <2>2, <2>3, <2>4, <2>5, <2>6, <2>7
<1>3. CASE ~(group.active /\ absent # {})
  <2>1. /\ group' = [group EXCEPT !.modifyCheck = FALSE]
        /\ saved' = saved /\ holders' = holders /\ member' = member /\ missed' = missed
    BY <1>3 DEF MarkAbsent
  <2>2. /\ group' \in GroupState /\ group'.opens = group.opens /\ group'.active = group.active
        /\ group'.sector = group.sector /\ ~group'.modifyCheck
    BY <2>1 DEF TypeOK, GroupState
  <2>3. Present' = Present /\ InSynch' = InSynch
    BY <2>1 DEF Present, InSynch
  <2>4. QED
    BY <1>3, <2>1, <2>2, <2>3 DEF TypeOK
<1>4. QED
  BY <1>2, <1>3

LEMMA OfflineFacts ==
  ASSUME TypeOK, OpensCounted, NEW m \in Members, Offline(m)
  PROVE  /\ group' \in GroupState /\ group'.sector.log = group.sector.log /\ group'.modifyCheck
         /\ member' \in [Members -> MemberState]
         /\ Present' = Present \ {m} /\ InSynch' = InSynch \ {m}
         /\ \A k \in Members : member'[k].insynch = member[k].insynch
         /\ \A k \in Members : member'[k].section = member[k].section \/ k \in InSynch'
         /\ group'.active <=> group.active /\ InSynch' # {}
         /\ mounted' \in BOOLEAN
         /\ group.opens - group'.opens = (IF mounted THEN 1 ELSE 0) - (IF mounted' THEN 1 ELSE 0)
         /\ mounted' => mounted /\ (group'.active \/ ~group.active)
         /\ saved' \in MirrorSector /\ holders' \subseteq Members
         /\ saved' = saved \/ saved'.log = group.sector.log
<1> DEFINE left   == [member EXCEPT ![m].present = FALSE, ![m].remirroring = FALSE]
           able   == {k \in Members : left[k].present /\ left[k].insynch}
           sure   == {k \in Members : left[k].insynch /\ left[k].section = 0}
           chosen == Least(able)
           close  == able = {} /\ group.active /\ mounted
           g      == [group EXCEPT !.modifyCheck = TRUE, !.active = @ /\ able # {}]
<1>1. /\ member' = IF able # {} /\ sure = {} THEN [left EXCEPT ![chosen].section = 0] ELSE left
      /\ mounted' = (mounted /\ ~close)
      /\ IF close THEN CloseGroup(g) ELSE group' = g /\ UNCHANGED <<saved, holders>>
  BY DEF Offline, Least
<1>2. /\ left \in [Members -> MemberState]
      /\ \A k \in Members : /\ left[k].present <=> member[k].present /\ k # m
                            /\ left[k].insynch = member[k].insynch
                            /\ left[k].section = member[k].section
  BY DEF TypeOK, MemberState
<1>3. able = InSynch \ {m}
  BY <1>2 DEF InSynch, Present
<1>4. able # {} => chosen \in able
  <2>1. able \subseteq Nat
    BY Constants
  <2>2. QED
    BY <2>1, LeastIn
<1> HIDE DEF left, chosen
<1>5. able \subseteq Members /\ 0 \in Section
  BY Constants
<1>6. /\ member' \in [Members -> MemberState]
      /\ \A k \in Members : /\ member'[k].present <=> member[k].present /\ k # m
                            /\ member'[k].insynch = member[k].insynch
                            /\ member'[k].section = member[k].section \/ k \in able
  <2>1. CASE able # {} /\ sure = {}
    <3>1. member' = [left EXCEPT ![chosen].section = 0] /\ chosen \in able /\ chosen \in Members
      BY <1>1, <1>4, <1>5, <2>1
    <3> HIDE DEF able, sure
    <3>2. QED
      BY <1>2, <1>5, <3>1 DEF MemberState
  <2>2. CASE ~(able # {} /\ sure = {})
    <3>1. member' = left
      BY <1>1, <2>2
    <3>2. QED
      BY <1>2, <3>1
  <2>3. QED
    BY <2>1, <2>2
<1>7. Present' = Present \ {m}
  BY <1>6 DEF Present
<1>8. InSynch' = InSynch \ {m}
  BY <1>6, <1>7 DEF InSynch, Present
<1> HIDE DEF able
<1>9. /\ g \in GroupState /\ g.opens = group.opens /\ g.modifyCheck
      /\ g.active <=> group.active /\ able # {}
      /\ g.sector = group.sector
  BY DEF TypeOK, GroupState
<1> HIDE DEF g
<1>10. close => g.opens > 0
  BY <1>9 DEF OpensCounted
<1>11. mounted \in BOOLEAN /\ group.opens \in 0 .. 2
  BY DEF TypeOK, GroupState
<1>12. CASE close
  <2>1. CloseGroup(g) /\ ~mounted' /\ mounted
    BY <1>1, <1>12
  <2>2. /\ group' \in GroupState /\ group'.opens = g.opens - 1 /\ group'.active = g.active
        /\ group'.modifyCheck = g.modifyCheck /\ group'.sector.log = g.sector.log
        /\ saved' \in MirrorSector /\ holders' \subseteq Members
        /\ saved' = saved \/ saved'.log = g.sector.log
    BY <1>9, <1>10, <1>12, <2>1, CloseFacts
  <2>3. group.opens - group'.opens = 1
    BY <1>9, <1>11, <2>2
  <2>4. mounted' = FALSE
    BY <1>1, <1>12
  <2>5. mounted = TRUE /\ mounted' \in BOOLEAN
    BY <1>11, <2>1, <2>4
  <2>6. group.opens - group'.opens = (IF mounted THEN 1 ELSE 0) - (IF mounted' THEN 1 ELSE 0)
    BY <2>3, <2>4, <2>5
  <2>7. /\ group'.sector.log = group.sector.log /\ group'.modifyCheck
        /\ (group'.active <=> group.active /\ InSynch' # {})
        /\ saved' = saved \/ saved'.log = group.sector.log
    BY <1>3, <1>8, <1>9, <2>2
  <2>8. QED
    BY <1>3, <1>6, <1>7, <1>8, <2>2, <2>4, <2>5, <2>6, <2>7
<1>13. CASE ~close
  <2>1. group' = g /\ saved' = saved /\ holders' = holders /\ mounted' = mounted
    BY <1>1, <1>11, <1>13
  <2>2. mounted' => mounted /\ (group'.active \/ ~group.active)
    BY <1>9, <1>13, <2>1
  <2>3. group.opens - group'.opens = 0
    BY <1>9, <1>11, <2>1
  <2>4. saved' \in MirrorSector /\ holders' \subseteq Members /\ mounted' \in BOOLEAN
    BY <2>1 DEF TypeOK
  <2>5. QED
    BY <1>3, <1>6, <1>7, <1>8, <1>9, <2>1, <2>2, <2>3, <2>4
<1>14. QED
  BY <1>12, <1>13

-----------------------------------------------------------------------------
(* Types, control and group are kept *)

\* What is inductive without the data.
BaseInv == TypeOK /\ ControlInv /\ GroupInv /\ ClientInv

LEMMA GroupStays ==
  ASSUME GroupInv, up' = up, online' = online, member' = member, group' = group,
         mounted' = mounted, missed' = missed, saved' = saved, exposed' = exposed,
         up \/ (control' = control /\ client' = client),
         control'.state = "none" <=> control.state = "none"
  PROVE  GroupInv'
  BY DEF GroupInv, Forgotten, OpensCounted, ActiveExact, MarksKept, InSynch, Present

LEMMA OfflineGroup ==
  ASSUME TypeOK, GroupInv, up, NEW m \in Members, m \notin online, Offline(m),
         up' = up, online' = online, missed' = missed, exposed' = exposed,
         control'.state = "none" <=> control.state = "none"
  PROVE  GroupInv'
<1>1. OpensCounted
  BY DEF GroupInv
<1>2. /\ group' \in GroupState /\ group'.sector.log = group.sector.log
      /\ Present' = Present \ {m} /\ InSynch' = InSynch \ {m}
      /\ (group'.active <=> group.active /\ InSynch' # {})
      /\ group.opens - group'.opens = (IF mounted THEN 1 ELSE 0) - (IF mounted' THEN 1 ELSE 0)
      /\ (mounted' => mounted /\ (group'.active \/ ~group.active))
      /\ saved' = saved \/ saved'.log = group.sector.log
  BY <1>1, OfflineFacts
<1>3. online \subseteq Present' /\ online # {} /\ missed \subseteq Members \ Present'
  BY <1>2 DEF GroupInv
<1>4. OpensCounted'
  BY <1>1, <1>2 DEF OpensCounted, TypeOK, GroupState
<1>5. ActiveExact'
  <2>1. /\ group'.active => InSynch' # {}
        /\ ~exposed' /\ InSynch' # {} => group'.active
        /\ mounted' => group'.active
    BY <1>2 DEF GroupInv, ActiveExact
  <2>2. ASSUME ~group'.active PROVE \E k \in Members \ Present' : group'.sector.log[k] # Out
    <3>1. CASE ~group.active
      BY <1>2, <3>1 DEF GroupInv, ActiveExact
    <3>2. CASE group.active
      <4>1. InSynch \ {m} = {} /\ InSynch # {}
        BY <1>2, <2>2, <3>2 DEF GroupInv, ActiveExact
      <4>2. m \in InSynch
        BY <4>1
      <4>3. group.sector.log[m] # Out
        BY <4>2 DEF GroupInv, MarksKept
      <4>4. QED
        BY <1>2, <4>3
    <3>3. QED
      BY <3>1, <3>2
  <2>3. QED
    BY <2>1, <2>2 DEF ActiveExact
<1>6. MarksKept'
  BY <1>2 DEF GroupInv, MarksKept
<1>7. QED
  BY <1>3, <1>4, <1>5, <1>6 DEF GroupInv

LEMMA MarkGroup ==
  ASSUME TypeOK, GroupInv, up, MarkAbsent,
         up' = up, online' = online, mounted' = mounted, exposed' = exposed,
         control'.state = "none" <=> control.state = "none"
  PROVE  GroupInv'
<1>1. /\ group'.opens = group.opens /\ group'.active = group.active
      /\ Present' = Present /\ InSynch' = InSynch
      /\ \/ /\ group.active /\ missed' = {}
            /\ group'.sector.log = [m \in Members |-> IF m \in Present THEN group.sector.log[m] ELSE Out]
            /\ saved' = group'.sector
         \/ missed' = missed /\ saved' = saved /\ group'.sector = group.sector
  BY MarkFacts
<1>2. online' \subseteq Present' /\ online' # {} /\ missed' \subseteq Members \ Present'
  BY <1>1 DEF GroupInv
<1>3. OpensCounted'
  BY <1>1 DEF GroupInv, OpensCounted
<1>4. ActiveExact'
  BY <1>1 DEF GroupInv, ActiveExact
<1>5. InSynch \subseteq Present /\ Present \subseteq Members
  BY PresentFacts
<1>6. MarksKept'
  <2>1. CASE /\ group'.sector.log = [m \in Members |-> IF m \in Present THEN group.sector.log[m] ELSE Out]
             /\ saved' = group'.sector
    BY <1>1, <1>5, <2>1 DEF GroupInv, MarksKept
  <2>2. CASE saved' = saved /\ group'.sector = group.sector
    BY <1>1, <2>2 DEF GroupInv, MarksKept
  <2>3. QED
    BY <1>1, <2>1, <2>2
<1>7. QED
  BY <1>2, <1>3, <1>4, <1>5, <1>6 DEF GroupInv

\* A step of the remirror process that changes nothing else.
LEMMA RemirrorStep ==
  ASSUME BaseInv, up, RemirrorOnly, control' \in Control, ControlOK(control', AnyMirror),
         control'.state = "none" <=> control.state = "none"
  PROVE  BaseInv'
<1>1. /\ UNCHANGED <<disk, saved, holders, online, up, mounted, group, member, client>>
      /\ UNCHANGED <<writes, failures, crashes, good, missed, exposed, overrun>>
  BY DEF RemirrorOnly, durable, counters, history
<1>2. TypeOK'
  BY <1>1 DEF BaseInv, TypeOK
<1>3. AnyMirror' = AnyMirror
  BY <1>1 DEF AnyMirror, Present
<1>4. ControlInv'
  BY <1>3 DEF ControlInv
<1>5. GroupInv'
  BY <1>1, GroupStays DEF BaseInv
<1>6. QED
  BY <1>1, <1>2, <1>4, <1>5 DEF BaseInv, ClientInv

LEMMA MountBase == ASSUME BaseInv, Mount PROVE BaseInv'
<1>1. /\ up /\ client.op = "idle" /\ ~mounted /\ group.active /\ mounted' = TRUE
      /\ group' = Opened(group)
      /\ IF group.opens = 0 THEN Flush(group'.sector) ELSE UNCHANGED <<saved, holders>>
      /\ UNCHANGED <<disk, online, up, member, control, client>>
      /\ UNCHANGED <<writes, failures, crashes, good, missed, exposed, overrun>>
  BY DEF Mount, Quiet, counters, history
<1>2. group.opens < 2 /\ TypeOK
  BY <1>1 DEF BaseInv, GroupInv, OpensCounted
<1>3. /\ group' \in GroupState /\ group'.opens = group.opens + 1 /\ group'.active = group.active
      /\ group'.sector.log = group.sector.log
  BY <1>1, <1>2, OpenFacts
<1>4. /\ saved' \in MirrorSector /\ holders' \subseteq Members
      /\ saved' = saved \/ saved'.log = group.sector.log
  <2>1. \/ saved' = group'.sector /\ holders' = Present \intersect online
        \/ saved' = saved /\ holders' = holders
    BY <1>1 DEF Flush
  <2>2. group'.sector \in MirrorSector
    BY <1>3 DEF GroupState
  <2>3. QED
    BY <1>2, <1>3, <2>1, <2>2, PresentFacts DEF TypeOK
<1>5. TypeOK'
  BY <1>1, <1>2, <1>3, <1>4 DEF TypeOK
<1>6. Present' = Present /\ InSynch' = InSynch /\ AnyMirror' = AnyMirror
  BY <1>1 DEF Present, InSynch, AnyMirror
<1>7. ControlInv'
  BY <1>1, <1>6 DEF BaseInv, ControlInv
<1>8. OpensCounted'
  BY <1>1, <1>2, <1>3 DEF BaseInv, GroupInv, OpensCounted, TypeOK, GroupState
<1>9. ActiveExact' /\ MarksKept'
  BY <1>1, <1>3, <1>4, <1>6 DEF BaseInv, GroupInv, ActiveExact, MarksKept
<1>10. GroupInv'
  BY <1>1, <1>6, <1>8, <1>9 DEF BaseInv, GroupInv
<1>11. QED
  BY <1>1, <1>5, <1>7, <1>10 DEF BaseInv, ClientInv

LEMMA DismountBase == ASSUME BaseInv, Dismount PROVE BaseInv'
<1>1. /\ up /\ client.op = "idle" /\ mounted /\ mounted' = FALSE /\ CloseGroup(group)
      /\ UNCHANGED <<disk, online, up, member, control, client>>
      /\ UNCHANGED <<writes, failures, crashes, good, missed, exposed, overrun>>
  BY DEF Dismount, Quiet, counters, history
<1>2. group.opens > 0 /\ TypeOK /\ group \in GroupState
  BY <1>1 DEF BaseInv, GroupInv, OpensCounted, TypeOK
<1>3. /\ group' \in GroupState /\ group'.opens = group.opens - 1 /\ group'.active = group.active
      /\ group'.sector.log = group.sector.log
      /\ saved' \in MirrorSector /\ holders' \subseteq Members
      /\ saved' = saved \/ saved'.log = group.sector.log
  BY <1>1, <1>2, CloseFacts
<1>4. TypeOK'
  BY <1>1, <1>2, <1>3 DEF TypeOK
<1>5. Present' = Present /\ InSynch' = InSynch /\ AnyMirror' = AnyMirror
  BY <1>1 DEF Present, InSynch, AnyMirror
<1>6. ControlInv'
  BY <1>1, <1>5 DEF BaseInv, ControlInv
<1>7. OpensCounted'
  BY <1>1, <1>2, <1>3 DEF BaseInv, GroupInv, OpensCounted, GroupState
<1>8. ActiveExact' /\ MarksKept'
  BY <1>1, <1>3, <1>5 DEF BaseInv, GroupInv, ActiveExact, MarksKept
<1>9. GroupInv'
  BY <1>1, <1>5, <1>7, <1>8 DEF BaseInv, GroupInv
<1>10. QED
  BY <1>1, <1>4, <1>6, <1>9 DEF BaseInv, ClientInv

LEMMA StopBase == ASSUME BaseInv, Stop PROVE BaseInv'
<1>1. /\ up' = FALSE /\ mounted' = FALSE /\ group' = NoGroup /\ control' = NoControl
      /\ client' = NoClient /\ online' = Members /\ crashes' = crashes + 1 /\ crashes < MaxCrashes
      /\ member' = [m \in Members |-> NoMember]
      /\ exposed' = (exposed \/ missed # {}) /\ missed' = {}
      /\ UNCHANGED <<disk, saved, holders, writes, failures, good, overrun>>
  BY DEF Stop, durable
<1>2. /\ 0 \in Section /\ Out \in Section /\ 0 \in 0 .. SectionSize /\ 1 \in 1 .. N + 1
      /\ 0 \in 0 .. N /\ 0 \in Block /\ 0 \in Data /\ 0 \in 0 .. 2 /\ TopSection \in Nat
  BY Constants DEF Block
<1>3. /\ NoGroup \in GroupState /\ NoControl \in Control /\ NoClient \in Client
      /\ NoMember \in MemberState
  <2>1. NoSector \in MirrorSector
    BY <1>2 DEF NoSector, MirrorSector
  <2>2. NoControl \in Control
    BY <1>2 DEF NoControl, Control
  <2>3. QED
    BY <1>2, <2>1, <2>2 DEF NoGroup, NoClient, NoMember, GroupState, Client, MemberState
<1>4. TypeOK'
  <2>1. crashes' \in 0 .. MaxCrashes
    BY <1>1, Constants DEF BaseInv, TypeOK
  <2>2. QED
    BY <1>1, <1>3, <2>1 DEF BaseInv, TypeOK
<1>5. \A m \in Members : ~member'[m].present
  BY <1>1 DEF NoMember
<1>6. Present' = {} /\ InSynch' = {}
  BY <1>5 DEF Present, InSynch
<1>7. ControlInv'
  BY <1>1, <1>2 DEF ControlInv, ControlOK, NoControl
<1>8. OpensCounted' /\ ~group'.active
  BY <1>1 DEF OpensCounted, NoGroup, NoControl
<1>9. Forgotten'
  BY <1>1, <1>5 DEF Forgotten
<1>10. GroupInv'
  BY <1>1, <1>6, <1>8, <1>9 DEF GroupInv, ActiveExact, MarksKept
<1>11. ClientInv'
  BY <1>1 DEF ClientInv, NoClient
<1>12. QED
  BY <1>4, <1>7, <1>10, <1>11 DEF BaseInv

\* What a group is when it has been established.
LEMMA EstablishFacts ==
  ASSUME TypeOK, Establish
  PROVE  /\ online' \subseteq Members /\ Present' = online' /\ online' # {}
         /\ InSynch' = {m \in online' : saved.log[m] = 0} /\ InSynch' # {}
         /\ member' \in [Members -> MemberState]
         /\ \A m \in Members : /\ member'[m].insynch => saved.log[m] = 0
                               /\ member'[m].section \in {saved.log[m], TopSection + 1, Out}
         /\ group' \in GroupState /\ group'.active /\ group'.sector.log = saved.log
         /\ group'.opens = IF control'.state # "none" THEN 1 ELSE 0
         /\ saved' = group'.sector /\ holders' = online'
         /\ \/ control' = NoControl
            \/ control' = [NoControl EXCEPT !.state = "validate", !.section = TopSection]
         /\ ~up /\ up' /\ UNCHANGED <<disk, mounted, client, writes, failures, crashes>>
         /\ UNCHANGED <<good, missed, exposed, overrun>>
<1>1. PICK on \in SUBSET Members :
       LET dirty   == saved.status # "closed"
           insynch == {m \in on : saved.log[m] = 0}
           first   == CHOOSE m \in insynch : \A k \in insynch : m <= k
           primary == CHOOSE m \in on : \A k \in on : m <= k
           section == [m \in Members |->
                         IF dirty /\ m \in insynch \ {first} THEN Out ELSE saved.log[m]]
           rebuild == \E m \in on : section[m] # 0
           g == [active |-> TRUE, check |-> dirty /\ primary \in insynch, remirroring |-> rebuild,
                 modifyCheck |-> \E m \in Members \ on : saved.log[m] # Out,
                 opens |-> 0,
                 sector |-> [saved EXCEPT !.status = IF dirty THEN "check" ELSE "closed"]]
       IN  /\ on \intersect holders # {}
           /\ insynch # {}
           /\ online' = on
           /\ group' = IF rebuild THEN Opened(g) ELSE g
           /\ saved' = group'.sector /\ holders' = on
           /\ member' = [m \in Members |->
                [present |-> m \in on, insynch |-> m \in insynch,
                 remirroring |-> rebuild /\ m \in on,
                 section |-> IF rebuild /\ m \in on /\ section[m] = Out
                             THEN TopSection + 1 ELSE section[m]]]
           /\ control' = IF rebuild THEN [NoControl EXCEPT !.state = "validate", !.section = TopSection]
                         ELSE NoControl
  BY DEF Establish
<1> DEFINE dirty   == saved.status # "closed"
           insynch == {m \in on : saved.log[m] = 0}
           first   == CHOOSE m \in insynch : \A k \in insynch : m <= k
           primary == CHOOSE m \in on : \A k \in on : m <= k
           section == [m \in Members |->
                         IF dirty /\ m \in insynch \ {first} THEN Out ELSE saved.log[m]]
           rebuild == \E m \in on : section[m] # 0
           check   == dirty /\ primary \in insynch
           modify  == \E m \in Members \ on : saved.log[m] # Out
           sector  == [saved EXCEPT !.status = IF dirty THEN "check" ELSE "closed"]
           g == [active |-> TRUE, check |-> check, remirroring |-> rebuild,
                 modifyCheck |-> modify, opens |-> 0, sector |-> sector]
<1>2. /\ on \intersect holders # {} /\ insynch # {} /\ online' = on
      /\ group' = IF rebuild THEN Opened(g) ELSE g
      /\ saved' = group'.sector /\ holders' = on
      /\ member' = [m \in Members |->
           [present |-> m \in on, insynch |-> m \in insynch,
            remirroring |-> rebuild /\ m \in on,
            section |-> IF rebuild /\ m \in on /\ section[m] = Out
                        THEN TopSection + 1 ELSE section[m]]]
      /\ control' = IF rebuild THEN [NoControl EXCEPT !.state = "validate", !.section = TopSection]
                    ELSE NoControl
  BY <1>1
<1>3. /\ saved \in MirrorSector /\ saved.log \in [Members -> Section] /\ 0 \in Section
      /\ Out \in Section /\ TopSection + 1 \in Section
  BY SectorFields, Constants DEF TypeOK
<1>4. /\ section \in [Members -> Section]
      /\ \A m \in Members : section[m] \in {saved.log[m], Out}
  <2> HIDE DEF dirty, insynch, first
  <2>1. QED
    BY <1>3
<1>5. sector \in MirrorSector /\ sector.log = saved.log
  BY <1>3 DEF MirrorSector
<1>6. check \in BOOLEAN /\ modify \in BOOLEAN /\ rebuild \in BOOLEAN
  OBVIOUS
<1>7. insynch = {m \in on : saved.log[m] = 0}
  OBVIOUS
<1> HIDE DEF dirty, insynch, first, primary, section, rebuild, check, modify, sector
<1>8. /\ g \in GroupState /\ g.active /\ g.opens = 0 /\ g.sector = sector
  BY <1>5, <1>6, Constants DEF GroupState
<1>9. /\ group' \in GroupState /\ group'.active /\ group'.sector.log = saved.log
      /\ group'.opens = IF rebuild THEN 1 ELSE 0
  <2>1. CASE rebuild
    <3> DEFINE marked == [sector EXCEPT !.status = "opened"]
    <3>1. marked \in MirrorSector /\ marked.log = saved.log
      BY <1>5 DEF MirrorSector
    <3>2. group' = [g EXCEPT !.opens = 1, !.sector = marked]
      BY <1>2, <2>1, <1>8 DEF Opened
    <3> DEFINE e == [g EXCEPT !.opens = 1, !.sector = marked]
    <3> HIDE DEF g, marked
    <3>3. 1 \in 0 .. 2
      OBVIOUS
    <3>4. e \in GroupState /\ e.active = g.active /\ e.sector = marked /\ e.opens = 1
      BY <1>8, <3>1, <3>3 DEF GroupState
    <3> HIDE DEF e
    <3>5. group' = e
      BY <3>2 DEF e
    <3>6. QED
      BY <1>8, <2>1, <3>1, <3>4, <3>5
  <2>2. CASE ~rebuild
    BY <1>2, <1>5, <1>8, <2>2
  <2>3. QED
    BY <2>1, <2>2
<1>10. /\ member' \in [Members -> MemberState]
       /\ \A m \in Members : /\ member'[m].present <=> m \in on
                             /\ member'[m].insynch <=> m \in insynch
                             /\ member'[m].section \in {section[m], TopSection + 1}
  <2>1. \A m \in Members : (IF rebuild /\ m \in on /\ section[m] = Out
                            THEN TopSection + 1 ELSE section[m]) \in Section
    BY <1>3, <1>4
  <2> DEFINE new(m) == [present |-> m \in on, insynch |-> m \in insynch,
                        remirroring |-> rebuild /\ m \in on,
                        section |-> IF rebuild /\ m \in on /\ section[m] = Out
                                    THEN TopSection + 1 ELSE section[m]]
  <2>2. \A m \in Members : new(m) \in MemberState
    BY <2>1 DEF MemberState
  <2>3. \A m \in Members : /\ new(m).present <=> m \in on
                           /\ new(m).insynch <=> m \in insynch
                           /\ new(m).section \in {section[m], TopSection + 1}
    OBVIOUS
  <2>4. member' = [m \in Members |-> new(m)]
    BY <1>2
  <2> HIDE DEF new
  <2>5. QED
    BY <2>2, <2>3, <2>4
<1>11. Present' = on
  BY <1>10 DEF Present
<1>12. InSynch' = insynch
  BY <1>7, <1>10, <1>11 DEF InSynch
<1>13. (control'.state # "none") <=> rebuild
  BY <1>2, <1>6 DEF NoControl
<1>14. \A m \in Members : /\ member'[m].insynch => saved.log[m] = 0
                          /\ member'[m].section \in {saved.log[m], TopSection + 1, Out}
  BY <1>4, <1>7, <1>10
<1>15. on # {}
  BY <1>2
<1>16. /\ ~up /\ up' /\ UNCHANGED <<disk, mounted, client, writes, failures, crashes>>
       /\ UNCHANGED <<good, missed, exposed, overrun>>
  BY DEF Establish, counters, history
<1>17. group'.opens = IF control'.state # "none" THEN 1 ELSE 0
  BY <1>9, <1>13
<1>18. \/ control' = NoControl
       \/ control' = [NoControl EXCEPT !.state = "validate", !.section = TopSection]
  BY <1>2
<1>19. /\ online' \subseteq Members /\ Present' = online' /\ online' # {} /\ holders' = online'
       /\ InSynch' = {m \in online' : saved.log[m] = 0} /\ InSynch' # {} /\ saved' = group'.sector
  BY <1>2, <1>7, <1>11, <1>12, <1>15
<1>20. QED
  BY <1>9, <1>10, <1>14, <1>16, <1>17, <1>18, <1>19

LEMMA FirstControl ==
  ASSUME NEW any
  PROVE  LET c == [NoControl EXCEPT !.state = "validate", !.section = TopSection]
         IN  /\ NoControl \in Control /\ ControlOK(NoControl, any)
             /\ c \in Control /\ ControlOK(c, any) /\ c.state = "validate" /\ c.step = "poll"
             /\ c.section = TopSection /\ c.valid = {}
<1> DEFINE c == [NoControl EXCEPT !.state = "validate", !.section = TopSection]
<1>1. /\ TopSection \in Section /\ TopSection \in Nat /\ 0 \in 0 .. SectionSize /\ 1 \in 1 .. N + 1
      /\ 0 \in 0 .. N /\ 0 \in Section
  BY Constants
<1>2. NoControl \in Control
  BY <1>1 DEF NoControl, Control
<1>3. /\ c \in Control /\ c.state = "validate" /\ c.step = "poll" /\ c.section = TopSection
      /\ c.valid = {} /\ c.index = 0 /\ c.buffer = NoData /\ c.at = 1
  BY <1>1, <1>2 DEF NoControl, Control
<1>4. ControlOK(NoControl, any)
  BY <1>1 DEF ControlOK, NoControl
<1> HIDE DEF c
<1>5. ControlOK(c, any)
  BY <1>1, <1>3 DEF ControlOK
<1>6. QED
  BY <1>2, <1>3, <1>4, <1>5 DEF c

LEMMA EstablishBase == ASSUME BaseInv, Establish PROVE BaseInv'
<1>1. TypeOK /\ GroupInv /\ ClientInv
  BY DEF BaseInv
<1>2. /\ online' \subseteq Members /\ Present' = online' /\ online' # {}
      /\ InSynch' = {m \in online' : saved.log[m] = 0} /\ InSynch' # {}
      /\ member' \in [Members -> MemberState]
      /\ group' \in GroupState /\ group'.active /\ group'.sector.log = saved.log
      /\ group'.opens = IF control'.state # "none" THEN 1 ELSE 0
      /\ saved' = group'.sector /\ holders' = online'
      /\ \/ control' = NoControl
         \/ control' = [NoControl EXCEPT !.state = "validate", !.section = TopSection]
      /\ ~up /\ up' /\ UNCHANGED <<disk, mounted, client, writes, failures, crashes>>
      /\ UNCHANGED <<good, missed, exposed, overrun>>
  BY <1>1, EstablishFacts
<1>3. ~mounted /\ missed = {}
  BY <1>1, <1>2 DEF GroupInv, Forgotten
<1>4. control' \in Control /\ ControlOK(control', AnyMirror')
  BY <1>2, FirstControl
<1>5. saved' \in MirrorSector /\ up' \in BOOLEAN
  BY <1>2 DEF GroupState, Establish
<1>6. TypeOK'
  BY <1>1, <1>2, <1>4, <1>5 DEF TypeOK
<1>7. ControlInv'
  BY <1>4 DEF ControlInv
<1>8. OpensCounted'
  BY <1>2, <1>3 DEF OpensCounted
<1>9. 0 # Out
  BY Constants
<1>10. MarksKept'
  <2>1. \A m \in InSynch' : group'.sector.log[m] # Out
    BY <1>2, <1>9
  <2>2. \A m \in Members : group'.sector.log[m] = Out => saved'.log[m] = Out
    BY <1>2
  <2>3. QED
    BY <2>1, <2>2 DEF MarksKept
<1>11. ActiveExact'
  BY <1>2 DEF ActiveExact
<1>12. GroupInv'
  BY <1>2, <1>3, <1>8, <1>10, <1>11 DEF GroupInv
<1>13. QED
  BY <1>1, <1>2, <1>6, <1>7, <1>12 DEF BaseInv, ClientInv
LEMMA StartWriteBase == ASSUME BaseInv, NEW b \in Block, StartWrite(b) PROVE BaseInv'
<1>1. /\ up /\ client.op = "idle" /\ mounted /\ writes < MaxWrites /\ writes' = writes + 1
      /\ client' = [op |-> "write", block |-> b, value |-> writes', at |-> 1, success |-> 0]
      /\ good' = [good EXCEPT ![b] = @ \union {writes'}]
      /\ UNCHANGED <<disk, saved, holders, online, up, mounted, group, member, control>>
      /\ UNCHANGED <<failures, crashes, missed, exposed, overrun>>
  BY DEF StartWrite, Quiet, durable
<1>2. writes' \in Data /\ writes' \in 0 .. MaxWrites
  BY <1>1, Constants DEF BaseInv, TypeOK
<1>3. client' \in Client /\ good' \in [Block -> SUBSET Data]
  BY <1>1, <1>2, Constants DEF BaseInv, TypeOK, Client
<1>4. TypeOK'
  BY <1>1, <1>2, <1>3 DEF BaseInv, TypeOK
<1>5. AnyMirror' = AnyMirror
  BY <1>1 DEF AnyMirror, Present
<1>6. ControlInv'
  BY <1>1, <1>5 DEF BaseInv, ControlInv
<1>7. GroupInv'
  BY <1>1, GroupStays DEF BaseInv
<1>8. client'.value \in good'[client'.block] /\ client'.success < client'.at
  BY <1>1, <1>2 DEF BaseInv, TypeOK
<1>9. QED
  BY <1>4, <1>6, <1>7, <1>8 DEF BaseInv, ClientInv

\* What a member that is lost leaves of the invariant, whoever comes to it.
LEMMA OfflineBase ==
  ASSUME BaseInv, up, NEW m \in Members, m \notin online, Offline(m),
         UNCHANGED <<disk, online, up, writes, failures, crashes>>,
         UNCHANGED <<good, missed, exposed, overrun>>,
         control' \in Control, ControlOK(control', AnyMirror),
         control'.state = "none" <=> control.state = "none",
         client' \in Client, ClientInv'
  PROVE  BaseInv'
<1>1. TypeOK /\ GroupInv /\ OpensCounted
  BY DEF BaseInv, GroupInv
<1>2. /\ group' \in GroupState /\ member' \in [Members -> MemberState] /\ mounted' \in BOOLEAN
      /\ saved' \in MirrorSector /\ holders' \subseteq Members /\ Present' = Present \ {m}
  BY <1>1, OfflineFacts
<1>3. TypeOK'
  BY <1>1, <1>2 DEF TypeOK
<1>4. AnyMirror' => AnyMirror
  BY <1>1, <1>2, <1>3, MirrorGoes
<1>5. ControlInv'
  BY <1>4 DEF ControlInv, ControlOK
<1>6. GroupInv'
  BY <1>1, OfflineGroup
<1>7. QED
  BY <1>3, <1>5, <1>6 DEF BaseInv

LEMMA ReadLosesBase ==
  ASSUME BaseInv, NEW m \in Members, NEW b \in Block, ReadLosesMember(m, b) PROVE BaseInv'
<1>1. /\ up /\ m \notin online /\ Offline(m)
      /\ UNCHANGED <<disk, online, up, control, client, writes, failures, crashes>>
      /\ UNCHANGED <<good, missed, exposed, overrun>>
  BY DEF ReadLosesMember, counters, history
<1>2. control' \in Control /\ ControlOK(control', AnyMirror)
  BY <1>1 DEF BaseInv, TypeOK, ControlInv
<1>3. client' \in Client /\ ClientInv'
  BY <1>1 DEF BaseInv, TypeOK, ClientInv
<1>4. QED
  BY <1>1, <1>2, <1>3, OfflineBase

\* The write of the volume is at a member that is present.
LEMMA AtMember ==
  ASSUME BaseInv, client.op = "write", NextPresent(client.at) <= N
  PROVE  /\ up /\ NextPresent(client.at) \in Members /\ NextPresent(client.at) \in Present
         /\ client.at <= NextPresent(client.at) /\ NextPresent(client.at) + 1 \in 1 .. N + 1
         /\ \A k \in Present : k < NextPresent(client.at) <=> k < client.at
         /\ \A k \in Present : k < NextPresent(client.at) + 1 <=> k < client.at \/ k = NextPresent(client.at)
<1>1. up
  BY DEF BaseInv, GroupInv, Forgotten, NoClient
<1>2. TypeOK /\ client.at \in 1 .. N + 1
  BY DEF BaseInv, TypeOK, Client
<1> DEFINE m == NextPresent(client.at)
<1>3. m \in client.at .. N + 1 /\ m \in Present /\ \A k \in Present : k >= client.at => k >= m
  BY <1>2, NextPresentIn
<1> HIDE DEF m
<1>4. Present \subseteq 1 .. N /\ m \in 1 .. N /\ Present \subseteq Nat
  BY <1>2, <1>3, PresentFacts, Constants
<1>5. \A k \in Present : k < m <=> k < client.at
  BY <1>2, <1>3, <1>4
<1>6. \A k \in Present : k < m + 1 <=> k < client.at \/ k = m
  BY <1>2, <1>3, <1>4, <1>5
<1>7. QED
  BY <1>1, <1>2, <1>3, <1>4, <1>5, <1>6, Constants DEF m

\* A write that goes on to another member.
LEMMA ClientGoesOn ==
  ASSUME TypeOK, ClientInv, NEW at \in 1 .. N + 1, NEW success \in 0 .. N, success < at
  PROVE  LET c == [client EXCEPT !.at = at, !.success = success]
         IN  /\ c \in Client /\ c.op = client.op /\ c.block = client.block /\ c.value = client.value
             /\ c.at = at /\ c.success = success /\ c.success < c.at
  BY DEF TypeOK, Client

LEMMA WriteMarkBase == ASSUME BaseInv, WriteMark PROVE BaseInv'
<1> DEFINE m  == NextPresent(client.at)
           at == IF group.active THEN m ELSE m + 1
<1>1. /\ client.op = "write" /\ m <= N /\ MarkAbsent /\ client' = [client EXCEPT !.at = at]
      /\ UNCHANGED <<disk, online, up, mounted, control, writes, failures, crashes>>
      /\ UNCHANGED <<good, exposed, overrun>>
  BY DEF WriteMark, counters
<1>2. TypeOK /\ GroupInv /\ client \in Client /\ client.at \in 1 .. N + 1 /\ client.success \in 0 .. N
  BY DEF BaseInv, TypeOK, Client
<1>3. up /\ m \in Members /\ client.at <= m
  BY <1>1, AtMember
<1>4. at \in 1 .. N + 1 /\ client.success < at
  <2> HIDE DEF m
  <2>1. client.success < client.at
    BY DEF BaseInv, ClientInv
  <2>2. QED
    BY <1>2, <1>3, <2>1, Constants
<1> HIDE DEF at
<1>5. /\ client' \in Client /\ client'.op = "write" /\ client'.block = client.block
      /\ client'.value = client.value /\ client'.success < client'.at
  BY <1>1, <1>2, <1>4 DEF Client
<1>6. /\ group' \in GroupState /\ member' \in [Members -> MemberState] /\ Present' = Present
      /\ saved' \in MirrorSector /\ holders' \subseteq Members /\ missed' \subseteq Members
  BY <1>1, <1>2, MarkFacts
<1>7. TypeOK'
  BY <1>1, <1>2, <1>5, <1>6 DEF TypeOK
<1>8. ControlInv'
  BY <1>1, <1>6 DEF BaseInv, ControlInv, AnyMirror
<1>9. GroupInv'
  BY <1>1, <1>2, <1>3, MarkGroup
<1>10. ClientInv'
  BY <1>1, <1>5 DEF BaseInv, ClientInv
<1>11. QED
  BY <1>7, <1>8, <1>9, <1>10 DEF BaseInv

LEMMA WriteMemberFacts ==
  ASSUME BaseInv, WriteMember
  PROVE  LET m == NextPresent(client.at)
         IN  /\ up /\ m \in Members /\ m \in Present /\ client.op = "write" /\ client.block \in Block
             /\ disk' = [disk EXCEPT ![m][client.block] = client.value]
             /\ client' \in Client /\ client'.op = "write" /\ client'.block = client.block
             /\ client'.value = client.value /\ client'.at = m + 1
             /\ client'.success < client'.at
             /\ overrun' = overrun \ {<<m, client.block>>}
             /\ UNCHANGED <<saved, holders, online, up, mounted, group, member, control>>
             /\ UNCHANGED <<writes, failures, crashes, good, missed, exposed>>
<1> DEFINE m == NextPresent(client.at)
<1>1. /\ client.op = "write" /\ m <= N
      /\ disk' = [disk EXCEPT ![m][client.block] = client.value]
      /\ client' = [client EXCEPT !.at = m + 1, !.success = client.success + 1]
      /\ overrun' = overrun \ {<<m, client.block>>}
      /\ UNCHANGED <<saved, holders, online, up, mounted, group, member, control>>
      /\ UNCHANGED <<writes, failures, crashes, good, missed, exposed>>
  BY DEF WriteMember, counters
<1>2. client \in Client /\ client.at \in 1 .. N + 1 /\ client.success \in 0 .. N /\ client.block \in Block
  BY DEF BaseInv, TypeOK, Client
<1>3. up /\ m \in Members /\ m \in Present /\ client.at <= m /\ m + 1 \in 1 .. N + 1
  BY <1>1, AtMember
<1> HIDE DEF m
<1>4. client.success + 1 \in 0 .. N /\ client.success + 1 < m + 1
  <2>1. client.success < client.at
    BY DEF BaseInv, ClientInv
  <2>2. QED
    BY <1>2, <1>3, <2>1, Constants
<1>5. /\ client' \in Client /\ client'.op = "write" /\ client'.block = client.block
      /\ client'.value = client.value /\ client'.at = m + 1 /\ client'.success = client.success + 1
  BY <1>1, <1>2, <1>3, <1>4 DEF Client
<1>6. QED
  BY <1>1, <1>2, <1>3, <1>4, <1>5 DEF m

LEMMA WriteMemberBase == ASSUME BaseInv, WriteMember PROVE BaseInv'
<1> DEFINE m == NextPresent(client.at)
<1>1. /\ up /\ m \in Members /\ client.op = "write" /\ client.block \in Block
      /\ disk' = [disk EXCEPT ![m][client.block] = client.value]
      /\ client' \in Client /\ client'.op = "write" /\ client'.block = client.block
      /\ client'.value = client.value /\ client'.success < client'.at
      /\ overrun' = overrun \ {<<m, client.block>>}
      /\ UNCHANGED <<saved, holders, online, up, mounted, group, member, control>>
      /\ UNCHANGED <<writes, failures, crashes, good, missed, exposed>>
  BY WriteMemberFacts
<1> HIDE DEF m
<1>2. disk' \in [Members -> [Block -> Data]] /\ overrun' \subseteq Members \X Block
  BY <1>1 DEF BaseInv, TypeOK, Client
<1>3. TypeOK'
  BY <1>1, <1>2 DEF BaseInv, TypeOK
<1>4. ControlInv'
  BY <1>1 DEF BaseInv, ControlInv, AnyMirror, Present
<1>5. GroupInv'
  BY <1>1, GroupStays DEF BaseInv
<1>6. QED
  BY <1>1, <1>3, <1>4, <1>5 DEF BaseInv, ClientInv

LEMMA WriteLosesFacts ==
  ASSUME BaseInv, WriteLosesMember
  PROVE  LET m == NextPresent(client.at)
         IN  /\ up /\ m \in Members /\ m \in Present /\ m \notin online /\ Offline(m)
             /\ client.op = "write"
             /\ client' \in Client /\ client'.op = "write" /\ client'.block = client.block
             /\ client'.value = client.value /\ client'.at = m + 1
             /\ client'.success < client'.at
             /\ UNCHANGED <<disk, online, up, control, writes, failures, crashes>>
             /\ UNCHANGED <<good, missed, exposed, overrun>>
<1> DEFINE m == NextPresent(client.at)
<1>1. /\ client.op = "write" /\ m <= N /\ m \notin online /\ Offline(m)
      /\ client' = [client EXCEPT !.at = m + 1]
      /\ UNCHANGED <<disk, online, up, control, writes, failures, crashes>>
      /\ UNCHANGED <<good, missed, exposed, overrun>>
  BY DEF WriteLosesMember, counters, history
<1>2. client \in Client /\ client.at \in 1 .. N + 1 /\ client.success \in 0 .. N
  BY DEF BaseInv, TypeOK, Client
<1>3. up /\ m \in Members /\ m \in Present /\ client.at <= m /\ m + 1 \in 1 .. N + 1
  BY <1>1, AtMember
<1> HIDE DEF m
<1>4. client.success < m + 1
  <2>1. client.success < client.at
    BY DEF BaseInv, ClientInv
  <2>2. QED
    BY <1>2, <1>3, <2>1, Constants
<1>5. /\ client' \in Client /\ client'.op = "write" /\ client'.block = client.block
      /\ client'.value = client.value /\ client'.at = m + 1 /\ client'.success = client.success
  BY <1>1, <1>2, <1>3 DEF Client
<1>6. QED
  BY <1>1, <1>2, <1>3, <1>4, <1>5 DEF m

LEMMA WriteLosesBase == ASSUME BaseInv, WriteLosesMember PROVE BaseInv'
<1> DEFINE m == NextPresent(client.at)
<1>1. /\ up /\ m \in Members /\ m \notin online /\ Offline(m) /\ client.op = "write"
      /\ client' \in Client /\ client'.op = "write" /\ client'.block = client.block
      /\ client'.value = client.value /\ client'.success < client'.at
      /\ UNCHANGED <<disk, online, up, control, writes, failures, crashes>>
      /\ UNCHANGED <<good, missed, exposed, overrun>>
  BY WriteLosesFacts
<1>2. control' \in Control /\ ControlOK(control', AnyMirror)
  BY <1>1 DEF BaseInv, TypeOK, ControlInv
<1>3. ClientInv'
  BY <1>1 DEF BaseInv, ClientInv
<1> HIDE DEF m
<1>4. QED
  BY <1>1, <1>2, <1>3, OfflineBase

LEMMA NoClientFacts ==
  NoClient \in Client /\ NoClient.op = "idle" /\ NoClient.success < NoClient.at
  BY Constants DEF NoClient, Client, Block

LEMMA WriteReturnBase == ASSUME BaseInv, WriteReturn PROVE BaseInv'
<1>1. /\ client.op = "write" /\ client' = NoClient
      /\ \/ good' = [good EXCEPT ![client.block] = {client.value}]
         \/ good' = good
      /\ \/ missed' = missed \union {m \in Members \ Present : group.sector.log[m] # Out}
         \/ missed' = missed
      /\ UNCHANGED <<disk, saved, holders, online, up, mounted, group, member, control>>
      /\ UNCHANGED <<writes, failures, crashes, exposed, overrun>>
  BY DEF WriteReturn, durable, counters
<1>2. TypeOK /\ GroupInv /\ client.block \in Block /\ client.value \in Data
  BY DEF BaseInv, TypeOK, Client
<1>3. up
  BY <1>1, <1>2 DEF GroupInv, Forgotten, NoClient
<1>4. /\ good' \in [Block -> SUBSET Data] /\ missed' \subseteq Members
      /\ missed' \subseteq Members \ Present \/ ~(missed \subseteq Members \ Present)
  BY <1>1, <1>2 DEF TypeOK
<1>5. TypeOK'
  BY <1>1, <1>2, <1>4, NoClientFacts DEF TypeOK
<1>6. Present' = Present /\ InSynch' = InSynch /\ AnyMirror' = AnyMirror
  BY <1>1 DEF Present, InSynch, AnyMirror
<1>7. ControlInv'
  BY <1>1, <1>6 DEF BaseInv, ControlInv
<1>8. GroupInv'
  <2>1. OpensCounted' /\ ActiveExact' /\ MarksKept'
    BY <1>1, <1>2, <1>6 DEF GroupInv, OpensCounted, ActiveExact, MarksKept
  <2>2. QED
    BY <1>1, <1>2, <1>3, <1>4, <1>6, <2>1 DEF GroupInv
<1>9. ClientInv'
  BY <1>1, NoClientFacts DEF ClientInv
<1>10. QED
  BY <1>5, <1>7, <1>8, <1>9 DEF BaseInv

LEMMA FailDeviceBase == ASSUME BaseInv, NEW m \in Members, FailDevice(m) PROVE BaseInv'
<1>1. /\ up /\ failures < MaxFailures /\ online \ {m} # {} /\ online' = online \ {m}
      /\ failures' = failures + 1
      /\ UNCHANGED <<disk, saved, holders, up, mounted, group, member, control, client>>
      /\ UNCHANGED <<writes, crashes, good, missed, exposed, overrun>>
  BY DEF FailDevice, durable, history
<1>2. failures' \in 0 .. MaxFailures
  BY <1>1, Constants DEF BaseInv, TypeOK
<1>3. TypeOK'
  BY <1>1, <1>2 DEF BaseInv, TypeOK
<1>4. Present' = Present /\ InSynch' = InSynch /\ AnyMirror' = AnyMirror
  BY <1>1 DEF Present, InSynch, AnyMirror
<1>5. ControlInv'
  BY <1>1, <1>4 DEF BaseInv, ControlInv
<1>6. OpensCounted' /\ ActiveExact' /\ MarksKept'
  BY <1>1, <1>4 DEF BaseInv, GroupInv, OpensCounted, ActiveExact, MarksKept
<1>7. GroupInv'
  BY <1>1, <1>4, <1>6 DEF BaseInv, GroupInv
<1>8. QED
  BY <1>1, <1>3, <1>5, <1>7 DEF BaseInv, ClientInv
-----------------------------------------------------------------------------
(* The steps of the remirror process *)

LEMMA AtWork ==
  ASSUME BaseInv
  PROVE  /\ TypeOK /\ control \in Control /\ ControlOK(control, AnyMirror)
         /\ ControlBlock = Place(control.section, control.index)
         /\ control.step \in {"read", "write"} => control.at \in Members /\ ControlBlock \in Block
         /\ control.buffer # NoData => ControlBlock \in Block
<1>1. TypeOK /\ control \in Control /\ ControlOK(control, AnyMirror)
  BY DEF BaseInv, TypeOK, ControlInv
<1>2. ControlBlock = Place(control.section, control.index)
  BY DEF ControlBlock, Place
<1>3. control.section \in Nat /\ control.index \in Nat /\ SectionSize \in Nat
  BY <1>1, Constants DEF Control
<1>4. control.section * SectionSize \in Nat
  BY <1>3
<1> DEFINE first == control.section * SectionSize
<1>5. Place(control.section, control.index) = first + control.index
  BY DEF Place
<1> HIDE DEF first
<1>6. Place(control.section, control.index) \in Nat
  BY <1>3, <1>4, <1>5 DEF first
<1>7. QED
  BY <1>1, <1>2, <1>6, Constants DEF ControlOK, Block

LEMMA PollFacts ==
  ASSUME BaseInv, Poll
  PROVE  /\ up /\ RemirrorOnly /\ control.state \in {"validate", "remirror"} /\ control.step = "poll"
         /\ control' \in Control /\ ControlOK(control', AnyMirror) /\ control'.buffer = NoData
         /\ control'.state \in {"validate", "remirror", "update"} /\ control'.at = 1
         /\ control'.section = control.section /\ control'.valid = control.valid
         /\ control'.step \in {"poll", "check"}
<1>1. /\ up /\ RemirrorOnly /\ control.state \in {"validate", "remirror"} /\ control.step = "poll"
      /\ LET c == SkipValid(control)
         IN  control' = IF c.state = control.state THEN [c EXCEPT !.step = "check"] ELSE c
  BY DEF Poll, Step
<1>2. control \in Control /\ ControlOK(control, AnyMirror)
  BY AtWork
<1> DEFINE c == SkipValid(control)
<1>3. /\ c \in Control /\ ControlOK(c, AnyMirror) /\ c.state \in {"validate", "remirror", "update"}
      /\ c.step = "poll" /\ c.buffer = NoData /\ c.at = 1
      /\ c.section = control.section /\ c.valid = control.valid
      /\ c.state = control.state => c.index < SectionSize /\ c.index \notin c.valid
  BY <1>1, <1>2, SkipOK DEF ControlOK
<1>4. control' = IF c.state = control.state THEN [c EXCEPT !.step = "check"] ELSE c
  BY <1>1
<1> HIDE DEF c
<1>5. CASE c.state = control.state
  <2> DEFINE d == [c EXCEPT !.step = "check"]
  <2>1. /\ d \in Control /\ d.state = c.state /\ d.step = "check" /\ d.section = c.section
        /\ d.index = c.index /\ d.valid = c.valid /\ d.check = c.check /\ d.abort = c.abort
        /\ d.at = 1 /\ d.buffer = NoData
    BY <1>3 DEF Control
  <2>2. control' = d
    BY <1>4, <1>5
  <2> HIDE DEF d
  <2>3. ControlOK(d, AnyMirror)
    BY <1>1, <1>3, <1>5, <2>1 DEF ControlOK
  <2>4. QED
    BY <1>1, <1>3, <2>1, <2>2, <2>3
<1>6. CASE c.state # control.state
  BY <1>1, <1>3, <1>4, <1>6
<1>7. QED
  BY <1>5, <1>6

LEMMA PollBase == ASSUME BaseInv, Poll PROVE BaseInv'
<1>1. /\ up /\ RemirrorOnly /\ control' \in Control /\ ControlOK(control', AnyMirror)
      /\ control'.state # "none" /\ control.state # "none"
  BY PollFacts
<1>2. QED
  BY <1>1, RemirrorStep

\* A process at work on a block that goes on with the same block.
LEMMA SameBlock ==
  ASSUME NEW c \in Control, NEW any, ControlOK(c, any), c.step # "poll",
         NEW d \in Control, d.state = c.state, d.section = c.section, d.index = c.index,
         d.valid = c.valid, d.check = c.check, d.step # "poll",
         d.step = "write" => d.state = "remirror" /\ d.buffer # NoData,
         d.step \in {"read", "write"} => d.at \in Members,
         d.step \in {"read", "write"} \/ d.buffer # NoData => Place(d.section, d.index) < Blocks
  PROVE  ControlOK(d, any)
  BY DEF ControlOK

LEMMA ValidateCheckFacts ==
  ASSUME BaseInv, ValidateCheck
  PROVE  /\ up /\ RemirrorOnly /\ control.state = "validate" /\ control.step = "check"
         /\ control' \in Control /\ ControlOK(control', AnyMirror)
         /\ \/ /\ Onward(control, control', AnyMirror)
               /\ \/ control'.valid = control.valid
                  \/ /\ control'.valid = control.valid \union {control.index}
                     /\ \/ ControlBlock >= Blocks
                        \/ \A k \in Present : k < control.at
                     /\ ControlBlock >= Blocks \/ control.at > N \/ AnyMirror
            \/ /\ control' = [control EXCEPT !.step = "read", !.at = NextPresent(control.at)]
               /\ AnyMirror
               /\ control'.state = "validate" /\ control'.section = control.section
               /\ control'.index = control.index /\ control'.valid = control.valid
               /\ control'.buffer = control.buffer
               /\ control'.step = "read" /\ control'.at \in Present
               /\ \A k \in Present : k < control'.at <=> k < control.at
<1> DEFINE m == NextPresent(control.at)
<1>1. /\ up /\ RemirrorOnly /\ control.state = "validate" /\ control.step = "check"
      /\ control' = IF control.at > N THEN ValidBlock(control)
                    ELSE IF ~AnyMirror THEN InvalidBlock(control)
                    ELSE IF ControlBlock >= Blocks \/ m > N THEN ValidBlock(control)
                    ELSE [control EXCEPT !.step = "read", !.at = m]
  BY DEF ValidateCheck, Step
<1>2. /\ TypeOK /\ control \in Control /\ ControlOK(control, AnyMirror)
      /\ ControlBlock = Place(control.section, control.index) /\ control.at \in 1 .. N + 1
  BY AtWork DEF Control
<1>3. /\ m \in control.at .. N + 1 /\ (m <= N => m \in Present)
      /\ m = N + 1 => \A k \in Present : k < control.at
      /\ \A k \in Present : k >= control.at => k >= m
  BY <1>2, NextPresentIn
<1> HIDE DEF m
<1>4. Present \subseteq 1 .. N /\ N \in Nat
  BY <1>2, PresentFacts, Constants
<1>5. CASE control.at > N \/ (AnyMirror /\ (ControlBlock >= Blocks \/ m > N))
  <2>1. control' = ValidBlock(control)
    BY <1>1, <1>5
  <2>2. /\ Onward(control, ValidBlock(control), AnyMirror)
        /\ ValidBlock(control).valid = control.valid \union {control.index}
    BY <1>1, <1>2, BlockDone
  <2>3. ControlBlock >= Blocks \/ \A k \in Present : k < control.at
    <3>1. CASE control.at > N
      BY <1>2, <1>4, <3>1
    <3>2. CASE ControlBlock >= Blocks
      BY <3>2
    <3>3. CASE m > N
      <4>1. m = N + 1
        BY <1>2, <1>3, <1>4, <3>3
      <4>2. QED
        BY <1>3, <4>1
    <3>4. QED
      BY <1>5, <3>1, <3>2, <3>3
  <2>4. control' \in Control /\ ControlOK(control', AnyMirror)
    BY <2>1, <2>2 DEF Onward
  <2>5. QED
    BY <1>1, <1>5, <2>1, <2>2, <2>3, <2>4
<1>6. CASE ~(control.at > N) /\ ~AnyMirror
  <2>1. control' = InvalidBlock(control)
    BY <1>1, <1>6
  <2>2. /\ Onward(control, InvalidBlock(control), AnyMirror)
        /\ InvalidBlock(control).valid = control.valid
    BY <1>1, <1>2, <1>6, BlockDone
  <2>3. control' \in Control /\ ControlOK(control', AnyMirror)
    BY <2>1, <2>2 DEF Onward
  <2>4. QED
    BY <1>1, <2>1, <2>2, <2>3
<1>7. CASE ~(control.at > N) /\ AnyMirror /\ ~(ControlBlock >= Blocks) /\ ~(m > N)
  <2>1. control' = [control EXCEPT !.step = "read", !.at = m]
    BY <1>1, <1>7
  <2>2. /\ m \in 1 .. N + 1 /\ m \in Present /\ m \in Members
        /\ \A k \in Present : k < m <=> k < control.at
    BY <1>2, <1>3, <1>4, <1>7, Constants
  <2>3. /\ control' \in Control /\ control'.state = control.state
        /\ control'.section = control.section /\ control'.index = control.index
        /\ control'.valid = control.valid /\ control'.check = control.check
        /\ control'.buffer = control.buffer /\ control'.step = "read" /\ control'.at = m
    BY <1>2, <2>1, <2>2 DEF Control
  <2>4. Place(control.section, control.index) < Blocks
    <3>1. ControlBlock \in Int /\ Blocks \in Int
      <4>1. control.section \in Int /\ control.index \in Int /\ SectionSize \in Int
        BY <1>2, Constants DEF Control
      <4>2. QED
        BY <4>1, Constants DEF ControlBlock
    <3>2. QED
      BY <1>2, <1>7, <3>1
  <2>5. ControlOK(control', AnyMirror)
    BY <1>1, <1>2, <2>2, <2>3, <2>4, SameBlock
  <2>6. QED
    BY <1>1, <1>7, <2>1, <2>2, <2>3, <2>5 DEF m
<1>8. QED
  BY <1>5, <1>6, <1>7

LEMMA ValidateCheckBase == ASSUME BaseInv, ValidateCheck PROVE BaseInv'
<1>1. /\ up /\ RemirrorOnly /\ control' \in Control /\ ControlOK(control', AnyMirror)
      /\ control'.state # "none" /\ control.state # "none"
  BY ValidateCheckFacts DEF Onward
<1>2. QED
  BY <1>1, RemirrorStep

LEMMA ValidateReadFacts ==
  ASSUME BaseInv, ValidateRead
  PROVE  LET m == control.at
             b == ControlBlock
         IN  /\ up /\ RemirrorOnly /\ control.state = "validate" /\ control.step = "read"
             /\ m \in Members /\ m \in online /\ b \in Block
             /\ control' \in Control /\ ControlOK(control', AnyMirror)
             /\ \/ /\ Onward(control, control', AnyMirror)
                   /\ control'.valid = control.valid
                \/ /\ control.buffer \in {NoData, disk[m][b]} /\ control'.buffer = disk[m][b]
                   /\ control'.state = "validate" /\ control'.section = control.section
                   /\ control'.index = control.index /\ control'.valid = control.valid
                   /\ control'.step = "check" /\ control'.at = m + 1
<1> DEFINE m == control.at
           b == ControlBlock
           v == disk[m][b]
<1>1. /\ up /\ RemirrorOnly /\ control.state = "validate" /\ control.step = "read" /\ m \in online
      /\ control' = IF control.buffer \notin {NoData, v} THEN InvalidBlock(control)
                    ELSE [control EXCEPT !.step = "check", !.at = m + 1, !.buffer = v]
  BY DEF ValidateRead, Step
<1>2. /\ TypeOK /\ control \in Control /\ ControlOK(control, AnyMirror)
      /\ ControlBlock = Place(control.section, control.index)
      /\ m \in Members /\ b \in Block
  BY <1>1, AtWork
<1>3. v \in Data /\ Place(control.section, control.index) < Blocks /\ m + 1 \in 1 .. N + 1
  <2>1. Place(control.section, control.index) < Blocks
    BY <1>1, <1>2 DEF ControlOK
  <2>2. QED
    BY <1>2, <2>1, Constants DEF TypeOK
<1>4. CASE control.buffer \notin {NoData, v}
  <2>1. control' = InvalidBlock(control)
    BY <1>1, <1>4
  <2>2. /\ Onward(control, InvalidBlock(control), AnyMirror)
        /\ InvalidBlock(control).valid = control.valid
    BY <1>1, <1>2, <1>3, BlockDone
  <2>3. control' \in Control /\ ControlOK(control', AnyMirror)
    BY <2>1, <2>2 DEF Onward
  <2>4. QED
    BY <1>1, <1>2, <2>1, <2>2, <2>3
<1>5. CASE control.buffer \in {NoData, v}
  <2>1. control' = [control EXCEPT !.step = "check", !.at = m + 1, !.buffer = v]
    BY <1>1, <1>5
  <2>2. /\ control' \in Control /\ control'.state = control.state
        /\ control'.section = control.section /\ control'.index = control.index
        /\ control'.valid = control.valid /\ control'.check = control.check
        /\ control'.buffer = v /\ control'.step = "check" /\ control'.at = m + 1
    <3> HIDE DEF m, v
    <3>1. QED
      BY <1>2, <1>3, <2>1 DEF Control
  <2>3. ControlOK(control', AnyMirror)
    <3> HIDE DEF m, v
    <3>1. QED
      BY <1>1, <1>2, <1>3, <2>2, SameBlock
  <2>4. QED
    BY <1>1, <1>2, <1>5, <2>2, <2>3
<1>6. QED
  BY <1>4, <1>5

LEMMA ValidateReadBase == ASSUME BaseInv, ValidateRead PROVE BaseInv'
<1>1. /\ up /\ RemirrorOnly /\ control' \in Control /\ ControlOK(control', AnyMirror)
      /\ control'.state # "none" /\ control.state # "none"
  BY ValidateReadFacts DEF Onward
<1>2. QED
  BY <1>1, RemirrorStep
LEMMA AbortedOnward ==
  ASSUME NEW c \in Control, NEW any, ControlOK(c, any), c.step # "poll"
  PROVE  Onward(c, Aborted(c), any) /\ Aborted(c).valid = c.valid /\ Aborted(c).state = c.state
<1>1. /\ Aborted(c) \in Control /\ ControlOK(Aborted(c), any)
      /\ Aborted(c).state = c.state /\ Aborted(c).step = "poll" /\ Aborted(c).buffer = NoData
      /\ Aborted(c).section = c.section /\ Aborted(c).valid = c.valid
  BY AbortedOK
<1>2. c.state \in {"validate", "remirror"}
  BY DEF ControlOK
<1>3. Aborted(c).at = 1
  BY <1>1 DEF ControlOK
<1>4. QED
  BY <1>1, <1>2, <1>3 DEF Onward

LEMMA RemirrorCheckFacts ==
  ASSUME BaseInv, RemirrorCheck
  PROVE  /\ up /\ RemirrorOnly /\ control.state = "remirror" /\ control.step = "check"
         /\ control' \in Control /\ ControlOK(control', AnyMirror)
         /\ \/ /\ Onward(control, control', AnyMirror) /\ control'.valid = control.valid
               /\ control'.state # "update"
            \/ /\ control'.state = "remirror" /\ control'.section = control.section
               /\ control'.index = control.index /\ control'.valid = control.valid
               /\ control'.buffer = control.buffer /\ control'.seen = control.seen
               /\ \/ /\ control'.step = "read" /\ control.buffer = NoData
                     /\ control'.at \in Present /\ member[control'.at].insynch
                  \/ control'.step = "write" /\ control.buffer # NoData
<1> DEFINE ms   == IF control.buffer = NoData THEN Sources ELSE Targets
           step == IF control.buffer = NoData THEN "read" ELSE "write"
<1>1. /\ up /\ RemirrorOnly /\ control.state = "remirror" /\ control.step = "check"
      /\ control' =
           IF control.buffer # NoData /\ control.at > N THEN NextBlock(control)
           ELSE IF ~AnyMirror \/ ~group.remirroring THEN Aborted(control)
           ELSE IF ms = {} THEN IF control.buffer = NoData THEN Aborted(control) ELSE NextBlock(control)
           ELSE [control EXCEPT !.step = step, !.at = Least(ms)]
  BY DEF RemirrorCheck, Step, Least
<1>2. TypeOK /\ control \in Control /\ ControlOK(control, AnyMirror)
  BY AtWork
<1>3. /\ Onward(control, NextBlock(control), AnyMirror) /\ NextBlock(control).valid = control.valid
      /\ Onward(control, Aborted(control), AnyMirror) /\ Aborted(control).valid = control.valid
      /\ Aborted(control).state = "remirror"
  BY <1>1, <1>2, BlockDone, AbortedOnward
<1>4. NextBlock(control).state # "update"
  <2> DEFINE e == [control EXCEPT !.index = @ + 1, !.step = "poll", !.at = 1, !.from = 0,
                                  !.buffer = NoData, !.seen = {}]
  <2>1. control.index + 1 \in 0 .. SectionSize /\ 1 \in 1 .. N + 1 /\ 0 \in 0 .. N
    BY <1>1, <1>2, Constants DEF ControlOK, Control
  <2>2. e \in Control /\ e.state = "remirror" /\ NextBlock(control) = SkipValid(e)
    BY <1>1, <1>2, <2>1 DEF Control, NextBlock
  <2> HIDE DEF e
  <2>3. Done(e, "validate").state = "validate"
    BY <2>2, DoneIn
  <2>4. \A i : [e EXCEPT !.index = i].state = "remirror"
    BY <2>2 DEF Control
  <2>5. QED
    BY <2>2, <2>3, <2>4, SkipFacts
<1>5. CASE control' = NextBlock(control) \/ control' = Aborted(control)
  <2>1. control' \in Control /\ ControlOK(control', AnyMirror)
    BY <1>3, <1>5 DEF Onward
  <2>2. QED
    BY <1>1, <1>3, <1>4, <1>5, <2>1
<1>6. CASE /\ ms # {} /\ AnyMirror
           /\ control' = [control EXCEPT !.step = step, !.at = Least(ms)]
  <2>1. ms \subseteq Present /\ Present \subseteq Members /\ Members \subseteq Nat
    BY <1>2, PresentFacts DEF Sources, Targets
  <2>2. Least(ms) \in ms
    BY <1>6, <2>1, LeastIn
  <2> DEFINE at == Least(ms)
  <2>0. at \in Present /\ at \in Members
    BY <2>1, <2>2
  <2>3. at \in Present /\ at \in Members /\ at \in 1 .. N + 1
    <3> HIDE DEF at
    <3>1. QED
      BY <2>0, Constants
  <2>4. control.buffer = NoData => member[at].insynch
    BY <2>2 DEF Sources
  <2> HIDE DEF at
  <2>5. control' = [control EXCEPT !.step = step, !.at = at] /\ step \in {"read", "write"}
    BY <1>6 DEF at
  <2>6. /\ control' \in Control /\ control'.state = control.state
        /\ control'.section = control.section /\ control'.index = control.index
        /\ control'.valid = control.valid /\ control'.check = control.check
        /\ control'.buffer = control.buffer /\ control'.seen = control.seen
        /\ control'.step = step /\ control'.at = at
    <3> HIDE DEF step
    <3>1. QED
      BY <1>2, <2>3, <2>5 DEF Control
  <2>7. Place(control.section, control.index) < Blocks
    BY <1>1, <1>2, <1>6, Constants DEF ControlOK, Control
  <2>8. ControlOK(control', AnyMirror)
    <3>1. /\ control.step # "poll" /\ control'.step # "poll" /\ control'.state = "remirror"
          /\ control'.step = "write" => control'.buffer # NoData
          /\ control'.at \in Members /\ Place(control'.section, control'.index) < Blocks
      BY <1>1, <2>3, <2>6, <2>7
    <3>2. QED
      BY <1>1, <1>2, <2>6, <3>1, SameBlock
  <2>9. QED
    BY <1>1, <2>3, <2>4, <2>6, <2>8
<1>7. QED
  BY <1>1, <1>5, <1>6

LEMMA RemirrorCheckBase == ASSUME BaseInv, RemirrorCheck PROVE BaseInv'
<1>1. /\ up /\ RemirrorOnly /\ control' \in Control /\ ControlOK(control', AnyMirror)
      /\ control'.state # "none" /\ control.state # "none"
  BY RemirrorCheckFacts DEF Onward
<1>2. QED
  BY <1>1, RemirrorStep

LEMMA RemirrorReadFacts ==
  ASSUME BaseInv, RemirrorRead
  PROVE  LET m == control.at
             b == ControlBlock
         IN  /\ up /\ RemirrorOnly /\ control.state = "remirror" /\ control.step = "read"
             /\ m \in Members /\ m \in online /\ b \in Block
             /\ control' \in Control /\ ControlOK(control', AnyMirror)
             /\ control'.state = "remirror" /\ control'.section = control.section
             /\ control'.valid = control.valid /\ control'.step = "check"
             /\ control'.buffer = disk[m][b]
             /\ control'.seen = IF <<m, b>> \in overrun THEN Data ELSE good[b]
<1> DEFINE m == control.at
           b == ControlBlock
           v == disk[m][b]
           s == IF <<m, b>> \in overrun THEN Data ELSE good[b]
<1>1. /\ up /\ RemirrorOnly /\ control.state = "remirror" /\ control.step = "read" /\ m \in online
      /\ control' = [control EXCEPT !.step = "check", !.at = 1, !.from = m, !.buffer = v, !.seen = s]
  BY DEF RemirrorRead, Step
<1>2. /\ TypeOK /\ control \in Control /\ ControlOK(control, AnyMirror)
      /\ m \in Members /\ b \in Block
  BY <1>1, AtWork
<1>3. /\ v \in Data /\ s \in SUBSET Data /\ 1 \in 1 .. N + 1 /\ m \in 0 .. N
  BY <1>2, Constants DEF TypeOK
<1> HIDE DEF m, v, s
<1>4. /\ control' \in Control /\ control'.state = control.state
      /\ control'.section = control.section /\ control'.index = control.index
      /\ control'.valid = control.valid /\ control'.check = control.check
      /\ control'.buffer = v /\ control'.step = "check" /\ control'.seen = s
  BY <1>1, <1>2, <1>3 DEF Control
<1>5. Place(control.section, control.index) < Blocks
  BY <1>1, <1>2 DEF ControlOK
<1>6. ControlOK(control', AnyMirror)
  BY <1>1, <1>2, <1>4, <1>5, SameBlock
<1>7. QED
  BY <1>1, <1>2, <1>4, <1>6 DEF m, v, s

LEMMA RemirrorReadBase == ASSUME BaseInv, RemirrorRead PROVE BaseInv'
<1>1. /\ up /\ RemirrorOnly /\ control' \in Control /\ ControlOK(control', AnyMirror)
      /\ control'.state # "none" /\ control.state # "none"
  BY RemirrorReadFacts
<1>2. QED
  BY <1>1, RemirrorStep

LEMMA RemirrorMarkFacts ==
  ASSUME BaseInv, RemirrorMark
  PROVE  /\ up /\ MarkAbsent /\ control.state = "remirror" /\ control.step = "write"
         /\ control' \in Control /\ ControlOK(control', AnyMirror)
         /\ \/ control' = control /\ group.active
            \/ /\ Onward(control, control', AnyMirror) /\ control'.valid = control.valid
               /\ control'.state = "remirror"
         /\ UNCHANGED <<disk, online, up, mounted, client, writes, failures, crashes>>
         /\ UNCHANGED <<good, exposed, overrun>>
<1>1. /\ up /\ MarkAbsent /\ control.state = "remirror" /\ control.step = "write"
      /\ control' = IF group.active THEN control ELSE Aborted(control)
      /\ UNCHANGED <<disk, online, up, mounted, client, writes, failures, crashes>>
      /\ UNCHANGED <<good, exposed, overrun>>
  BY DEF RemirrorMark, Step, counters
<1>2. control \in Control /\ ControlOK(control, AnyMirror)
  BY AtWork
<1>3. /\ Onward(control, Aborted(control), AnyMirror) /\ Aborted(control).valid = control.valid
      /\ Aborted(control).state = "remirror"
  BY <1>1, <1>2, AbortedOnward
<1>4. QED
  BY <1>1, <1>2, <1>3 DEF Onward

LEMMA RemirrorMarkBase == ASSUME BaseInv, RemirrorMark PROVE BaseInv'
<1>1. /\ up /\ MarkAbsent /\ control' \in Control /\ ControlOK(control', AnyMirror)
      /\ control'.state # "none" /\ control.state # "none"
      /\ UNCHANGED <<disk, online, up, mounted, client, writes, failures, crashes>>
      /\ UNCHANGED <<good, exposed, overrun>>
  BY RemirrorMarkFacts DEF Onward
<1>2. TypeOK /\ GroupInv
  BY DEF BaseInv
<1>3. /\ group' \in GroupState /\ member' \in [Members -> MemberState] /\ Present' = Present
      /\ saved' \in MirrorSector /\ holders' \subseteq Members /\ missed' \subseteq Members
  BY <1>1, <1>2, MarkFacts
<1>4. TypeOK'
  BY <1>1, <1>2, <1>3 DEF TypeOK
<1>5. ControlInv'
  BY <1>1, <1>3 DEF ControlInv, AnyMirror
<1>6. GroupInv'
  BY <1>1, <1>2, MarkGroup
<1>7. QED
  BY <1>1, <1>4, <1>5, <1>6 DEF BaseInv, ClientInv

LEMMA RemirrorWriteFacts ==
  ASSUME BaseInv, RemirrorWrite
  PROVE  LET m == control.at
             b == ControlBlock
         IN  /\ up /\ control.state = "remirror" /\ control.step = "write" /\ ~group.modifyCheck
             /\ m \in Members /\ m \in online /\ b \in Block
             /\ control.buffer \in Data
             /\ disk' = [disk EXCEPT ![m][b] = control.buffer]
             /\ overrun' = IF control.buffer \in control.seen \ Current(m, b)
                           THEN overrun \union (Members \X {b}) ELSE overrun
             /\ control' \in Control /\ ControlOK(control', AnyMirror)
             /\ control'.state = "remirror" /\ control'.section = control.section
             /\ control'.valid = control.valid /\ control'.step = "check"
             /\ control'.buffer = control.buffer /\ control'.seen = control.seen
             /\ UNCHANGED <<saved, holders, online, up, mounted, group, member, client>>
             /\ UNCHANGED <<writes, failures, crashes, good, missed, exposed>>
<1> DEFINE m == control.at
           b == ControlBlock
<1>1. /\ up /\ control.state = "remirror" /\ control.step = "write" /\ ~group.modifyCheck
      /\ m \in online
      /\ disk' = [disk EXCEPT ![m][b] = control.buffer]
      /\ overrun' = IF control.buffer \in control.seen \ Current(m, b)
                    THEN overrun \union (Members \X {b}) ELSE overrun
      /\ control' = [control EXCEPT !.step = "check", !.at = m + 1]
      /\ UNCHANGED <<saved, holders, online, up, mounted, group, member, client>>
      /\ UNCHANGED <<writes, failures, crashes, good, missed, exposed>>
  BY DEF RemirrorWrite, Step, counters
<1>2. /\ TypeOK /\ control \in Control /\ ControlOK(control, AnyMirror)
      /\ m \in Members /\ b \in Block
  BY <1>1, AtWork
<1>3. control.buffer \in Data /\ m + 1 \in 1 .. N + 1 /\ Place(control.section, control.index) < Blocks
  <2>1. control.buffer # NoData /\ Place(control.section, control.index) < Blocks
    BY <1>1, <1>2 DEF ControlOK
  <2>2. QED
    BY <1>2, <2>1, Constants DEF Control
<1>4. /\ control' \in Control /\ control'.state = control.state
      /\ control'.section = control.section /\ control'.index = control.index
      /\ control'.valid = control.valid /\ control'.check = control.check
      /\ control'.buffer = control.buffer /\ control'.step = "check" /\ control'.seen = control.seen
  <2> HIDE DEF m
  <2>1. QED
    BY <1>1, <1>2, <1>3 DEF Control
<1>5. ControlOK(control', AnyMirror)
  BY <1>1, <1>2, <1>3, <1>4, SameBlock
<1>6. QED
  BY <1>1, <1>2, <1>3, <1>4, <1>5

LEMMA RemirrorWriteBase == ASSUME BaseInv, RemirrorWrite PROVE BaseInv'
<1> DEFINE m == control.at
           b == ControlBlock
<1>1. /\ up /\ m \in Members /\ b \in Block /\ control.buffer \in Data
      /\ disk' = [disk EXCEPT ![m][b] = control.buffer]
      /\ overrun' \in {overrun, overrun \union (Members \X {b})}
      /\ control' \in Control /\ ControlOK(control', AnyMirror)
      /\ control.state = "remirror" /\ control'.state = "remirror"
      /\ UNCHANGED <<saved, holders, online, up, mounted, group, member, client>>
      /\ UNCHANGED <<writes, failures, crashes, good, missed, exposed>>
  BY RemirrorWriteFacts
<1> HIDE DEF m, b
<1>2. disk' \in [Members -> [Block -> Data]] /\ overrun' \subseteq Members \X Block
  BY <1>1 DEF BaseInv, TypeOK
<1>3. TypeOK'
  BY <1>1, <1>2 DEF BaseInv, TypeOK
<1>4. AnyMirror' = AnyMirror
  BY <1>1 DEF AnyMirror, Present
<1>5. ControlInv'
  BY <1>1, <1>4 DEF ControlInv
<1>6. GroupInv'
  BY <1>1, GroupStays DEF BaseInv
<1>7. QED
  BY <1>1, <1>3, <1>5, <1>6 DEF BaseInv, ClientInv

LEMMA RemirrorLosesFacts ==
  ASSUME BaseInv, RemirrorLosesMember
  PROVE  LET m == control.at
         IN  /\ up /\ m \in Members /\ m \notin online /\ Offline(m)
             /\ control.state \in {"validate", "remirror"} /\ control.step \in {"read", "write"}
             /\ Onward(control, control', AnyMirror) /\ control'.valid = control.valid
             /\ UNCHANGED <<disk, online, up, client, writes, failures, crashes>>
             /\ UNCHANGED <<good, missed, exposed, overrun>>
<1> DEFINE m == control.at
<1>1. /\ control.step \in {"read", "write"} /\ up /\ m \notin online /\ Offline(m)
      /\ control' = IF control.state = "validate" THEN InvalidBlock(control) ELSE Aborted(control)
      /\ UNCHANGED <<disk, online, up, client, writes, failures, crashes>>
      /\ UNCHANGED <<good, missed, exposed, overrun>>
  BY DEF RemirrorLosesMember, Step, counters, history
<1>2. /\ control \in Control /\ ControlOK(control, AnyMirror) /\ m \in Members
  BY <1>1, AtWork
<1>3. control.state \in {"validate", "remirror"} /\ Place(control.section, control.index) < Blocks
  BY <1>1, <1>2 DEF ControlOK
<1>4. /\ Onward(control, Aborted(control), AnyMirror) /\ Aborted(control).valid = control.valid
      /\ control.state = "validate" =>
           /\ Onward(control, InvalidBlock(control), AnyMirror)
           /\ InvalidBlock(control).valid = control.valid
  BY <1>1, <1>2, <1>3, BlockDone, AbortedOnward
<1>5. QED
  BY <1>1, <1>2, <1>3, <1>4

LEMMA RemirrorLosesBase == ASSUME BaseInv, RemirrorLosesMember PROVE BaseInv'
<1> DEFINE m == control.at
<1>1. /\ up /\ m \in Members /\ m \notin online /\ Offline(m)
      /\ control.state # "none" /\ control'.state # "none"
      /\ control' \in Control /\ ControlOK(control', AnyMirror)
      /\ UNCHANGED <<disk, online, up, client, writes, failures, crashes>>
      /\ UNCHANGED <<good, missed, exposed, overrun>>
  BY RemirrorLosesFacts DEF Onward
<1>2. client' \in Client /\ ClientInv'
  BY <1>1 DEF BaseInv, TypeOK, ClientInv
<1> HIDE DEF m
<1>3. QED
  BY <1>1, <1>2, OfflineBase
LEMMA UpdateFacts ==
  ASSUME BaseInv, Update
  PROVE  LET s == control.section
         IN  /\ up /\ control.state = "update" /\ control.step = "poll" /\ s \in Nat /\ s <= TopSection
             /\ member' \in [Members -> MemberState] /\ Present' = Present
             /\ \A m \in Members \ Present : member'[m] = member[m]
             /\ \A m \in Present : /\ member'[m].insynch <=> member[m].insynch \/ s = 0
                                   /\ member'[m].section \in {member[m].section, s}
             /\ group' \in GroupState /\ group'.opens = group.opens /\ group'.active = group.active
             /\ \A m \in Members :
                  group'.sector.log[m] =
                    IF m \in Present /\ (member[m].section > s \/ (s = 0 /\ ~member[m].insynch))
                    THEN s ELSE group.sector.log[m]
             /\ saved' \in MirrorSector /\ holders' \subseteq Members
             /\ IF s = 0 THEN saved' = group'.sector ELSE saved' = saved
             /\ control' \in Control /\ ControlOK(control', AnyMirror)
             /\ control'.step = "poll"
             /\ IF s = 0 THEN control'.state = "finish" /\ control'.section = 0
                ELSE /\ control'.state = "validate" /\ control'.section = s - 1
                     /\ control'.valid = {}
             /\ exposed' = (exposed \/ ~group.active)
             /\ UNCHANGED <<disk, online, up, mounted, client, writes, failures, crashes>>
             /\ UNCHANGED <<good, missed, overrun>>
<1> DEFINE s   == control.section
           new(m) == [member[m] EXCEPT !.section = IF @ > s THEN s ELSE @, !.insynch = @ \/ s = 0]
           log == [m \in Members |->
                    IF m \in Present /\ (member[m].section > s \/ (s = 0 /\ ~member[m].insynch))
                    THEN s ELSE group.sector.log[m]]
<1>1. /\ up /\ control.state = "update" /\ control.step = "poll"
      /\ member' = [m \in Members |-> IF m \notin Present THEN member[m] ELSE new(m)]
      /\ group' = [group EXCEPT !.sector.log = log]
      /\ IF s = 0 THEN Flush(group'.sector) ELSE UNCHANGED <<saved, holders>>
      /\ control' = IF s = 0 THEN Done(control, "finish")
                    ELSE [Done(control, "validate") EXCEPT !.section = s - 1, !.valid = {}]
      /\ exposed' = (exposed \/ ~group.active)
      /\ UNCHANGED <<disk, online, up, mounted, client, writes, failures, crashes>>
      /\ UNCHANGED <<good, missed, overrun>>
  BY DEF Update, Step, counters
<1>2. TypeOK /\ control \in Control /\ ControlOK(control, AnyMirror)
  BY AtWork
<1>3. s \in Nat /\ s <= TopSection /\ s \in Section
  BY <1>2, Constants DEF ControlOK, Control
<1>4. \A m \in Members : /\ new(m) \in MemberState
                         /\ new(m).present = member[m].present
                         /\ new(m).insynch <=> member[m].insynch \/ s = 0
                         /\ new(m).section \in {member[m].section, s}
  <2> HIDE DEF s
  <2>1. \A m \in Members : member[m] \in MemberState
    BY <1>2 DEF TypeOK
  <2>2. QED
    BY <1>3, <2>1 DEF MemberState
<1>5. log \in [Members -> Section]
  <2> HIDE DEF s
  <2>1. QED
    BY <1>2, <1>3, SectorFields
<1>6. \A m \in Members : log[m] =
        IF m \in Present /\ (member[m].section > s \/ (s = 0 /\ ~member[m].insynch))
        THEN s ELSE group.sector.log[m]
  OBVIOUS
<1> HIDE DEF s, new, log
<1>7. /\ member' \in [Members -> MemberState]
      /\ \A m \in Members : member'[m] = IF m \notin Present THEN member[m] ELSE new(m)
  BY <1>1, <1>2, <1>4 DEF TypeOK
<1>8. Present' = Present
  BY <1>4, <1>7 DEF Present
<1>9. /\ group' \in GroupState /\ group'.opens = group.opens /\ group'.active = group.active
      /\ group'.sector.log = log /\ group'.sector \in MirrorSector
  BY <1>1, <1>2, <1>5 DEF TypeOK, GroupState, MirrorSector
<1>10. /\ saved' \in MirrorSector /\ holders' \subseteq Members
       /\ IF s = 0 THEN saved' = group'.sector ELSE saved' = saved
  BY <1>1, <1>2, <1>9, PresentFacts DEF Flush, TypeOK
<1>11. /\ control' \in Control /\ ControlOK(control', AnyMirror) /\ control'.step = "poll"
       /\ IF s = 0 THEN control'.state = "finish" /\ control'.section = 0
          ELSE control'.state = "validate" /\ control'.section = s - 1 /\ control'.valid = {}
  <2>1. CASE s = 0
    <3> DEFINE d == Done(control, "finish")
    <3>1. /\ d \in Control /\ d.state = "finish" /\ d.step = "poll" /\ d.index = 0 /\ ~d.check
          /\ d.buffer = NoData /\ d.at = 1 /\ d.section = s /\ d.valid = control.valid
      BY <1>2, DoneIn DEF s
    <3>2. control' = d
      BY <1>1, <2>1
    <3> HIDE DEF d
    <3>3. ControlOK(d, AnyMirror)
      BY <1>3, <2>1, <3>1, Constants DEF ControlOK
    <3>4. QED
      BY <2>1, <3>1, <3>2, <3>3
  <2>2. CASE s # 0
    <3> DEFINE c == Done(control, "validate")
               d == [c EXCEPT !.section = s - 1, !.valid = {}]
    <3>1. /\ c \in Control /\ c.state = "validate" /\ c.step = "poll" /\ c.index = 0 /\ ~c.check
          /\ c.buffer = NoData /\ c.at = 1
      BY <1>2, DoneIn
    <3>2. s - 1 \in Section /\ s - 1 <= TopSection
      BY <1>3, <2>2, Constants
    <3>3. control' = d
      BY <1>1, <2>2
    <3> HIDE DEF c
    <3>4. /\ d \in Control /\ d.state = "validate" /\ d.step = "poll" /\ d.index = 0 /\ ~d.check
          /\ d.buffer = NoData /\ d.at = 1 /\ d.section = s - 1 /\ d.valid = {}
      BY <3>1, <3>2 DEF Control
    <3> HIDE DEF d
    <3>5. ControlOK(d, AnyMirror)
      BY <3>2, <3>4 DEF ControlOK
    <3>6. QED
      BY <2>2, <3>3, <3>4, <3>5
  <2>3. QED
    BY <2>1, <2>2
<1>12. \A m \in Members \ Present : member'[m] = member[m]
  BY <1>7
<1>13. \A m \in Present : /\ member'[m].insynch <=> member[m].insynch \/ s = 0
                          /\ member'[m].section \in {member[m].section, s}
  BY <1>2, <1>4, <1>7, PresentFacts
<1>14. QED
  BY <1>1, <1>3, <1>6, <1>7, <1>8, <1>9, <1>10, <1>11, <1>12, <1>13 DEF s

LEMMA UpdateBase == ASSUME BaseInv, Update PROVE BaseInv'
<1> DEFINE s == control.section
<1>1. /\ up /\ control.state = "update" /\ control.step = "poll" /\ s \in Nat /\ s <= TopSection
      /\ member' \in [Members -> MemberState] /\ Present' = Present
      /\ \A m \in Members \ Present : member'[m] = member[m]
      /\ \A m \in Present : /\ member'[m].insynch <=> member[m].insynch \/ s = 0
                            /\ member'[m].section \in {member[m].section, s}
      /\ group' \in GroupState /\ group'.opens = group.opens /\ group'.active = group.active
      /\ \A m \in Members :
           group'.sector.log[m] =
             IF m \in Present /\ (member[m].section > s \/ (s = 0 /\ ~member[m].insynch))
             THEN s ELSE group.sector.log[m]
      /\ saved' \in MirrorSector /\ holders' \subseteq Members
      /\ saved' = group'.sector \/ saved' = saved
      /\ control' \in Control /\ ControlOK(control', AnyMirror)
      /\ control'.state # "none"
      /\ exposed' = (exposed \/ ~group.active)
      /\ UNCHANGED <<disk, online, up, mounted, client, writes, failures, crashes>>
      /\ UNCHANGED <<good, missed, overrun>>
  BY UpdateFacts
<1>2. TypeOK /\ GroupInv
  BY DEF BaseInv
<1>3. TypeOK'
  BY <1>1, <1>2 DEF TypeOK
<1>4. ControlInv'
  BY <1>1 DEF ControlInv, AnyMirror
<1>5. InSynch \subseteq InSynch' /\ InSynch' \subseteq Present /\ Present \subseteq Members
  BY <1>1, <1>2, PresentFacts DEF InSynch
<1>6. s # Out /\ s \in Int /\ Out \in Int
  BY <1>1, Constants
<1> HIDE DEF s
<1>7. ActiveExact'
  <2>1. /\ group'.active => InSynch' # {}
        /\ ~exposed' /\ InSynch' # {} => group'.active
        /\ mounted' => group'.active
    BY <1>1, <1>2, <1>5 DEF GroupInv, ActiveExact
  <2>2. ASSUME ~group'.active PROVE \E m \in Members \ Present : group'.sector.log[m] # Out
    BY <1>1, <1>2, <2>2 DEF GroupInv, ActiveExact
  <2>3. QED
    BY <1>1, <2>1, <2>2 DEF ActiveExact
<1>8. MarksKept'
  <2>1. ASSUME NEW m \in InSynch' PROVE group'.sector.log[m] # Out
    <3>1. m \in Present /\ m \in Members /\ (member[m].insynch \/ s = 0)
      BY <1>1, <1>5 DEF InSynch
    <3>2. CASE member[m].insynch
      <4>1. group.sector.log[m] # Out
        BY <1>2, <3>1, <3>2 DEF GroupInv, MarksKept, InSynch
      <4>2. QED
        BY <1>1, <1>6, <3>1, <4>1
    <3>3. CASE ~member[m].insynch
      BY <1>1, <1>6, <3>1, <3>3
    <3>4. QED
      BY <3>2, <3>3
  <2>2. ASSUME NEW m \in Members, group'.sector.log[m] = Out PROVE saved'.log[m] = Out
    <3>1. group.sector.log[m] = Out
      BY <1>1, <1>6, <2>2
    <3>2. saved.log[m] = Out
      BY <1>1, <1>2, <3>1 DEF GroupInv, MarksKept
    <3>3. QED
      BY <1>1, <2>2, <3>2
  <2>3. QED
    BY <2>1, <2>2 DEF MarksKept
<1>9. OpensCounted'
  BY <1>1, <1>2 DEF GroupInv, OpensCounted
<1>10. GroupInv'
  BY <1>1, <1>2, <1>7, <1>8, <1>9 DEF GroupInv
<1>11. QED
  BY <1>1, <1>3, <1>4, <1>10 DEF BaseInv, ClientInv

LEMMA StopRemirroringFacts ==
  ASSUME BaseInv, Finish \/ Abort
  PROVE  /\ up /\ control.state # "none" /\ control' = NoControl
         /\ member' \in [Members -> MemberState] /\ Present' = Present /\ InSynch' = InSynch
         /\ \A m \in Members : /\ member'[m].insynch = member[m].insynch
                               /\ member'[m].section = member[m].section
         /\ group' \in GroupState /\ group'.opens = group.opens - 1 /\ group'.active = group.active
         /\ group'.sector.log = group.sector.log
         /\ saved' \in MirrorSector /\ holders' \subseteq Members
         /\ saved' = saved \/ saved'.log = group.sector.log
         /\ UNCHANGED <<disk, online, up, mounted, client, writes, failures, crashes>>
         /\ UNCHANGED <<good, missed, exposed, overrun>>
<1> DEFINE g == IF Finish THEN [group EXCEPT !.remirroring = FALSE, !.check = FALSE]
                ELSE [group EXCEPT !.remirroring = FALSE]
<1>1. /\ up /\ StopRemirroring(g)
      /\ control.state = "finish" \/ (control.step = "poll" /\ control.abort)
  BY DEF Finish, Abort, Step
<1>2. TypeOK /\ OpensCounted /\ ControlInv
  BY DEF BaseInv, GroupInv
<1>3. control.state # "none"
  BY <1>1, <1>2 DEF ControlInv, ControlOK, NoControl
<1>4. /\ g \in GroupState /\ g.opens = group.opens /\ g.active = group.active
      /\ g.sector.log = group.sector.log
  BY <1>2 DEF TypeOK, GroupState
<1>5. g.opens > 0
  BY <1>2, <1>3, <1>4 DEF OpensCounted
<1> HIDE DEF g
<1>6. /\ member' = [m \in Members |-> [member[m] EXCEPT !.remirroring = FALSE]]
      /\ CloseGroup(g) /\ control' = NoControl
      /\ UNCHANGED <<disk, online, up, mounted, client, writes, failures, crashes>>
      /\ UNCHANGED <<good, missed, exposed, overrun>>
  BY <1>1 DEF StopRemirroring, counters, history
<1>7. /\ group' \in GroupState /\ group'.opens = group.opens - 1 /\ group'.active = group.active
      /\ group'.sector.log = group.sector.log
      /\ saved' \in MirrorSector /\ holders' \subseteq Members
      /\ saved' = saved \/ saved'.log = group.sector.log
  BY <1>2, <1>4, <1>5, <1>6, CloseFacts
<1>8. /\ member' \in [Members -> MemberState]
      /\ \A m \in Members : /\ member'[m].insynch = member[m].insynch
                            /\ member'[m].section = member[m].section
                            /\ member'[m].present = member[m].present
  BY <1>2, <1>6 DEF TypeOK, MemberState
<1>9. Present' = Present
  BY <1>8 DEF Present
<1>10. InSynch' = InSynch
  BY <1>2, <1>8, <1>9, PresentFacts DEF InSynch
<1>11. QED
  BY <1>1, <1>3, <1>6, <1>7, <1>8, <1>9, <1>10

LEMMA StopRemirroringBase == ASSUME BaseInv, Finish \/ Abort PROVE BaseInv'
<1>1. /\ up /\ control.state # "none" /\ control' = NoControl
      /\ member' \in [Members -> MemberState] /\ Present' = Present /\ InSynch' = InSynch
      /\ group' \in GroupState /\ group'.opens = group.opens - 1 /\ group'.active = group.active
      /\ group'.sector.log = group.sector.log
      /\ saved' \in MirrorSector /\ holders' \subseteq Members
      /\ saved' = saved \/ saved'.log = group.sector.log
      /\ UNCHANGED <<disk, online, up, mounted, client, writes, failures, crashes>>
      /\ UNCHANGED <<good, missed, exposed, overrun>>
  BY StopRemirroringFacts
<1>2. TypeOK /\ GroupInv
  BY DEF BaseInv
<1>3. NoControl \in Control /\ ControlOK(NoControl, AnyMirror')
  BY FirstControl
<1>4. TypeOK'
  BY <1>1, <1>2, <1>3 DEF TypeOK
<1>5. ControlInv'
  BY <1>1, <1>3 DEF ControlInv
<1>6. group.opens \in 0 .. 2
  BY <1>2, SectorFields
<1>7. OpensCounted'
  BY <1>1, <1>2, <1>6 DEF GroupInv, OpensCounted, NoControl
<1>8. ActiveExact' /\ MarksKept'
  BY <1>1, <1>2 DEF GroupInv, ActiveExact, MarksKept
<1>9. GroupInv'
  BY <1>1, <1>2, <1>7, <1>8 DEF GroupInv
<1>10. QED
  BY <1>1, <1>4, <1>5, <1>9 DEF BaseInv, ClientInv

LEMMA QuiesceFacts ==
  ASSUME BaseInv, Quiesce
  PROVE  /\ up /\ RemirrorOnly /\ control.state # "none"
         /\ control' \in Control /\ ControlOK(control', AnyMirror)
         /\ control'.state = control.state /\ control'.step = control.step
         /\ control'.section = control.section /\ control'.index = control.index
         /\ control'.valid = control.valid /\ control'.check = control.check
         /\ control'.at = control.at /\ control'.buffer = control.buffer
         /\ control'.seen = control.seen
<1>1. /\ up /\ RemirrorOnly /\ control.state # "none"
      /\ control' = [control EXCEPT !.abort = TRUE]
  BY DEF Quiesce
<1>2. control \in Control /\ ControlOK(control, AnyMirror)
  BY AtWork
<1>3. /\ control' \in Control
      /\ control'.state = control.state /\ control'.step = control.step
      /\ control'.section = control.section /\ control'.index = control.index
      /\ control'.valid = control.valid /\ control'.check = control.check
      /\ control'.at = control.at /\ control'.buffer = control.buffer
      /\ control'.seen = control.seen
  BY <1>1, <1>2 DEF Control
<1>4. ControlOK(control', AnyMirror)
  BY <1>1, <1>2, <1>3 DEF ControlOK
<1>5. QED
  BY <1>1, <1>3, <1>4

LEMMA QuiesceBase == ASSUME BaseInv, Quiesce PROVE BaseInv'
<1>1. /\ up /\ RemirrorOnly /\ control.state # "none" /\ control'.state # "none"
      /\ control' \in Control /\ ControlOK(control', AnyMirror)
  BY QuiesceFacts
<1>2. QED
  BY <1>1, RemirrorStep

LEMMA BaseInit == ASSUME Init PROVE BaseInv
<1>1. /\ 0 \in Section /\ Out \in Section /\ 0 \in 0 .. SectionSize /\ 1 \in 1 .. N + 1
      /\ 0 \in 0 .. N /\ 0 \in Block /\ 0 \in Data /\ 0 \in 0 .. 2 /\ TopSection \in Nat
      /\ 0 \in 0 .. MaxWrites /\ 0 \in 0 .. MaxFailures /\ 0 \in 0 .. MaxCrashes
  BY Constants DEF Block
<1>2. NoControl \in Control /\ ControlOK(NoControl, AnyMirror)
  BY FirstControl
<1>3. NoSector \in MirrorSector
  BY <1>1 DEF NoSector, MirrorSector
<1>4. NoGroup \in GroupState /\ NoMember \in MemberState
  BY <1>1, <1>3 DEF NoGroup, NoMember, GroupState, MemberState
<1>5. TypeOK
  BY <1>1, <1>2, <1>3, <1>4, NoClientFacts DEF Init, TypeOK
<1>6. Present = {} /\ InSynch = {} /\ \A m \in Members : ~member[m].present
  BY DEF Init, Present, InSynch, NoMember
<1>7. GroupInv
  BY <1>6 DEF Init, GroupInv, Forgotten, OpensCounted, ActiveExact, MarksKept, NoGroup, NoControl
<1>8. ClientInv
  BY NoClientFacts DEF Init, ClientInv
<1>9. ControlInv
  BY <1>2 DEF Init, ControlInv
<1>10. QED
  BY <1>5, <1>7, <1>8, <1>9 DEF BaseInv

LEMMA BaseStep == ASSUME BaseInv, [Next]_vars PROVE BaseInv'
<1>1. CASE Establish
  BY <1>1, EstablishBase
<1>2. CASE Volume
  BY <1>2, MountBase, DismountBase, StartWriteBase, ReadLosesBase DEF Volume
<1>3. CASE ClientSteps
  BY <1>3, WriteMarkBase, WriteMemberBase, WriteLosesBase, WriteReturnBase DEF ClientSteps
<1>4. CASE Remirror
  BY <1>4, PollBase, ValidateCheckBase, ValidateReadBase, RemirrorCheckBase, RemirrorReadBase,
     RemirrorMarkBase, RemirrorWriteBase, RemirrorLosesBase, UpdateBase, StopRemirroringBase
     DEF Remirror
<1>5. CASE Faults
  BY <1>5, StopBase, QuiesceBase, FailDeviceBase DEF Faults
<1>6. CASE UNCHANGED vars
  <2>1. /\ UNCHANGED <<disk, saved, holders, online, up, mounted, group, member, control, client>>
        /\ UNCHANGED <<writes, failures, crashes, good, missed, exposed, overrun>>
    BY <1>6 DEF vars, durable, counters, history
  <2>2. TypeOK' /\ ClientInv'
    BY <2>1 DEF BaseInv, TypeOK, ClientInv
  <2>3. ControlInv'
    BY <2>1 DEF BaseInv, ControlInv, AnyMirror, Present
  <2>4. GroupInv'
    BY <2>1, GroupStays DEF BaseInv
  <2>5. QED
    BY <2>2, <2>3, <2>4 DEF BaseInv
<1>7. QED
  BY <1>1, <1>2, <1>3, <1>4, <1>5, <1>6 DEF Next
-----------------------------------------------------------------------------
(* What the members hold *)

\* A read of the member would return what a read of the block may return.
Right(m, b) == disk[m][b] \in good[b]

\* The remirror process wrote older data over the block, since when the volume
\* wrote the members that are not listed.
Lost(b) == \A m \in Members : <<m, b>> \in overrun \/ Right(m, b)

\* The members of S may be read, or older data were written over the block.
Sound(S, b) == (\A m \in S : Right(m, b)) \/ Lost(b)

\* What a section number says of a block: a sector's, or the member's own.
Says(section, b) == section = 0 \/ section < SectionOf(b)

\* The members that a reader, or the group when it is established next, trusts
\* with a block.  Those that missed a write and are not marked are left out.
Trusted(b) ==
  {m \in Members \ missed : \/ Says(saved.log[m], b)
                            \/ up /\ Says(group.sector.log[m], b)
                            \/ Readable(m, b)}

\* Whoever is trusted with a block has it.
TrustInv ==
  ~exposed /\ (missed = {} \/ group.active) => \A b \in Block : Sound(Trusted(b), b)

\* The blocks the remirror process has done, of the sections above and of the
\* section at work.
Reached(b) ==
  \/ SectionOf(b) > control.section
  \/ SectionOf(b) = control.section /\ b % SectionSize \in control.valid

\* All present have what the process has done.
ValidInv ==
  ~exposed /\ group.active /\ control.state # "none" =>
    \A b \in Block : Reached(b) => Sound(Present, b)

\* What is copied is what a read could return when it was read, and it is read
\* from a member in synch.
CopyInv ==
  ~exposed /\ control.state = "remirror" =>
    /\ control.buffer # NoData => control.buffer \in control.seen
    /\ control.step = "read" /\ control.at \in Present => member[control.at].insynch

\* The members the validation has compared.
Passed == {m \in Present : m < control.at}

\* The members compared so far held what the buffer holds when they were read,
\* and were written since or hold it still.  If one of them is in synch the
\* buffer holds what a read may return.
CompareInv ==
  control.state = "validate" /\ control.step # "poll" =>
    /\ control.buffer = NoData => Passed = {}
    /\ ~exposed /\ group.active /\ ControlBlock \in Block =>
         \/ Lost(ControlBlock)
         \/ /\ \A m \in Passed : Right(m, ControlBlock) \/ disk[m][ControlBlock] = control.buffer
            /\ Passed \intersect InSynch # {} =>
                 \A m \in Present : disk[m][ControlBlock] = control.buffer => Right(m, ControlBlock)

\* The members the write has passed hold its value, unless the remirror process
\* wrote over them.
WriteInv ==
  ~exposed /\ group.active /\ client.op = "write" =>
    \/ \A m \in Present : m < client.at => disk[m][client.block] = client.value
    \/ \A m \in Members : <<m, client.block>> \notin overrun =>
         m < client.at /\ disk[m][client.block] = client.value

\* What is inductive given BaseInv.
DataInv == TrustInv /\ ValidInv /\ CopyInv /\ CompareInv /\ WriteInv

-----------------------------------------------------------------------------
(* How a step keeps each part *)

\* No member that held what it may is worse off.
Kept ==
  \A b \in Block : /\ Lost(b) => Lost(b)'
                   /\ \A m \in Members : Right(m, b) => Right(m, b)' \/ Lost(b)'

\* And what has changed is right.
Better ==
  \A b \in Block :
    /\ Lost(b) => Lost(b)'
    /\ \A m \in Members : /\ Right(m, b) => Right(m, b)'
                          /\ disk'[m][b] = disk[m][b] \/ Right(m, b)'

LEMMA SameData == ASSUME UNCHANGED <<disk, good, overrun>> PROVE Better /\ Kept
  BY DEF Better, Kept, Lost, Right

LEMMA BetterKept == ASSUME Better PROVE Kept
  BY DEF Better, Kept

LEMMA TrustKeeps ==
  ASSUME TrustInv, Kept, exposed => exposed',
         ~exposed' /\ (missed' = {} \/ group'.active) => missed = {} \/ group.active,
         \A b \in Block : Trusted(b)' \subseteq Trusted(b)
  PROVE  TrustInv'
<1> SUFFICES ASSUME ~exposed', missed' = {} \/ group'.active, NEW b \in Block
             PROVE  (\A m \in Trusted(b)' : Right(m, b)') \/ Lost(b)'
  BY DEF TrustInv, Sound
<1>1. (\A m \in Trusted(b) : Right(m, b)) \/ Lost(b)
  BY DEF TrustInv, Sound
<1>2. Trusted(b) \subseteq Members
  BY DEF Trusted
<1>3. QED
  BY <1>1, <1>2 DEF Kept

LEMMA TrustQuiet ==
  ASSUME TrustInv, Kept, exposed => exposed', missed' = missed, up' = up,
         group'.active => group.active, group'.sector.log = group.sector.log,
         saved' = saved \/ (up /\ saved'.log = group.sector.log),
         \A m \in Members, b \in Block : Readable(m, b)' => Readable(m, b)
  PROVE  TrustInv'
<1>1. \A b \in Block : Trusted(b)' \subseteq Trusted(b)
  <2> SUFFICES ASSUME NEW b \in Block, NEW m \in Trusted(b)' PROVE m \in Trusted(b)
    OBVIOUS
  <2>1. /\ m \in Members \ missed
        /\ \/ Says(saved'.log[m], b)
           \/ up /\ Says(group.sector.log[m], b)
           \/ Readable(m, b)'
    BY DEF Trusted, Says, SectionOf
  <2>2. QED
    BY <2>1 DEF Trusted
<1>2. QED
  BY <1>1, TrustKeeps

LEMMA ValidKeeps ==
  ASSUME TypeOK, ValidInv, Kept, exposed => exposed', Present' \subseteq Present,
         ~exposed' /\ group'.active => group.active,
         control'.state # "none" =>
           /\ control.state # "none" /\ control'.section = control.section
           /\ control'.valid = control.valid
  PROVE  ValidInv'
<1> SUFFICES ASSUME ~exposed', group'.active, control'.state # "none", NEW b \in Block, Reached(b)'
             PROVE  (\A m \in Present' : Right(m, b)') \/ Lost(b)'
  BY DEF ValidInv, Sound
<1>1. Reached(b)
  BY DEF Reached, SectionOf
<1>2. (\A m \in Present : Right(m, b)) \/ Lost(b)
  BY <1>1 DEF ValidInv, Sound
<1>3. Present \subseteq Members
  BY PresentFacts
<1>4. QED
  BY <1>2, <1>3 DEF Kept

LEMMA CopyKeeps ==
  ASSUME CopyInv, exposed => exposed', Present' \subseteq Present,
         \A m \in Present' : member'[m].insynch = member[m].insynch,
         control'.state = "remirror" =>
           /\ control.state = "remirror" /\ control'.buffer = control.buffer
           /\ control'.seen = control.seen /\ control'.at = control.at
           /\ control'.step = control.step
  PROVE  CopyInv'
  BY DEF CopyInv

LEMMA CompareKeeps ==
  ASSUME TypeOK, CompareInv, Better, exposed => exposed', group'.active => group.active,
         Present' \subseteq Present, InSynch' \subseteq InSynch,
         control'.state = "validate" /\ control'.step # "poll" =>
           /\ control.state = "validate" /\ control.step # "poll"
           /\ control'.buffer = control.buffer
           /\ control'.section = control.section /\ control'.index = control.index
           /\ \A k \in Present' : k < control'.at <=> k < control.at
  PROVE  CompareInv'
<1> SUFFICES ASSUME control'.state = "validate", control'.step # "poll"
             PROVE  /\ control'.buffer = NoData => Passed' = {}
                    /\ ~exposed' /\ group'.active /\ ControlBlock' \in Block =>
                         \/ Lost(ControlBlock)'
                         \/ /\ \A m \in Passed' : Right(m, ControlBlock)'
                                                  \/ disk'[m][ControlBlock'] = control'.buffer
                            /\ Passed' \intersect InSynch' # {} =>
                                 \A m \in Present' : disk'[m][ControlBlock'] = control'.buffer
                                                     => Right(m, ControlBlock)'
  BY DEF CompareInv, Block
<1>1. Passed' \subseteq Passed /\ ControlBlock' = ControlBlock
  BY DEF Passed, ControlBlock
<1>2. control'.buffer = NoData => Passed' = {}
  BY <1>1 DEF CompareInv
<1>3. ASSUME ~exposed', group'.active, NEW b \in Block, b = ControlBlock
      PROVE  \/ Lost(b)'
             \/ /\ \A m \in Passed' : Right(m, b)' \/ disk'[m][b] = control.buffer
                /\ Passed' \intersect InSynch' # {} =>
                     \A m \in Present' : disk'[m][b] = control.buffer => Right(m, b)'
  <2>1. \/ Lost(b)
        \/ /\ \A m \in Passed : Right(m, b) \/ disk[m][b] = control.buffer
           /\ Passed \intersect InSynch # {} =>
                \A m \in Present : disk[m][b] = control.buffer => Right(m, b)
    BY <1>3 DEF CompareInv
  <2>2. Present \subseteq Members /\ Passed \subseteq Members
    BY PresentFacts DEF Passed
  <2>3. CASE Lost(b)
    BY <2>3 DEF Better
  <2>4. CASE /\ \A m \in Passed : Right(m, b) \/ disk[m][b] = control.buffer
             /\ Passed \intersect InSynch # {} =>
                  \A m \in Present : disk[m][b] = control.buffer => Right(m, b)
    <3>1. \A m \in Members : /\ Right(m, b) => Right(m, b)'
                             /\ disk'[m][b] = disk[m][b] \/ Right(m, b)'
      BY DEF Better
    <3>2. \A m \in Passed' : Right(m, b)' \/ disk'[m][b] = control.buffer
      BY <1>1, <2>2, <2>4, <3>1
    <3>3. Passed' \intersect InSynch' # {} =>
            \A m \in Present' : disk'[m][b] = control.buffer => Right(m, b)'
      BY <1>1, <2>2, <2>4, <3>1
    <3>4. QED
      BY <3>2, <3>3
  <2>5. QED
    BY <2>1, <2>3, <2>4
<1>4. QED
  BY <1>1, <1>2, <1>3 DEF Lost, Right

LEMMA WriteKeeps ==
  ASSUME WriteInv, UNCHANGED <<disk, overrun>>, exposed => exposed',
         group'.active => group.active, Present' \subseteq Present,
         client'.op = "write" =>
           /\ client.op = "write" /\ client'.block = client.block /\ client'.value = client.value
           /\ \A k \in Present' : k < client'.at => k < client.at
           /\ \A k \in Members : k < client.at => k < client'.at
  PROVE  WriteInv'
<1> SUFFICES ASSUME ~exposed', group'.active, client'.op = "write"
             PROVE  \/ \A m \in Present' : m < client'.at => disk'[m][client'.block] = client'.value
                    \/ \A m \in Members : <<m, client'.block>> \notin overrun' =>
                         m < client'.at /\ disk'[m][client'.block] = client'.value
  BY DEF WriteInv
<1>1. \/ \A m \in Present : m < client.at => disk[m][client.block] = client.value
      \/ \A m \in Members : <<m, client.block>> \notin overrun =>
           m < client.at /\ disk[m][client.block] = client.value
  BY DEF WriteInv
<1>2. QED
  BY <1>1
-----------------------------------------------------------------------------
(* The steps that leave the blocks alone *)

\* The group goes on with members it had, and nothing is marked.
LEMMA QuietData ==
  ASSUME BaseInv, DataInv, UNCHANGED <<disk, good, overrun, missed, client>>, up' = up,
         exposed => exposed', group'.active => group.active,
         group'.sector.log = group.sector.log,
         saved' = saved \/ (up /\ saved'.log = group.sector.log),
         Present' \subseteq Present, InSynch' \subseteq InSynch,
         \A m \in Present' : member'[m].insynch = member[m].insynch,
         \A m \in Members, b \in Block : Readable(m, b)' => Readable(m, b)
  PROVE  TrustInv' /\ WriteInv'
<1>1. Better /\ Kept
  BY SameData
<1>2. TrustInv'
  BY <1>1, TrustQuiet DEF DataInv
<1>3. WriteInv'
  BY WriteKeeps DEF DataInv
<1>4. QED
  BY <1>2, <1>3

\* And the remirror process is where it was.
LEMMA IdleData ==
  ASSUME BaseInv, DataInv, UNCHANGED <<disk, good, overrun, missed>>, up' = up,
         exposed => exposed', group'.active => group.active,
         Present' \subseteq Present, InSynch' \subseteq InSynch,
         \A m \in Present' : member'[m].insynch = member[m].insynch,
         \/ control' = NoControl
         \/ /\ control'.state = control.state /\ control'.step = control.step
            /\ control'.section = control.section /\ control'.index = control.index
            /\ control'.valid = control.valid
            /\ control'.at = control.at /\ control'.buffer = control.buffer
            /\ control'.seen = control.seen
  PROVE  ValidInv' /\ CopyInv' /\ CompareInv'
<1>1. Better /\ Kept /\ TypeOK
  BY SameData DEF BaseInv
<1>2. control' = NoControl => control'.state = "none"
  BY DEF NoControl
<1>3. ValidInv'
  BY <1>1, <1>2, ValidKeeps DEF DataInv
<1>4. CopyInv'
  BY <1>2, CopyKeeps DEF DataInv
<1>5. CompareInv'
  BY <1>1, <1>2, CompareKeeps DEF DataInv
<1>6. QED
  BY <1>3, <1>4, <1>5

LEMMA SameMembers ==
  ASSUME member' = member
  PROVE  /\ Present' = Present /\ InSynch' = InSynch
         /\ \A m \in Members, b \in Block : Readable(m, b)' => Readable(m, b)
  BY DEF Present, InSynch, Readable, SectionOf

LEMMA MountData == ASSUME BaseInv, DataInv, Mount PROVE DataInv'
<1>1. /\ up /\ group' = Opened(group) /\ group.active /\ ~mounted
      /\ IF group.opens = 0 THEN Flush(group'.sector) ELSE UNCHANGED <<saved, holders>>
      /\ UNCHANGED <<disk, up, member, control, client, good, missed, exposed, overrun>>
  BY DEF Mount, Quiet, counters, history
<1>2. TypeOK /\ group.opens < 2
  BY <1>1 DEF BaseInv, GroupInv, OpensCounted
<1>3. group'.active = group.active /\ group'.sector.log = group.sector.log
  BY <1>1, <1>2, OpenFacts
<1>4. saved' = saved \/ (up /\ saved'.log = group.sector.log)
  BY <1>1, <1>3 DEF Flush
<1>5. TrustInv' /\ WriteInv'
  BY <1>1, <1>3, <1>4, SameMembers, QuietData
<1>6. ValidInv' /\ CopyInv' /\ CompareInv'
  BY <1>1, <1>3, SameMembers, IdleData
<1>7. QED
  BY <1>5, <1>6 DEF DataInv

LEMMA DismountData == ASSUME BaseInv, DataInv, Dismount PROVE DataInv'
<1>1. /\ up /\ mounted /\ CloseGroup(group)
      /\ UNCHANGED <<disk, up, member, control, client, good, missed, exposed, overrun>>
  BY DEF Dismount, Quiet, counters, history
<1>2. TypeOK /\ group.opens > 0 /\ group \in GroupState
  BY <1>1 DEF BaseInv, GroupInv, OpensCounted, TypeOK
<1>3. /\ group'.active = group.active /\ group'.sector.log = group.sector.log
      /\ saved' = saved \/ saved'.log = group.sector.log
  BY <1>1, <1>2, CloseFacts
<1>4. TrustInv' /\ WriteInv'
  BY <1>1, <1>3, SameMembers, QuietData
<1>5. ValidInv' /\ CopyInv' /\ CompareInv'
  BY <1>1, <1>3, SameMembers, IdleData
<1>6. QED
  BY <1>4, <1>5 DEF DataInv

LEMMA FailDeviceData == ASSUME BaseInv, DataInv, NEW m \in Members, FailDevice(m) PROVE DataInv'
<1>1. UNCHANGED <<disk, saved, up, group, member, control, client, good, missed, exposed, overrun>>
  BY DEF FailDevice, durable, history
<1>2. TrustInv' /\ WriteInv'
  BY <1>1, SameMembers, QuietData
<1>3. ValidInv' /\ CopyInv' /\ CompareInv'
  BY <1>1, SameMembers, IdleData
<1>4. QED
  BY <1>2, <1>3 DEF DataInv

LEMMA SameRest ==
  ASSUME RemirrorOnly
  PROVE  /\ UNCHANGED <<disk, saved, up, group, member, client, good, missed, exposed, overrun>>
         /\ Present' = Present /\ InSynch' = InSynch
  BY SameMembers DEF RemirrorOnly, durable, history

LEMMA RemirrorQuiet == ASSUME BaseInv, DataInv, RemirrorOnly PROVE TrustInv' /\ WriteInv'
  BY SameRest, SameMembers, QuietData

LEMMA QuiesceData == ASSUME BaseInv, DataInv, Quiesce PROVE DataInv'
<1>1. /\ RemirrorOnly
      /\ control'.state = control.state /\ control'.step = control.step
      /\ control'.section = control.section /\ control'.index = control.index
      /\ control'.valid = control.valid
      /\ control'.at = control.at /\ control'.buffer = control.buffer
      /\ control'.seen = control.seen
  BY QuiesceFacts
<1>2. TrustInv' /\ WriteInv'
  BY <1>1, RemirrorQuiet
<1>3. ValidInv' /\ CopyInv' /\ CompareInv'
  BY <1>1, SameRest, IdleData
<1>4. QED
  BY <1>2, <1>3 DEF DataInv

LEMMA StopRemirroringData == ASSUME BaseInv, DataInv, Finish \/ Abort PROVE DataInv'
<1>1. /\ up /\ control' = NoControl /\ Present' = Present /\ InSynch' = InSynch
      /\ \A m \in Members : /\ member'[m].insynch = member[m].insynch
                            /\ member'[m].section = member[m].section
      /\ group'.active = group.active /\ group'.sector.log = group.sector.log
      /\ saved' = saved \/ saved'.log = group.sector.log
      /\ UNCHANGED <<disk, up, client, good, missed, exposed, overrun>>
  BY StopRemirroringFacts
<1>2. \A m \in Members, b \in Block : Readable(m, b)' => Readable(m, b)
  BY <1>1 DEF Readable, SectionOf, Present
<1>3. Present \subseteq Members
  BY PresentFacts DEF BaseInv
<1>4. TrustInv' /\ WriteInv'
  BY <1>1, <1>2, <1>3, QuietData
<1>5. ValidInv' /\ CopyInv' /\ CompareInv'
  BY <1>1, <1>3, IdleData
<1>6. QED
  BY <1>4, <1>5 DEF DataInv

\* A member that is lost.
LEMMA OfflineQuiet ==
  ASSUME BaseInv, NEW m \in Members, Offline(m)
  PROVE  /\ group'.active => group.active
         /\ group'.sector.log = group.sector.log
         /\ saved' = saved \/ saved'.log = group.sector.log
         /\ Present' = Present \ {m} /\ Present' \subseteq Present /\ InSynch' \subseteq InSynch
         /\ \A k \in Present' : member'[k].insynch = member[k].insynch
         /\ \A k \in Members, b \in Block : Readable(k, b)' => Readable(k, b)
<1>1. TypeOK /\ OpensCounted
  BY DEF BaseInv, GroupInv
<1>2. /\ group'.sector.log = group.sector.log
      /\ Present' = Present \ {m} /\ InSynch' = InSynch \ {m}
      /\ \A k \in Members : member'[k].insynch = member[k].insynch
      /\ \A k \in Members : member'[k].section = member[k].section \/ k \in InSynch'
      /\ (group'.active <=> group.active /\ InSynch' # {})
      /\ saved' = saved \/ saved'.log = group.sector.log
  BY <1>1, OfflineFacts
<1>3. Present \subseteq Members
  BY <1>1, PresentFacts
<1>4. \A k \in Members : member'[k].present => k \in Present'
  BY DEF Present
<1>5. \A k \in Members, b \in Block : Readable(k, b)' => Readable(k, b)
  <2> SUFFICES ASSUME NEW k \in Members, NEW b \in Block, Readable(k, b)' PROVE Readable(k, b)
    OBVIOUS
  <2>1. member'[k].present /\ (member'[k].insynch \/ member'[k].section < SectionOf(b))
    BY DEF Readable, SectionOf
  <2>2. k \in Present /\ member[k].present
    BY <1>2, <1>4, <2>1 DEF Present
  <2>3. k \in InSynch' => member[k].insynch
    BY <1>2 DEF InSynch
  <2>4. QED
    BY <1>2, <2>1, <2>2, <2>3 DEF Readable
<1>6. QED
  BY <1>2, <1>3, <1>5

LEMMA ReadLosesData ==
  ASSUME BaseInv, DataInv, NEW m \in Members, NEW b \in Block, ReadLosesMember(m, b)
  PROVE  DataInv'
<1>1. /\ up /\ Offline(m)
      /\ UNCHANGED <<disk, up, control, client, good, missed, exposed, overrun>>
  BY DEF ReadLosesMember, counters, history
<1>2. /\ group'.active => group.active
      /\ group'.sector.log = group.sector.log
      /\ saved' = saved \/ saved'.log = group.sector.log
      /\ Present' \subseteq Present /\ InSynch' \subseteq InSynch
      /\ \A k \in Present' : member'[k].insynch = member[k].insynch
      /\ \A k \in Members, c \in Block : Readable(k, c)' => Readable(k, c)
  BY <1>1, OfflineQuiet
<1>3. TrustInv' /\ WriteInv'
  BY <1>1, <1>2, QuietData
<1>4. ValidInv' /\ CopyInv' /\ CompareInv'
  BY <1>1, <1>2, IdleData
<1>5. QED
  BY <1>3, <1>4 DEF DataInv

LEMMA WriteLosesData == ASSUME BaseInv, DataInv, WriteLosesMember PROVE DataInv'
<1> DEFINE m == NextPresent(client.at)
<1>1. /\ up /\ m \in Members /\ Offline(m) /\ client.op = "write"
      /\ client'.op = "write" /\ client'.block = client.block
      /\ client'.value = client.value /\ client'.at = m + 1
      /\ UNCHANGED <<disk, up, control, good, missed, exposed, overrun>>
  BY WriteLosesFacts
<1>2. /\ group'.active => group.active
      /\ group'.sector.log = group.sector.log
      /\ saved' = saved \/ saved'.log = group.sector.log
      /\ Present' = Present \ {m} /\ Present' \subseteq Present /\ InSynch' \subseteq InSynch
      /\ \A k \in Present' : member'[k].insynch = member[k].insynch
      /\ \A k \in Members, b \in Block : Readable(k, b)' => Readable(k, b)
  BY <1>1, OfflineQuiet
<1>3. /\ \A k \in Present : k < m + 1 <=> k < client.at \/ k = m
      /\ client.at <= m
  <2>1. NextPresent(client.at) <= N
    BY <1>1 DEF WriteLosesMember
  <2>2. QED
    BY <1>1, <2>1, AtMember
<1>4. \A k \in Members : k < client.at => k < m + 1
  <2>1. client.at \in Int /\ m \in Int /\ Members \subseteq Int
    BY <1>1, Constants DEF BaseInv, TypeOK, Client
  <2> HIDE DEF m
  <2>2. QED
    BY <1>3, <2>1
<1> HIDE DEF m
<1>5. Better /\ Kept /\ TypeOK
  BY <1>1, SameData DEF BaseInv
<1>6. TrustInv'
  BY <1>1, <1>2, <1>5, TrustQuiet DEF DataInv
<1>7. WriteInv'
  <2>1. \A k \in Present' : k < client'.at => k < client.at
    BY <1>1, <1>2, <1>3
  <2>2. QED
    BY <1>1, <1>2, <1>4, <2>1, WriteKeeps DEF DataInv
<1>8. ValidInv' /\ CopyInv' /\ CompareInv'
  BY <1>1, <1>2, IdleData
<1>9. QED
  BY <1>6, <1>7, <1>8 DEF DataInv
-----------------------------------------------------------------------------
(* Marking members, establishing and stopping *)

LEMMA OutSaysNothing == ASSUME NEW b \in Block PROVE ~Says(Out, b) /\ ~Says(TopSection + 1, b)
<1>1. SectionOf(b) \in 0 .. TopSection /\ TopSection \in Nat /\ Out = TopSection + 2
  BY Sections, Constants
<1> DEFINE s == SectionOf(b)
<1>2. s <= TopSection /\ s \in Nat
  BY <1>1
<1> HIDE DEF s
<1>3. ~(Out < s) /\ Out # 0 /\ ~(TopSection + 1 < s) /\ TopSection + 1 # 0
  BY <1>1, <1>2
<1>4. QED
  BY <1>3 DEF Says, s

\* Once the absent are marked only those present are trusted.
LEMMA MarkTrust ==
  ASSUME BaseInv, TrustInv, up, MarkAbsent, UNCHANGED <<disk, good, overrun, up, exposed>>
  PROVE  TrustInv'
<1>1. TypeOK /\ GroupInv
  BY DEF BaseInv
<1>2. /\ group'.active = group.active /\ Present' = Present
      /\ \A m \in Members : m \in Present => member'[m] = member[m]
      /\ \/ /\ group.active /\ missed' = {}
            /\ group'.sector.log = [m \in Members |-> IF m \in Present THEN group.sector.log[m] ELSE Out]
            /\ saved' = group'.sector
         \/ /\ missed' = missed /\ saved' = saved /\ group'.sector = group.sector
            /\ member' = member
  BY <1>1, MarkFacts
<1>3. CASE /\ group.active /\ missed' = {}
           /\ group'.sector.log = [m \in Members |-> IF m \in Present THEN group.sector.log[m] ELSE Out]
           /\ saved' = group'.sector
  <2>1. \A b \in Block : Trusted(b)' \subseteq Trusted(b)
    <3> SUFFICES ASSUME NEW b \in Block, NEW m \in Trusted(b)' PROVE m \in Trusted(b)
      OBVIOUS
    <3>1. /\ m \in Members
          /\ Says(group'.sector.log[m], b) \/ Readable(m, b)'
      BY <1>3 DEF Trusted, Says, SectionOf
    <3>2. m \in Present
      <4>1. Readable(m, b)' => m \in Present'
        BY <3>1 DEF Readable, Present
      <4>2. m \notin Present => group'.sector.log[m] = Out
        BY <1>3, <3>1
      <4>3. QED
        BY <1>2, <3>1, <4>1, <4>2, OutSaysNothing
    <3>3. m \notin missed
      BY <1>1, <3>2 DEF GroupInv
    <3>4. Says(group.sector.log[m], b) \/ Readable(m, b)
      <4>1. group'.sector.log[m] = group.sector.log[m]
        BY <1>3, <3>1, <3>2
      <4>2. Readable(m, b)' => Readable(m, b)
        BY <1>2, <3>1, <3>2 DEF Readable, SectionOf
      <4>3. QED
        BY <3>1, <4>1, <4>2
    <3>5. QED
      BY <3>1, <3>3, <3>4 DEF Trusted
  <2>2. QED
    BY <1>2, <1>3, <2>1, SameData, TrustKeeps
<1>4. CASE /\ missed' = missed /\ saved' = saved /\ group'.sector = group.sector
           /\ member' = member
  BY <1>2, <1>4, SameData, SameMembers, TrustQuiet
<1>5. QED
  BY <1>2, <1>3, <1>4

LEMMA WriteMarkData == ASSUME BaseInv, DataInv, WriteMark PROVE DataInv'
<1> DEFINE m  == NextPresent(client.at)
           at == IF group.active THEN m ELSE m + 1
<1>1. /\ client.op = "write" /\ m <= N /\ MarkAbsent /\ client' = [client EXCEPT !.at = at]
      /\ UNCHANGED <<disk, up, control, good, exposed, overrun>>
  BY DEF WriteMark, counters
<1>2. TypeOK /\ up /\ client \in Client
  BY <1>1, AtMember DEF BaseInv, TypeOK
<1>3. /\ group'.active = group.active /\ Present' = Present /\ InSynch' = InSynch
      /\ \A k \in Members : k \in Present => member'[k] = member[k]
  BY <1>1, <1>2, MarkFacts
<1>4. TrustInv'
  BY <1>1, <1>2, MarkTrust DEF DataInv
<1>5. WriteInv'
  <2>1. /\ \A k \in Present : k < m <=> k < client.at
        /\ client.at <= m /\ m \in Members /\ client.at \in 1 .. N + 1
    BY <1>1, <1>2, AtMember DEF Client
  <2> HIDE DEF m
  <2>2. \A k \in Members : k < client.at => k < m
    BY <2>1, Constants
  <2>3. /\ client'.op = "write" /\ client'.block = client.block /\ client'.value = client.value
        /\ group.active => client'.at = m
    BY <1>1, <1>2 DEF Client
  <2>4. CASE group.active
    BY <1>1, <1>3, <2>1, <2>2, <2>3, <2>4, WriteKeeps DEF DataInv
  <2>5. CASE ~group.active
    BY <1>3, <2>5 DEF WriteInv
  <2>6. QED
    BY <2>4, <2>5
<1>6. Present \subseteq Members
  BY <1>2, PresentFacts
<1>7. Better /\ Kept
  BY <1>1, SameData
<1>8. ValidInv'
  BY <1>1, <1>2, <1>3, <1>7, ValidKeeps DEF DataInv
<1>9. CopyInv'
  BY <1>1, <1>3, <1>6, CopyKeeps DEF DataInv
<1>10. CompareInv'
  BY <1>1, <1>2, <1>3, <1>7, CompareKeeps DEF DataInv
<1>11. QED
  BY <1>4, <1>5, <1>8, <1>9, <1>10 DEF DataInv

\* When a block is done with nothing is held of it.
LEMMA OnwardData ==
  ASSUME BaseInv, DataInv, Onward(control, control', AnyMirror), control.state # "none",
         UNCHANGED <<disk, good, overrun>>, exposed => exposed',
         group'.active => group.active, Present' \subseteq Present
  PROVE  /\ CopyInv' /\ CompareInv'
         /\ control'.valid = control.valid => ValidInv'
<1>1. control'.step = "poll" /\ control'.buffer = NoData /\ control'.section = control.section
  BY DEF Onward
<1>2. CopyInv' /\ CompareInv'
  BY <1>1 DEF CopyInv, CompareInv
<1>3. ASSUME control'.valid = control.valid PROVE ValidInv'
  <2>1. Kept /\ TypeOK
    BY SameData DEF BaseInv
  <2>2. QED
    BY <1>1, <1>3, <2>1, ValidKeeps DEF DataInv
<1>4. QED
  BY <1>2, <1>3

LEMMA RemirrorMarkData == ASSUME BaseInv, DataInv, RemirrorMark PROVE DataInv'
<1>1. /\ up /\ MarkAbsent /\ control.state = "remirror"
      /\ \/ control' = control
         \/ Onward(control, control', AnyMirror) /\ control'.valid = control.valid
      /\ UNCHANGED <<disk, up, client, good, exposed, overrun>>
  BY RemirrorMarkFacts
<1>2. TypeOK
  BY DEF BaseInv
<1>3. /\ group'.active = group.active /\ Present' = Present /\ InSynch' = InSynch
      /\ \A k \in Members : k \in Present => member'[k] = member[k]
  BY <1>1, <1>2, MarkFacts
<1>4. TrustInv'
  BY <1>1, MarkTrust DEF DataInv
<1>5. WriteInv'
  BY <1>1, <1>3, WriteKeeps DEF DataInv
<1>6. Better /\ Kept /\ Present \subseteq Members
  BY <1>1, <1>2, SameData, PresentFacts
<1>7. CASE control' = control
  <2>1. ValidInv'
    BY <1>1, <1>2, <1>3, <1>6, <1>7, ValidKeeps DEF DataInv
  <2>2. CopyInv'
    BY <1>1, <1>3, <1>6, <1>7, CopyKeeps DEF DataInv
  <2>3. CompareInv'
    BY <1>1, <1>2, <1>3, <1>6, <1>7, CompareKeeps DEF DataInv
  <2>4. QED
    BY <1>4, <1>5, <2>1, <2>2, <2>3 DEF DataInv
<1>8. CASE Onward(control, control', AnyMirror) /\ control'.valid = control.valid
  BY <1>1, <1>3, <1>4, <1>5, <1>8, OnwardData DEF DataInv
<1>9. QED
  BY <1>1, <1>7, <1>8

\* What the sectors said when the system went down is all that is trusted.
LEMMA EstablishData == ASSUME BaseInv, DataInv, Establish PROVE DataInv'
<1>1. TypeOK /\ GroupInv
  BY DEF BaseInv
<1>2. /\ ~up /\ up' /\ group'.sector.log = saved.log /\ saved' = group'.sector
      /\ \A m \in Members : /\ member'[m].insynch => saved.log[m] = 0
                            /\ member'[m].section \in {saved.log[m], TopSection + 1, Out}
      /\ \/ control' = NoControl
         \/ control' = [NoControl EXCEPT !.state = "validate", !.section = TopSection]
      /\ UNCHANGED <<disk, client, good, missed, exposed, overrun>>
  BY <1>1, EstablishFacts
<1>3. missed = {} /\ client.op # "write"
  BY <1>1, <1>2 DEF GroupInv, Forgotten, NoClient
<1>4. \A b \in Block : Trusted(b)' \subseteq Trusted(b)
  <2> SUFFICES ASSUME NEW b \in Block, NEW m \in Trusted(b)' PROVE m \in Trusted(b)
    OBVIOUS
  <2>1. m \in Members /\ (Says(saved.log[m], b) \/ Readable(m, b)')
    BY <1>2 DEF Trusted, Says, SectionOf
  <2>2. Readable(m, b)' => Says(saved.log[m], b)
    <3>1. ASSUME Readable(m, b)' PROVE Says(saved.log[m], b)
      <4>1. member'[m].insynch \/ Says(member'[m].section, b)
        BY <3>1 DEF Readable, SectionOf, Says
      <4>2. member'[m].insynch => Says(saved.log[m], b)
        BY <1>2, <2>1 DEF Says
      <4>3. QED
        BY <1>2, <2>1, <4>1, <4>2, OutSaysNothing
    <3>2. QED
      BY <3>1
  <2>3. QED
    BY <1>3, <2>1, <2>2 DEF Trusted
<1>5. TrustInv'
  BY <1>2, <1>3, <1>4, SameData, TrustKeeps DEF DataInv
<1> DEFINE c == [NoControl EXCEPT !.state = "validate", !.section = TopSection]
<1>6. c.state = "validate" /\ c.step = "poll" /\ c.section = TopSection /\ c.valid = {}
  BY FirstControl
<1>7. control' = NoControl \/ control' = c
  BY <1>2
<1> HIDE DEF c
<1>8. NoControl.state = "none"
  BY DEF NoControl
<1>9. \A b \in Block : ~(SectionOf(b) > TopSection)
  BY Sections, Constants
<1>10. ValidInv'
  <2>1. CASE control' = NoControl
    BY <1>8, <2>1 DEF ValidInv
  <2>2. CASE control' = c
    <3>1. \A b \in Block : ~Reached(b)'
      BY <1>6, <1>9, <2>2 DEF Reached, SectionOf
    <3>2. QED
      BY <3>1 DEF ValidInv
  <2>3. QED
    BY <1>7, <2>1, <2>2
<1>11. CopyInv' /\ CompareInv'
  BY <1>6, <1>7, <1>8 DEF CopyInv, CompareInv
<1>12. WriteInv'
  BY <1>2, <1>3 DEF WriteInv
<1>13. QED
  BY <1>5, <1>10, <1>11, <1>12 DEF DataInv

LEMMA StopData == ASSUME BaseInv, DataInv, Stop PROVE DataInv'
<1>1. /\ ~up' /\ control' = NoControl /\ client' = NoClient /\ saved' = saved
      /\ member' = [m \in Members |-> NoMember]
      /\ exposed' = (exposed \/ missed # {}) /\ missed' = {}
      /\ UNCHANGED <<disk, good, overrun>>
  BY DEF Stop, durable
<1>2. \A m \in Members : ~member'[m].present
  BY <1>1 DEF NoMember
<1>3. TrustInv'
  <2>1. CASE missed # {}
    BY <1>1, <2>1 DEF TrustInv
  <2>2. CASE missed = {}
    <3>1. \A b \in Block : Trusted(b)' \subseteq Trusted(b)
      <4> SUFFICES ASSUME NEW b \in Block, NEW m \in Trusted(b)' PROVE m \in Trusted(b)
        OBVIOUS
      <4>1. m \in Members /\ (Says(saved.log[m], b) \/ Readable(m, b)')
        BY <1>1 DEF Trusted, Says, SectionOf
      <4>2. ~Readable(m, b)'
        BY <1>2, <4>1 DEF Readable
      <4>3. QED
        BY <2>2, <4>1, <4>2 DEF Trusted
    <3>2. QED
      BY <1>1, <2>2, <3>1, SameData, TrustKeeps DEF DataInv
  <2>3. QED
    BY <2>1, <2>2
<1>4. NoControl.state = "none" /\ NoClient.op = "idle"
  BY DEF NoControl, NoClient
<1>5. QED
  BY <1>1, <1>3, <1>4 DEF DataInv, ValidInv, CopyInv, CompareInv, WriteInv

-----------------------------------------------------------------------------
(* The write of the volume *)

LEMMA StartWriteData == ASSUME BaseInv, DataInv, NEW b \in Block, StartWrite(b) PROVE DataInv'
<1>1. /\ up /\ client' = [op |-> "write", block |-> b, value |-> writes', at |-> 1, success |-> 0]
      /\ good' = [good EXCEPT ![b] = @ \union {writes'}]
      /\ UNCHANGED <<disk, saved, up, group, member, control, missed, exposed, overrun>>
  BY DEF StartWrite, Quiet, durable
<1>2. TypeOK
  BY DEF BaseInv
<1>3. \A c \in Block : good[c] \subseteq good'[c]
  BY <1>1, <1>2 DEF TypeOK
<1>4. \A c \in Block, m \in Members : /\ Right(m, c) => Right(m, c)'
                                      /\ disk'[m][c] = disk[m][c]
  BY <1>1, <1>3 DEF Right
<1>5. Better /\ Kept
  BY <1>1, <1>4, BetterKept DEF Better, Lost
<1>6. TrustInv'
  BY <1>1, <1>5, SameMembers, TrustQuiet DEF DataInv
<1>7. ValidInv'
  BY <1>1, <1>2, <1>5, SameMembers, ValidKeeps DEF DataInv
<1>8. CopyInv'
  BY <1>1, SameMembers, CopyKeeps DEF DataInv
<1>9. CompareInv'
  BY <1>1, <1>2, <1>5, SameMembers, CompareKeeps DEF DataInv
<1>10. WriteInv'
  <2>1. \A m \in Present' : ~(m < 1)
    BY <1>1, <1>2, SameMembers, PresentFacts, Constants
  <2>2. client'.at = 1
    BY <1>1
  <2>3. QED
    BY <2>1, <2>2 DEF WriteInv
<1>11. QED
  BY <1>6, <1>7, <1>8, <1>9, <1>10 DEF DataInv

LEMMA WriteMemberData == ASSUME BaseInv, DataInv, WriteMember PROVE DataInv'
<1>a. client.block \in Block
  BY DEF BaseInv, TypeOK, Client
<1>b. NextPresent(client.at) \in Members
  BY WriteMemberFacts
<1>c. PICK c \in Block : c = client.block
  BY <1>a
<1>d. PICK m \in Members : m = NextPresent(client.at)
  BY <1>b
<1>1. /\ up /\ m \in Members /\ m \in Present /\ client.op = "write" /\ c \in Block
      /\ disk' = [disk EXCEPT ![m][c] = client.value]
      /\ client'.op = "write" /\ client'.block = c
      /\ client'.value = client.value /\ client'.at = m + 1
      /\ overrun' = overrun \ {<<m, c>>}
      /\ UNCHANGED <<saved, up, group, member, control, good, missed, exposed>>
  BY <1>c, <1>d, WriteMemberFacts
<1>2. TypeOK /\ client.value \in good[c] /\ client.at \in 1 .. N + 1
  BY <1>1, <1>c DEF BaseInv, ClientInv, TypeOK, Client
<1>3. /\ \A k \in Present : k < m + 1 <=> k < client.at \/ k = m
      /\ client.at <= m
  <2>1. NextPresent(client.at) <= N
    BY <1>1, <1>d, Constants DEF BaseInv, WriteMember
  <2>2. QED
    BY <1>1, <1>d, <2>1, AtMember
<1>4. \A k \in Members, b \in Block :
        /\ <<k, b>> # <<m, c>> => disk'[k][b] = disk[k][b]
        /\ <<k, b>> = <<m, c>> => disk'[k][b] = client.value
  BY <1>1, <1>2 DEF TypeOK
<1>5. Right(m, c)'
  BY <1>1, <1>2, <1>4 DEF Right
<1>6. \A k \in Members, b \in Block :
        /\ Right(k, b) => Right(k, b)'
        /\ disk'[k][b] = disk[k][b] \/ Right(k, b)'
        /\ <<k, b>> \in overrun => <<k, b>> \in overrun' \/ Right(k, b)'
  <2> SUFFICES ASSUME NEW k \in Members, NEW b \in Block
               PROVE  /\ Right(k, b) => Right(k, b)'
                      /\ disk'[k][b] = disk[k][b] \/ Right(k, b)'
                      /\ <<k, b>> \in overrun => <<k, b>> \in overrun' \/ Right(k, b)'
    OBVIOUS
  <2>1. CASE k = m /\ b = c
    BY <1>5, <2>1
  <2>2. CASE ~(k = m /\ b = c)
    BY <1>1, <1>4, <2>2 DEF Right
  <2>3. QED
    BY <2>1, <2>2
<1>7. Better /\ Kept
  <2>1. \A b \in Block : Lost(b) => Lost(b)'
    BY <1>6 DEF Lost
  <2>2. QED
    BY <1>6, <2>1, BetterKept DEF Better
<1>8. TrustInv'
  BY <1>1, <1>7, SameMembers, TrustQuiet DEF DataInv
<1>9. ValidInv'
  BY <1>1, <1>2, <1>7, SameMembers, ValidKeeps DEF DataInv
<1>10. CopyInv'
  BY <1>1, SameMembers, CopyKeeps DEF DataInv
<1>11. CompareInv'
  BY <1>1, <1>2, <1>7, SameMembers, CompareKeeps DEF DataInv
<1>12. WriteInv'
  <2> SUFFICES ASSUME ~exposed', group'.active
               PROVE  \/ \A k \in Present' : k < m + 1 => disk'[k][c] = client.value
                      \/ \A k \in Members : <<k, c>> \notin overrun' =>
                           k < m + 1 /\ disk'[k][c] = client.value
    BY <1>1 DEF WriteInv
  <2>1. \/ \A k \in Present : k < client.at => disk[k][c] = client.value
        \/ \A k \in Members : <<k, c>> \notin overrun =>
             k < client.at /\ disk[k][c] = client.value
    BY <1>1, <1>c DEF DataInv, WriteInv
  <2>2. Present' = Present /\ Present \subseteq Members
    BY <1>1, <1>2, SameMembers, PresentFacts
  <2>3. \A k \in Members : k < client.at \/ k = m => k < m + 1
    BY <1>1, <1>2, <1>3, Constants
  <2>4. CASE \A k \in Present : k < client.at => disk[k][c] = client.value
    BY <1>1, <1>3, <1>4, <2>2, <2>4
  <2>5. CASE \A k \in Members : <<k, c>> \notin overrun =>
               k < client.at /\ disk[k][c] = client.value
    BY <1>1, <1>4, <2>3, <2>5
  <2>6. QED
    BY <2>1, <2>4, <2>5
<1>13. QED
  BY <1>8, <1>9, <1>10, <1>11, <1>12 DEF DataInv

\* The write is acknowledged: what it did not reach is marked, or counts as missed.
LEMMA WriteReturnData == ASSUME BaseInv, DataInv, WriteReturn PROVE DataInv'
<1>a. client.block \in Block /\ client.value \in Data
  BY DEF BaseInv, TypeOK, Client
<1>b. PICK c \in Block : c = client.block
  BY <1>a
<1>c. PICK v \in Data : v = client.value
  BY <1>a
<1>1. /\ client.op = "write" /\ NextPresent(client.at) = N + 1 /\ client' = NoClient
      /\ \/ /\ good' = [good EXCEPT ![c] = {v}]
            /\ missed' = missed \union {m \in Members \ Present : group.sector.log[m] # Out}
         \/ good' = good /\ missed' = missed
      /\ UNCHANGED <<disk, saved, up, group, member, control, exposed, overrun>>
  BY <1>b, <1>c DEF WriteReturn, durable, counters
<1>2. /\ TypeOK /\ GroupInv /\ c \in Block /\ v \in good[c] /\ client.at \in 1 .. N + 1
      /\ client.op # NoClient.op
  BY <1>1, <1>b, <1>c, NoClientFacts DEF BaseInv, TypeOK, Client, ClientInv
<1>3. up
  BY <1>1, <1>2 DEF GroupInv, Forgotten, NoClient
<1>4. Present \subseteq Members /\ \A k \in Present : k < client.at
  BY <1>1, <1>2, NextPresentIn, PresentFacts
<1>5. WriteInv' /\ CopyInv'
  <2>1. WriteInv'
    BY <1>1, NoClientFacts DEF WriteInv
  <2>2. CopyInv'
    BY <1>1, SameMembers, CopyKeeps DEF DataInv
  <2>3. QED
    BY <2>1, <2>2
<1>6. CASE good' = good /\ missed' = missed
  <2>1. Better /\ Kept
    BY <1>1, <1>6, SameData
  <2>2. TrustInv'
    BY <1>1, <1>6, <2>1, SameMembers, TrustQuiet DEF DataInv
  <2>3. ValidInv' /\ CompareInv'
    BY <1>1, <1>2, <2>1, SameMembers, ValidKeeps, CompareKeeps DEF DataInv
  <2>4. QED
    BY <1>5, <2>2, <2>3 DEF DataInv
<1>7. CASE /\ good' = [good EXCEPT ![c] = {v}]
           /\ missed' = missed \union {m \in Members \ Present : group.sector.log[m] # Out}
  <2>1. CASE exposed \/ ~group.active
    <3>1. ~exposed => missed' # {}
      BY <1>2, <1>3, <1>7, <2>1 DEF GroupInv, ActiveExact
    <3>2. TrustInv' /\ ValidInv'
      BY <1>1, <2>1, <3>1 DEF TrustInv, ValidInv
    <3>3. CompareInv'
      <4>1. Passed' = Passed
        BY <1>1, SameMembers DEF Passed
      <4>2. QED
        BY <1>1, <2>1, <4>1 DEF DataInv, CompareInv
    <3>4. QED
      BY <1>5, <3>2, <3>3 DEF DataInv
  <2>2. CASE ~exposed /\ group.active
    <3>1. \A b \in Block \ {c}, m \in Members :
            /\ Right(m, b)' <=> Right(m, b)
            /\ Lost(b)' <=> Lost(b)
      BY <1>1, <1>2, <1>7 DEF Right, Lost, TypeOK
    <3>2. \A m \in Members : disk[m][c] = v => Right(m, c)'
      BY <1>1, <1>2, <1>7 DEF Right, TypeOK
    <3>3. (\A m \in Present : Right(m, c)') \/ Lost(c)'
      <4>1. \/ \A m \in Present : m < client.at => disk[m][c] = v
            \/ \A m \in Members : <<m, c>> \notin overrun => disk[m][c] = v
        BY <1>1, <1>b, <1>c, <2>2 DEF DataInv, WriteInv
      <4>2. CASE \A m \in Present : m < client.at => disk[m][c] = v
        BY <1>4, <3>2, <4>2
      <4>3. CASE \A m \in Members : <<m, c>> \notin overrun => disk[m][c] = v
        BY <1>1, <3>2, <4>3 DEF Lost
      <4>4. QED
        BY <4>1, <4>2, <4>3
    <3>4. TrustInv'
      <4> SUFFICES ASSUME NEW b \in Block
                   PROVE  (\A m \in Trusted(b)' : Right(m, b)') \/ Lost(b)'
        BY DEF TrustInv, Sound
      <4>1. Trusted(b)' \subseteq Trusted(b) /\ Trusted(b) \subseteq Members
        BY <1>1, <1>7, SameMembers DEF Trusted, Says, SectionOf
      <4>2. Trusted(b)' \subseteq Present
        <5> SUFFICES ASSUME NEW m \in Trusted(b)', m \notin Present PROVE FALSE
          OBVIOUS
        <5>1. m \in Members /\ m \notin missed'
          BY DEF Trusted
        <5>2. group.sector.log[m] = Out
          BY <1>7, <5>1
        <5>3. saved.log[m] = Out
          BY <1>2, <1>3, <5>1, <5>2 DEF GroupInv, MarksKept
        <5>4. ~Readable(m, b)
          BY <5>1 DEF Readable, Present
        <5>5. m \in Trusted(b)
          BY <4>1
        <5>6. QED
          BY <5>2, <5>3, <5>4, <5>5, OutSaysNothing DEF Trusted
      <4>3. (\A m \in Trusted(b) : Right(m, b)) \/ Lost(b)
        BY <2>2 DEF DataInv, TrustInv, Sound
      <4>4. CASE b = c
        BY <3>3, <4>2, <4>4
      <4>5. CASE b # c
        BY <3>1, <4>1, <4>3, <4>5
      <4>6. QED
        BY <4>4, <4>5
    <3>5. ValidInv'
      <4> SUFFICES ASSUME control.state # "none", NEW b \in Block, Reached(b)'
                   PROVE  (\A m \in Present' : Right(m, b)') \/ Lost(b)'
        BY <1>1 DEF ValidInv, Sound
      <4>1. Present' = Present /\ Reached(b)
        BY <1>1, SameMembers DEF Reached, SectionOf
      <4>2. (\A m \in Present : Right(m, b)) \/ Lost(b)
        BY <2>2, <4>1 DEF DataInv, ValidInv, Sound
      <4>3. QED
        BY <1>4, <3>1, <3>3, <4>1, <4>2
    <3>6. CompareInv'
      <4> SUFFICES ASSUME control.state = "validate", control.step # "poll"
                   PROVE  CompareInv'
        BY <1>1 DEF CompareInv
      <4>1. /\ Present' = Present /\ InSynch' = InSynch /\ Passed' = Passed
            /\ ControlBlock' = ControlBlock /\ Passed \subseteq Present
        BY <1>1, SameMembers DEF Passed, ControlBlock
      <4>2. control'.buffer = NoData => Passed' = {}
        BY <1>1, <4>1 DEF DataInv, CompareInv
      <4>3. ASSUME NEW b \in Block, b = ControlBlock
            PROVE  \/ Lost(b)'
                   \/ /\ \A m \in Passed : Right(m, b)' \/ disk[m][b] = control.buffer
                      /\ Passed \intersect InSynch # {} =>
                           \A m \in Present : disk[m][b] = control.buffer => Right(m, b)'
        <5>1. CASE b = c
          BY <3>3, <4>1, <5>1
        <5>2. CASE b # c
          <6>1. \/ Lost(b)
                \/ /\ \A m \in Passed : Right(m, b) \/ disk[m][b] = control.buffer
                   /\ Passed \intersect InSynch # {} =>
                        \A m \in Present : disk[m][b] = control.buffer => Right(m, b)
            BY <2>2, <4>3 DEF DataInv, CompareInv
          <6>2. QED
            BY <1>4, <3>1, <4>1, <5>2, <6>1
        <5>3. QED
          BY <5>1, <5>2
      <4>4. QED
        BY <1>1, <4>1, <4>2, <4>3 DEF CompareInv, Lost, Right, Block
    <3>7. QED
      BY <1>5, <3>4, <3>5, <3>6 DEF DataInv
  <2>3. QED
    BY <2>1, <2>2
<1>8. QED
  BY <1>1, <1>6, <1>7
-----------------------------------------------------------------------------
(* The remirror process *)

LEMMA PollData == ASSUME BaseInv, DataInv, Poll PROVE DataInv'
<1>1. /\ RemirrorOnly /\ control.state # "none"
      /\ control'.buffer = NoData /\ control'.at = 1
      /\ control'.section = control.section /\ control'.valid = control.valid
      /\ control'.step \in {"poll", "check"}
  BY PollFacts
<1>2. TrustInv' /\ WriteInv'
  BY <1>1, RemirrorQuiet
<1>3. TypeOK
  BY DEF BaseInv
<1>4. ValidInv'
  <2>1. Kept
    BY <1>1, SameRest, SameData
  <2>2. QED
    BY <1>1, <1>3, <2>1, SameRest, ValidKeeps DEF DataInv
<1>5. CopyInv'
  BY <1>1 DEF CopyInv
<1>6. CompareInv'
  <2>1. \A m \in Present' : ~(m < 1)
    BY <1>1, <1>3, SameRest, PresentFacts, Constants
  <2>2. Passed' = {}
    BY <1>1, <2>1 DEF Passed
  <2>3. QED
    BY <2>2 DEF CompareInv
<1>7. QED
  BY <1>2, <1>4, <1>5, <1>6 DEF DataInv

\* All members present held the same when they were read: what that is is right,
\* for one of them is in synch.
LEMMA AllCompared ==
  ASSUME BaseInv, DataInv, ~exposed, group.active, control.state = "validate",
         control.step # "poll", \A k \in Present : k < control.at,
         NEW b \in Block, b = ControlBlock
  PROVE  Sound(Present, b)
<1>1. Passed = Present
  BY DEF Passed
<1>2. InSynch # {} /\ InSynch \subseteq Present
  BY DEF BaseInv, GroupInv, ActiveExact, InSynch
<1>3. \/ Lost(b)
      \/ /\ \A m \in Present : Right(m, b) \/ disk[m][b] = control.buffer
         /\ \A m \in Present : disk[m][b] = control.buffer => Right(m, b)
  BY <1>1, <1>2 DEF DataInv, CompareInv
<1>4. QED
  BY <1>3 DEF Sound

LEMMA ValidateCheckData == ASSUME BaseInv, DataInv, ValidateCheck PROVE DataInv'
<1>1. /\ RemirrorOnly /\ control.state = "validate" /\ control.step = "check"
      /\ \/ /\ Onward(control, control', AnyMirror)
            /\ \/ control'.valid = control.valid
               \/ /\ control'.valid = control.valid \union {control.index}
                  /\ \/ ControlBlock >= Blocks
                     \/ \A k \in Present : k < control.at
         \/ /\ control'.state = "validate" /\ control'.section = control.section
            /\ control'.index = control.index /\ control'.valid = control.valid
            /\ control'.buffer = control.buffer
            /\ control'.step = "read"
            /\ \A k \in Present : k < control'.at <=> k < control.at
  BY ValidateCheckFacts
<1>2. TrustInv' /\ WriteInv'
  BY <1>1, RemirrorQuiet
<1>3. TypeOK /\ Better /\ Kept
  BY <1>1, SameRest, SameData DEF BaseInv
<1>4. CASE Onward(control, control', AnyMirror)
  <2>1. CopyInv' /\ CompareInv' /\ (control'.valid = control.valid => ValidInv')
    BY <1>1, <1>4, SameRest, OnwardData
  <2>2. CASE /\ control'.valid = control.valid \union {control.index}
             /\ \/ ControlBlock >= Blocks
                \/ \A k \in Present : k < control.at
    <3>1. ValidInv'
      <4> SUFFICES ASSUME ~exposed', group'.active, NEW b \in Block, Reached(b)'
                   PROVE  (\A m \in Present' : Right(m, b)') \/ Lost(b)'
        BY DEF ValidInv, Sound
      <4>1. control'.section = control.section
        BY <1>4 DEF Onward
      <4>2. Reached(b) \/ (SectionOf(b) = control.section /\ b % SectionSize = control.index)
        BY <2>2, <4>1 DEF Reached, SectionOf
      <4>3. Sound(Present, b)
        <5>1. CASE Reached(b)
          BY <1>1, <5>1, SameRest DEF DataInv, ValidInv
        <5>2. CASE SectionOf(b) = control.section /\ b % SectionSize = control.index
          <6>1. b = ControlBlock
            BY <5>2, Sections DEF ControlBlock
          <6>2. ~(ControlBlock >= Blocks)
            BY <6>1, Constants DEF Block
          <6>3. QED
            BY <1>1, <2>2, <6>1, <6>2, SameRest, AllCompared
        <5>3. QED
          BY <4>2, <5>1, <5>2
      <4>4. Present \subseteq Members /\ Present' = Present
        BY <1>1, <1>3, SameRest, PresentFacts
      <4>5. QED
        BY <1>3, <4>3, <4>4 DEF Sound, Kept
    <3>2. QED
      BY <1>2, <2>1, <3>1 DEF DataInv
  <2>3. CASE control'.valid = control.valid
    BY <1>2, <2>1, <2>3 DEF DataInv
  <2>4. QED
    BY <1>1, <1>4, <2>1, <2>2, <2>3 DEF Onward
<1>5. CASE /\ control'.state = "validate" /\ control'.section = control.section
           /\ control'.index = control.index /\ control'.valid = control.valid
           /\ control'.buffer = control.buffer
           /\ control'.step = "read"
           /\ \A k \in Present : k < control'.at <=> k < control.at
  <2>1. ValidInv'
    BY <1>1, <1>3, <1>5, SameRest, ValidKeeps DEF DataInv
  <2>2. CopyInv'
    BY <1>5 DEF CopyInv
  <2>3. CompareInv'
    BY <1>1, <1>3, <1>5, SameRest, CompareKeeps DEF DataInv
  <2>4. QED
    BY <1>2, <2>1, <2>2, <2>3 DEF DataInv
<1>6. QED
  BY <1>1, <1>4, <1>5

\* A member in synch that is present is trusted with every block.
LEMMA SynchTrusted ==
  ASSUME BaseInv, DataInv, up, ~exposed, NEW m \in InSynch, NEW b \in Block
  PROVE  group.active /\ (Right(m, b) \/ Lost(b))
<1>1. m \in Present /\ m \in Members /\ member[m].present /\ member[m].insynch
  BY PresentFacts DEF BaseInv, InSynch, Present
<1>2. group.active /\ m \notin missed
  BY <1>1 DEF BaseInv, GroupInv, ActiveExact
<1>3. m \in Trusted(b)
  BY <1>1, <1>2 DEF Trusted, Readable
<1>4. QED
  BY <1>2, <1>3 DEF DataInv, TrustInv, Sound

LEMMA ValidateReadData == ASSUME BaseInv, DataInv, ValidateRead PROVE DataInv'
<1>a. ControlBlock \in Block /\ control.at \in Members
  BY ValidateReadFacts
<1>b. PICK b \in Block : b = ControlBlock
  BY <1>a
<1>c. PICK m \in Members : m = control.at
  BY <1>a
<1>1. /\ up /\ RemirrorOnly /\ control.state = "validate" /\ control.step = "read" /\ m \in online
      /\ \/ Onward(control, control', AnyMirror) /\ control'.valid = control.valid
         \/ /\ control.buffer \in {NoData, disk[m][b]} /\ control'.buffer = disk[m][b]
            /\ control'.state = "validate" /\ control'.section = control.section
            /\ control'.index = control.index /\ control'.valid = control.valid
            /\ control'.step = "check" /\ control'.at = m + 1
  BY <1>b, <1>c, ValidateReadFacts
<1>2. TrustInv' /\ WriteInv'
  BY <1>1, RemirrorQuiet
<1>3. TypeOK /\ Better /\ Kept
  BY <1>1, SameRest, SameData DEF BaseInv
<1>4. CASE Onward(control, control', AnyMirror) /\ control'.valid = control.valid
  BY <1>1, <1>2, <1>4, SameRest, OnwardData DEF DataInv
<1>5. CASE /\ control.buffer \in {NoData, disk[m][b]} /\ control'.buffer = disk[m][b]
           /\ control'.state = "validate" /\ control'.section = control.section
           /\ control'.index = control.index /\ control'.valid = control.valid
           /\ control'.step = "check" /\ control'.at = m + 1
  <2>1. ValidInv'
    BY <1>1, <1>3, <1>5, SameRest, ValidKeeps DEF DataInv
  <2>2. CopyInv'
    BY <1>5 DEF CopyInv
  <2>3. CompareInv'
    <3>1. /\ ControlBlock' = b /\ Present' = Present /\ InSynch' = InSynch
          /\ Present \subseteq Members /\ m \in Present
      BY <1>b, <1>1, <1>3, <1>5, SameRest, PresentFacts DEF ControlBlock, BaseInv, GroupInv
    <3>2. disk[m][b] \in Data /\ disk[m][b] # NoData
      BY <1>3, Constants DEF TypeOK
    <3>3. Passed = {k \in Present : k < m} /\ Passed' = Passed \union {m}
      <4>1. \A k \in Present : k < m + 1 <=> k < m \/ k = m
        BY <3>1, Constants
      <4>2. QED
        BY <1>c, <1>5, <3>1, <4>1 DEF Passed
    <3>4. ASSUME ~exposed, group.active
          PROVE  \/ Lost(b)
                 \/ /\ \A k \in Passed' : Right(k, b) \/ disk[k][b] = disk[m][b]
                    /\ Passed' \intersect InSynch # {} =>
                         \A k \in Present : disk[k][b] = disk[m][b] => Right(k, b)
      <4>1. \/ Lost(b)
            \/ /\ \A k \in Passed : Right(k, b) \/ disk[k][b] = control.buffer
               /\ Passed \intersect InSynch # {} =>
                    \A k \in Present : disk[k][b] = control.buffer => Right(k, b)
        BY <1>1, <1>b, <3>4 DEF DataInv, CompareInv
      <4>2. control.buffer = NoData => Passed = {}
        BY <1>1 DEF DataInv, CompareInv
      <4>3. m \in InSynch => disk[m][b] \in good[b] \/ Lost(b)
        BY <1>1, <3>4, SynchTrusted DEF Right
      <4>4. CASE control.buffer = NoData
        BY <3>3, <4>2, <4>3, <4>4 DEF Right
      <4>5. CASE control.buffer = disk[m][b]
        BY <3>3, <4>1, <4>3, <4>5 DEF Right
      <4>6. QED
        BY <1>5, <4>4, <4>5
    <3>5. Lost(b)' <=> Lost(b)
      BY <1>1, SameRest DEF Lost, Right
    <3>6. \A k \in Members : Right(k, b)' <=> Right(k, b)
      BY <1>1, SameRest DEF Right
    <3>7. ASSUME ~exposed', group'.active
          PROVE  \/ Lost(b)'
                 \/ /\ \A k \in Passed' : Right(k, b)' \/ disk'[k][b] = control'.buffer
                    /\ Passed' \intersect InSynch' # {} =>
                         \A k \in Present' : disk'[k][b] = control'.buffer => Right(k, b)'
      <4>1. ~exposed /\ group.active /\ disk' = disk
        BY <1>1, <3>7, SameRest
      <4>2. Passed' \subseteq Members
        BY <3>1, <3>3
      <4>3. QED
        BY <1>5, <3>1, <3>4, <3>5, <3>6, <4>1, <4>2
    <3>8. QED
      BY <1>5, <3>1, <3>2, <3>7 DEF CompareInv, Lost, Right
  <2>4. QED
    BY <1>2, <2>1, <2>2, <2>3 DEF DataInv
<1>6. QED
  BY <1>1, <1>4, <1>5

LEMMA RemirrorCheckData == ASSUME BaseInv, DataInv, RemirrorCheck PROVE DataInv'
<1>1. /\ RemirrorOnly /\ control.state = "remirror"
      /\ \/ Onward(control, control', AnyMirror) /\ control'.valid = control.valid
         \/ /\ control'.state = "remirror" /\ control'.section = control.section
            /\ control'.valid = control.valid
            /\ control'.buffer = control.buffer /\ control'.seen = control.seen
            /\ \/ /\ control'.step = "read" /\ control.buffer = NoData
                  /\ control'.at \in Present /\ member[control'.at].insynch
               \/ control'.step = "write" /\ control.buffer # NoData
  BY RemirrorCheckFacts
<1>2. TrustInv' /\ WriteInv'
  BY <1>1, RemirrorQuiet
<1>3. TypeOK /\ Better /\ Kept
  BY <1>1, SameRest, SameData DEF BaseInv
<1>4. CASE Onward(control, control', AnyMirror) /\ control'.valid = control.valid
  BY <1>1, <1>2, <1>4, SameRest, OnwardData DEF DataInv
<1>5. CASE /\ control'.state = "remirror" /\ control'.section = control.section
           /\ control'.valid = control.valid
           /\ control'.buffer = control.buffer /\ control'.seen = control.seen
           /\ \/ /\ control'.step = "read" /\ control.buffer = NoData
                 /\ control'.at \in Present /\ member[control'.at].insynch
              \/ control'.step = "write" /\ control.buffer # NoData
  <2>1. ValidInv'
    BY <1>1, <1>3, <1>5, SameRest, ValidKeeps DEF DataInv
  <2>2. CopyInv'
    BY <1>1, <1>5, SameRest DEF DataInv, CopyInv
  <2>3. CompareInv'
    BY <1>5 DEF CompareInv
  <2>4. QED
    BY <1>2, <2>1, <2>2, <2>3 DEF DataInv
<1>6. QED
  BY <1>1, <1>4, <1>5

LEMMA RemirrorReadData == ASSUME BaseInv, DataInv, RemirrorRead PROVE DataInv'
<1>a. ControlBlock \in Block /\ control.at \in Members
  BY RemirrorReadFacts
<1>b. PICK b \in Block : b = ControlBlock
  BY <1>a
<1>c. PICK m \in Members : m = control.at
  BY <1>a
<1>1. /\ up /\ RemirrorOnly /\ control.state = "remirror" /\ control.step = "read" /\ m \in online
      /\ control'.state = "remirror" /\ control'.section = control.section
      /\ control'.valid = control.valid /\ control'.step = "check"
      /\ control'.buffer = disk[m][b]
      /\ control'.seen = IF <<m, b>> \in overrun THEN Data ELSE good[b]
  BY <1>b, <1>c, RemirrorReadFacts
<1>2. TrustInv' /\ WriteInv'
  BY <1>1, RemirrorQuiet
<1>3. TypeOK /\ Better /\ Kept /\ m \in Present
  BY <1>1, SameRest, SameData DEF BaseInv, GroupInv
<1>4. ValidInv'
  BY <1>1, <1>3, SameRest, ValidKeeps DEF DataInv
<1>5. CopyInv'
  <2>1. ASSUME ~exposed PROVE disk[m][b] \in control'.seen
    <3>1. m \in InSynch
      BY <1>1, <1>3, <1>c, <2>1 DEF DataInv, CopyInv, InSynch
    <3>2. Right(m, b) \/ Lost(b)
      BY <1>1, <2>1, <3>1, SynchTrusted
    <3>3. disk[m][b] \in Data
      BY <1>3 DEF TypeOK
    <3>4. <<m, b>> \in overrun \/ Right(m, b)
      BY <3>2 DEF Lost
    <3>5. QED
      BY <1>1, <3>3, <3>4 DEF Right
  <2>2. QED
    BY <1>1, <2>1, SameRest DEF CopyInv
<1>6. CompareInv'
  BY <1>1 DEF CompareInv
<1>7. QED
  BY <1>2, <1>4, <1>5, <1>6 DEF DataInv

LEMMA RemirrorWriteData == ASSUME BaseInv, DataInv, RemirrorWrite PROVE DataInv'
<1>a. ControlBlock \in Block /\ control.at \in Members
  BY RemirrorWriteFacts
<1>b. PICK b \in Block : b = ControlBlock
  BY <1>a
<1>c. PICK m \in Members : m = control.at
  BY <1>a
<1>1. /\ up /\ control.state = "remirror" /\ control.step = "write"
      /\ control.buffer \in Data
      /\ disk' = [disk EXCEPT ![m][b] = control.buffer]
      /\ overrun' = IF control.buffer \in control.seen \ Current(m, b)
                    THEN overrun \union (Members \X {b}) ELSE overrun
      /\ control'.state = "remirror" /\ control'.section = control.section
      /\ control'.valid = control.valid /\ control'.step = "check"
      /\ control'.buffer = control.buffer /\ control'.seen = control.seen
      /\ UNCHANGED <<saved, up, group, member, client, good, missed, exposed>>
  BY <1>b, <1>c, RemirrorWriteFacts
<1>2. TypeOK /\ ~(control.buffer = NoData)
  BY <1>1, Constants DEF BaseInv
<1>3. CASE exposed
  <2>1. TrustInv' /\ ValidInv' /\ CopyInv' /\ WriteInv'
    BY <1>1, <1>3 DEF TrustInv, ValidInv, CopyInv, WriteInv
  <2>2. CompareInv'
    BY <1>1 DEF CompareInv
  <2>3. QED
    BY <2>1, <2>2 DEF DataInv
<1>4. CASE ~exposed
  <2>1. control.buffer \in control.seen
    BY <1>1, <1>2, <1>4 DEF DataInv, CopyInv
  <2>2. \A k \in Members, c \in Block :
          /\ <<k, c>> # <<m, b>> => disk'[k][c] = disk[k][c]
          /\ <<k, c>> = <<m, b>> => disk'[k][c] = control.buffer
    BY <1>1, <1>2 DEF TypeOK
  <2>3. overrun \subseteq overrun'
    BY <1>1
  <2>4. Lost(b)' \/ (overrun' = overrun /\ control.buffer \in Current(m, b))
    <3>1. CASE control.buffer \in Current(m, b)
      BY <1>1, <3>1
    <3>2. CASE control.buffer \notin Current(m, b)
      <4>1. \A k \in Members : <<k, b>> \in overrun'
        BY <1>1, <2>1, <3>2
      <4>2. QED
        BY <4>1 DEF Lost
    <3>3. QED
      BY <3>1, <3>2
  <2>5. control.buffer \in Current(m, b) => Right(m, b)'
    <3>1. client.op = "write" => client.value \in good[client.block]
      BY DEF BaseInv, ClientInv
    <3>2. control.buffer \in Current(m, b) => control.buffer \in good[b]
      BY <3>1 DEF Current
    <3>3. QED
      BY <1>1, <2>2, <3>2 DEF Right
  <2>6. Kept
    <3>1. \A c \in Block \ {b}, k \in Members :
            /\ Right(k, c)' <=> Right(k, c)
            /\ <<k, c>> \in overrun' <=> <<k, c>> \in overrun
      BY <1>1, <2>2 DEF Right
    <3>2. \A c \in Block \ {b} : Lost(c)' <=> Lost(c)
      BY <3>1 DEF Lost
    <3>3. Lost(b)' \/ \A k \in Members : Right(k, b) => Right(k, b)'
      BY <1>1, <2>2, <2>4, <2>5 DEF Right
    <3>4. Lost(b) => Lost(b)'
      BY <2>3, <3>3 DEF Lost
    <3>5. QED
      BY <3>1, <3>2, <3>3, <3>4 DEF Kept
  <2>7. TrustInv'
    BY <1>1, <2>6, SameMembers, TrustQuiet DEF DataInv
  <2>8. ValidInv'
    BY <1>1, <1>2, <2>6, SameMembers, ValidKeeps DEF DataInv
  <2>9. CopyInv'
    BY <1>1, <2>1 DEF CopyInv
  <2>10. CompareInv'
    BY <1>1 DEF CompareInv
  <2>11. WriteInv'
    <3> SUFFICES ASSUME group.active, client.op = "write", NEW c \in Block, c = client.block
                 PROVE  \/ \A k \in Present : k < client.at => disk'[k][c] = client.value
                        \/ \A k \in Members : <<k, c>> \notin overrun' =>
                             k < client.at /\ disk'[k][c] = client.value
      BY <1>1, <1>2, SameMembers DEF WriteInv, TypeOK, Client
    <3>1. \/ \A k \in Present : k < client.at => disk[k][c] = client.value
          \/ \A k \in Members : <<k, c>> \notin overrun =>
               k < client.at /\ disk[k][c] = client.value
      BY <1>4 DEF DataInv, WriteInv
    <3>2. Present \subseteq Members
      BY <1>2, PresentFacts
    <3>3. CASE c # b
      BY <2>2, <2>3, <3>1, <3>2, <3>3
    <3>4. CASE c = b /\ control.buffer \notin Current(m, b)
      BY <1>1, <2>1, <3>4
    <3>5. CASE c = b /\ control.buffer \in Current(m, b)
      <4>1. m < client.at => disk'[m][b] = client.value
        <5>1. ASSUME m < client.at PROVE control.buffer = client.value
          <6>1. client.at > m
            BY <1>2, <5>1, Constants DEF TypeOK, Client
          <6>2. QED
            BY <3>5, <6>1 DEF Current
        <5>2. QED
          BY <2>2, <5>1
      <4>2. overrun' = overrun
        BY <1>1, <3>5
      <4>3. \A k \in Members : k < client.at /\ disk[k][c] = client.value => disk'[k][c] = client.value
        BY <2>2, <3>5, <4>1
      <4>4. \A k \in Present : k < client.at /\ (disk[k][c] = client.value \/ k = m)
                               => disk'[k][c] = client.value
        BY <3>2, <3>5, <4>1, <4>3
      <4>5. QED
        BY <3>1, <4>2, <4>3, <4>4
    <3>6. QED
      BY <3>3, <3>4, <3>5
  <2>12. QED
    BY <2>7, <2>8, <2>9, <2>10, <2>11 DEF DataInv
<1>5. QED
  BY <1>3, <1>4

LEMMA RemirrorLosesData == ASSUME BaseInv, DataInv, RemirrorLosesMember PROVE DataInv'
<1> DEFINE m == control.at
<1>1. /\ up /\ m \in Members /\ Offline(m) /\ control.state \in {"validate", "remirror"}
      /\ Onward(control, control', AnyMirror) /\ control'.valid = control.valid
      /\ UNCHANGED <<disk, up, client, good, missed, exposed, overrun>>
  BY RemirrorLosesFacts
<1>2. /\ group'.active => group.active
      /\ group'.sector.log = group.sector.log
      /\ saved' = saved \/ saved'.log = group.sector.log
      /\ Present' \subseteq Present /\ InSynch' \subseteq InSynch
      /\ \A k \in Present' : member'[k].insynch = member[k].insynch
      /\ \A k \in Members, b \in Block : Readable(k, b)' => Readable(k, b)
  BY <1>1, OfflineQuiet
<1>3. TrustInv' /\ WriteInv'
  BY <1>1, <1>2, QuietData
<1>4. ValidInv' /\ CopyInv' /\ CompareInv'
  BY <1>1, <1>2, OnwardData
<1>5. QED
  BY <1>3, <1>4 DEF DataInv

\* The section is good: every block of it, and above it, is the same on all.
LEMMA UpdateData == ASSUME BaseInv, DataInv, Update PROVE DataInv'
<1>a. control.section \in Nat
  BY UpdateFacts
<1>b. PICK s \in Nat : s = control.section
  BY <1>a
<1>1. /\ up /\ control.state = "update"
      /\ Present' = Present
      /\ \A m \in Members \ Present : member'[m] = member[m]
      /\ \A m \in Present : /\ member'[m].insynch <=> member[m].insynch \/ s = 0
                            /\ member'[m].section \in {member[m].section, s}
      /\ group'.active = group.active
      /\ \A m \in Members :
           group'.sector.log[m] =
             IF m \in Present /\ (member[m].section > s \/ (s = 0 /\ ~member[m].insynch))
             THEN s ELSE group.sector.log[m]
      /\ IF s = 0 THEN saved' = group'.sector ELSE saved' = saved
      /\ IF s = 0 THEN control'.state = "finish" /\ control'.section = 0
         ELSE /\ control'.state = "validate" /\ control'.section = s - 1 /\ control'.valid = {}
      /\ control'.step = "poll"
      /\ exposed' = (exposed \/ ~group.active)
      /\ UNCHANGED <<disk, up, client, good, missed, overrun>>
  BY <1>b, UpdateFacts
<1>2. TypeOK /\ GroupInv /\ ControlOK(control, AnyMirror)
  BY AtWork DEF BaseInv
<1>3. ASSUME ~exposed', NEW b \in Block, s = 0 \/ ~(SectionOf(b) < s)
      PROVE  Sound(Present, b)
  <2>1. ~exposed /\ group.active
    BY <1>1, <1>3
  <2>2. SectionOf(b) \in Nat /\ b % SectionSize \in 0 .. SectionSize - 1
    BY Sections, Constants
  <2>3. \A i \in 0 .. SectionSize - 1 : i \in control.valid
    BY <1>1, <1>2 DEF ControlOK
  <2> DEFINE t == SectionOf(b)
  <2>4. t > s \/ t = s
    <3> HIDE DEF t
    <3>1. t \in Nat /\ (s = 0 \/ ~(t < s))
      BY <1>3, <2>2 DEF t
    <3>2. QED
      BY <3>1
  <2>5. Reached(b)
    BY <1>b, <2>2, <2>3, <2>4 DEF Reached
  <2>6. QED
    BY <1>1, <2>1, <2>5 DEF DataInv, ValidInv
<1>4. TrustInv'
  <2> SUFFICES ASSUME ~exposed', missed' = {} \/ group'.active, NEW b \in Block
               PROVE  (\A m \in Trusted(b)' : Right(m, b)') \/ Lost(b)'
    BY DEF TrustInv, Sound
  <2>1. /\ \A m \in Members : Right(m, b)' <=> Right(m, b)
        /\ Lost(b)' <=> Lost(b)
    BY <1>1 DEF Lost, Right
  <2>2. (\A m \in Trusted(b) : Right(m, b)) \/ Lost(b)
    BY <1>1 DEF DataInv, TrustInv, Sound
  <2>3. Present \subseteq Members /\ Trusted(b)' \subseteq Members
    BY <1>2, PresentFacts DEF Trusted
  <2>4. \A m \in Trusted(b)' : m \in Trusted(b) \/ (m \in Present /\ (s = 0 \/ ~(SectionOf(b) < s)))
    <3> SUFFICES ASSUME NEW m \in Trusted(b)', m \notin Trusted(b)
                 PROVE  m \in Present /\ (s = 0 \/ ~(SectionOf(b) < s))
      OBVIOUS
    <3>1. /\ m \in Members /\ m \notin missed
          /\ \/ Says(saved'.log[m], b)
             \/ Says(group'.sector.log[m], b)
             \/ Readable(m, b)'
      BY <1>1 DEF Trusted, Says, SectionOf
    <3>2. /\ ~Says(saved.log[m], b) /\ ~Says(group.sector.log[m], b) /\ ~Readable(m, b)
      BY <1>1, <3>1 DEF Trusted
    <3>3. Says(s, b) => s = 0 \/ ~(SectionOf(b) < s)
      <4> DEFINE t == SectionOf(b)
      <4>1. t \in Nat
        BY Sections, Constants
      <4> HIDE DEF t
      <4>2. s < t => ~(t < s)
        BY <4>1
      <4>3. QED
        BY <4>2 DEF Says, t
    <3>4. CASE Says(group'.sector.log[m], b)
      <4>1. group'.sector.log[m] = s /\ m \in Present
        BY <1>1, <3>1, <3>2, <3>4
      <4>2. QED
        BY <3>3, <3>4, <4>1
    <3>5. CASE Says(saved'.log[m], b)
      BY <1>1, <3>2, <3>4, <3>5
    <3>6. CASE Readable(m, b)'
      <4>1. /\ member'[m].present
            /\ member'[m].insynch \/ member'[m].section < SectionOf(b)
        BY <3>6 DEF Readable, SectionOf
      <4>2. m \in Present
        BY <1>1, <3>1, <4>1 DEF Present
      <4>3. ~member[m].insynch /\ ~(member[m].section < SectionOf(b))
        BY <3>2, <4>2 DEF Readable, Present
      <4>4. s = 0 \/ s < SectionOf(b)
        BY <1>1, <4>1, <4>2, <4>3
      <4>5. QED
        BY <3>3, <4>2, <4>4 DEF Says
    <3>7. QED
      BY <3>1, <3>4, <3>5, <3>6
  <2>5. CASE s = 0 \/ ~(SectionOf(b) < s)
    <3>1. (\A m \in Present : Right(m, b)) \/ Lost(b)
      BY <1>3, <2>5 DEF Sound
    <3>2. QED
      BY <2>1, <2>2, <2>3, <2>4, <3>1
  <2>6. CASE ~(s = 0 \/ ~(SectionOf(b) < s))
    BY <2>1, <2>2, <2>3, <2>4, <2>6
  <2>7. QED
    BY <2>5, <2>6
<1>5. ValidInv'
  <2> SUFFICES ASSUME ~exposed', NEW b \in Block, Reached(b)'
               PROVE  (\A m \in Present' : Right(m, b)') \/ Lost(b)'
    BY DEF ValidInv, Sound
  <2>1. s = 0 \/ ~(SectionOf(b) < s)
    <3>1. CASE s # 0
      <4> DEFINE t == SectionOf(b)
      <4>1. t \in Nat
        BY Sections, Constants
      <4>2. t > s - 1
        BY <1>1, <3>1 DEF Reached, SectionOf
      <4> HIDE DEF t
      <4>3. ~(t < s)
        BY <4>1, <4>2
      <4>4. QED
        BY <4>3 DEF t
    <3>2. QED
      BY <3>1
  <2>2. (\A m \in Present : Right(m, b)) \/ Lost(b)
    BY <1>3, <2>1 DEF Sound
  <2>3. QED
    BY <1>1, <2>2 DEF Lost, Right
<1>6. CopyInv' /\ CompareInv'
  BY <1>1 DEF CopyInv, CompareInv
<1>7. WriteInv'
  BY <1>1, WriteKeeps DEF DataInv
<1>8. QED
  BY <1>4, <1>5, <1>6, <1>7 DEF DataInv

-----------------------------------------------------------------------------
(* The theorems *)

LEMMA DataInit == ASSUME Init PROVE DataInv
<1>1. \A m \in Members, b \in Block : Right(m, b)
  BY DEF Init, Right
<1>2. TrustInv
  BY <1>1 DEF TrustInv, Sound, Trusted
<1>3. control.state = "none" /\ client.op = "idle"
  BY DEF Init, NoControl, NoClient
<1>4. QED
  BY <1>2, <1>3 DEF DataInv, ValidInv, CopyInv, CompareInv, WriteInv

LEMMA DataStep == ASSUME BaseInv, DataInv, [Next]_vars PROVE DataInv'
<1>1. CASE Establish
  BY <1>1, EstablishData
<1>2. CASE Volume
  BY <1>2, MountData, DismountData, StartWriteData, ReadLosesData DEF Volume
<1>3. CASE ClientSteps
  BY <1>3, WriteMarkData, WriteMemberData, WriteLosesData, WriteReturnData DEF ClientSteps
<1>4. CASE Remirror
  BY <1>4, PollData, ValidateCheckData, ValidateReadData, RemirrorCheckData, RemirrorReadData,
     RemirrorMarkData, RemirrorWriteData, RemirrorLosesData, UpdateData, StopRemirroringData
     DEF Remirror
<1>5. CASE Faults
  BY <1>5, StopData, QuiesceData, FailDeviceData DEF Faults
<1>6. CASE UNCHANGED vars
  <2>1. UNCHANGED <<disk, saved, up, group, member, control, client, good, missed, exposed, overrun>>
    BY <1>6 DEF vars, durable, history
  <2>2. TrustInv' /\ WriteInv'
    BY <2>1, SameMembers, QuietData
  <2>3. ValidInv' /\ CopyInv' /\ CompareInv'
    BY <2>1, SameMembers, IdleData
  <2>4. QED
    BY <2>2, <2>3 DEF DataInv
<1>7. QED
  BY <1>1, <1>2, <1>3, <1>4, <1>5, <1>6 DEF Next

\* The inductive invariant.
Inv == BaseInv /\ DataInv

LEMMA InvHolds == Spec => []Inv
<1>1. Init => Inv
  BY BaseInit, DataInit DEF Inv
<1>2. Inv /\ [Next]_vars => Inv'
  BY BaseStep, DataStep DEF Inv
<1>3. QED
  BY <1>1, <1>2, PTL DEF Spec

\* The state of the group, its members, the remirror process and the write of the
\* volume have their types in every step of every action.
THEOREM TypeCorrect == Spec => []TypeOK
<1>1. Inv => TypeOK
  BY DEF Inv, BaseInv
<1>2. QED
  BY <1>1, InvHolds, PTL

\* A read of the volume (inwvp_lpartition_block_read) returns the last write that
\* was acknowledged, or one that was not, whichever member serves it.
THEOREM ReadsStayCurrent == Spec => []ReadsCurrent
<1>1. ASSUME Inv PROVE ReadsCurrent
  <2> SUFFICES ASSUME mounted, ~exposed, NEW m \in Members, NEW b \in Block,
                      Readable(m, b), <<m, b>> \notin overrun
               PROVE  disk[m][b] \in good[b]
    BY DEF ReadsCurrent
  <2>1. up /\ group.active /\ missed \subseteq Members \ Present
    BY <1>1 DEF Inv, BaseInv, GroupInv, Forgotten, ActiveExact
  <2>2. m \in Trusted(b)
    BY <2>1 DEF Trusted, Readable, Present
  <2>3. Right(m, b) \/ Lost(b)
    BY <1>1, <2>1, <2>2 DEF Inv, DataInv, TrustInv, Sound
  <2>4. QED
    BY <2>3 DEF Right, Lost
<1>2. QED
  BY <1>1, InvHolds, PTL

\* A member that the latest mirror sectors call in synch has not missed a write
\* that was acknowledged (nwvp_mirror_group_modify_check).
THEOREM SectorsStayTruthful == Spec => []SectorsTruthful
<1>1. ASSUME Inv PROVE SectorsTruthful
  <2> SUFFICES ASSUME missed = {}, ~exposed, NEW m \in Members, NEW b \in Block,
                      saved.log[m] = 0, <<m, b>> \notin overrun
               PROVE  disk[m][b] \in good[b]
    BY DEF SectorsTruthful
  <2>1. m \in Trusted(b)
    BY DEF Trusted, Says
  <2>2. Right(m, b) \/ Lost(b)
    BY <1>1, <2>1 DEF Inv, DataInv, TrustInv, Sound
  <2>3. QED
    BY <2>2 DEF Right, Lost
<1>2. QED
  BY <1>1, InvHolds, PTL

-----------------------------------------------------------------------------
(* The block at a place, and its section *)

LEMMA PlaceSection ==
  ASSUME NEW s \in Nat, NEW i \in Nat, i < SectionSize
  PROVE  SectionOf(Place(s, i)) = s /\ Place(s, i) % SectionSize = i
<1> DEFINE z == SectionSize
<1>1. z \in Nat /\ z > 0
  BY Constants
<1>2. s * z \in Nat /\ s * z = z * s
  BY <1>1, Multiples
<1>3. QED
  BY <1>1, <1>2 DEF SectionOf, Place
-----------------------------------------------------------------------------
(* Two members: what both hold *)

\* The members hold the same, or the remirror process wrote older data over one.
Same(b) ==
  \/ \E m \in Members : <<m, b>> \in overrun
  \/ \A m, k \in Members : disk[m][b] = disk[k][b]

\* A write of the block has got to one of them.
HalfWritten(b) == client.op = "write" /\ client.block = b /\ client.success > 0
InStep(b) == Same(b) \/ HalfWritten(b)

AllZero(log) == \A m \in Members : log[m] = 0

\* All are trusted by readers, or were not marked when they went.
Level  == \A m \in Members : m \in Present /\ member[m].insynch /\ member[m].section = 0
Paired == \A m \in Members : m \in Present \/ group.sector.log[m] = 0

\* The status on disk is that in memory.
StatusInv ==
  up => /\ saved.status = group.sector.status
        /\ group.opens > 0 => group.sector.status = "opened"

\* A member that the sector calls good is in synch.
LogInv == up => \A m \in Present : group.sector.log[m] = 0 => member[m].insynch

\* The volume stays mounted while it is written, or the group is not active.
WriterInv == client.op = "write" => mounted \/ ~group.active

\* A process at work has something to check.
BusyInv ==
  control.state \notin {"none", "finish"} =>
    ~Level /\ (AllZero(group.sector.log) => group.check)

\* The sectors on disk say that all members are good and nothing is to be checked.
CleanSector == saved.status = "closed" /\ AllZero(saved.log) /\ holders # {} /\ ~exposed

ClosedInv == CleanSector => client.op = "idle"

\* Then it is so.
CleanInv == CleanSector /\ missed = {} => \A b \in Block : Same(b)

\* The members are the same in what the group is going to call checked, in what
\* readers trust, and in what the process has done.
AgreeInv ==
  up /\ missed = {} /\ ~exposed =>
    \A b \in Block :
      \/ AllZero(group.sector.log) /\ (~group.check \/ control.state = "finish")
      \/ Level
      \/ Paired /\ control.state # "none" /\ Reached(b)
      => InStep(b)

\* And while a block is validated, those passed hold what the buffer holds.
PairInv ==
  /\ missed = {} /\ ~exposed /\ Paired
  /\ control.state = "validate" /\ control.step # "poll" /\ ControlBlock \in Block
  => \/ InStep(ControlBlock)
     \/ \A m \in Members : m < control.at => disk[m][ControlBlock] = control.buffer

SectorInv == StatusInv /\ LogInv /\ WriterInv /\ BusyInv
TwoInv == SectorInv /\ ClosedInv /\ CleanInv /\ AgreeInv /\ PairInv

LEMMA InStepKeeps ==
  ASSUME UNCHANGED <<disk, overrun>>, client'.op = client.op, client'.block = client.block,
         client'.success = client.success
  PROVE  \A b : (Same(b) => Same(b)') /\ (InStep(b) => InStep(b)')
  BY DEF Same, HalfWritten, InStep

LEMMA AgreeKeeps ==
  ASSUME AgreeInv, up, missed' = {} => missed = {}, exposed => exposed',
         \A b \in Block : InStep(b) => InStep(b)',
         \A m \in Members : group'.sector.log[m] = 0 => group.sector.log[m] = 0,
         ~group'.check \/ control'.state = "finish" => ~group.check \/ control.state = "finish",
         Level' => Level, Present' \subseteq Present,
         control'.state # "none" =>
           control.state # "none" /\ \A b \in Block : Reached(b)' => Reached(b)
  PROVE  AgreeInv'
<1> SUFFICES ASSUME up', missed' = {}, ~exposed', NEW b \in Block,
                    \/ AllZero(group.sector.log)' /\ (~group'.check \/ control'.state = "finish")
                    \/ Level'
                    \/ Paired' /\ control'.state # "none" /\ Reached(b)'
             PROVE  InStep(b)'
  BY DEF AgreeInv
<1>1. AllZero(group.sector.log)' => AllZero(group.sector.log)
  BY DEF AllZero
<1>2. Paired' => Paired
  BY DEF Paired
<1>3. InStep(b)
  BY <1>1, <1>2 DEF AgreeInv
<1>4. QED
  BY <1>3

LEMMA PairKeeps ==
  ASSUME PairInv, missed' = {} => missed = {}, exposed => exposed',
         \A b \in Block : InStep(b) => InStep(b)',
         \A b \in Block : InStep(b)' \/ \A m \in Members : disk'[m][b] = disk[m][b],
         \A m \in Members : group'.sector.log[m] = 0 => group.sector.log[m] = 0,
         Present' \subseteq Present,
         control'.state = "validate" /\ control'.step # "poll" =>
           /\ control.state = "validate" /\ control.step # "poll"
           /\ control'.section = control.section /\ control'.index = control.index
           /\ control'.buffer = control.buffer /\ control'.at = control.at
  PROVE  PairInv'
<1> SUFFICES ASSUME missed' = {}, ~exposed', Paired', control'.state = "validate",
                    control'.step # "poll", ControlBlock' \in Block
             PROVE  \/ InStep(ControlBlock)'
                    \/ \A m \in Members : m < control'.at => disk'[m][ControlBlock'] = control'.buffer
  BY DEF PairInv
<1>1. Paired
  BY DEF Paired
<1>2. PICK b : b = ControlBlock
  OBVIOUS
<1>3. ControlBlock' = b
  BY <1>2 DEF ControlBlock
<1>4. InStep(b) \/ \A m \in Members : m < control.at => disk[m][b] = control.buffer
  BY <1>1, <1>2, <1>3 DEF PairInv
<1>5. InStep(b)' \/ \A m \in Members : m < control'.at => disk'[m][b] = control'.buffer
  BY <1>3, <1>4
<1>6. InStep(b)' => InStep(ControlBlock)'
  BY <1>3 DEF InStep, Same, HalfWritten
<1>7. QED
  BY <1>3, <1>5, <1>6

LEMMA CleanKeeps ==
  ASSUME ClosedInv, CleanInv, saved' = saved, holders' = holders, exposed => exposed',
         missed' = {} => missed = {},
         CleanSector /\ client.op = "idle" => \A b \in Block : Same(b) => Same(b)',
         CleanSector /\ client.op = "idle" => client'.op = "idle"
  PROVE  ClosedInv' /\ CleanInv'
<1>1. CleanSector' => CleanSector
  BY DEF CleanSector, AllZero
<1>2. QED
  BY <1>1 DEF ClosedInv, CleanInv

\* A sector that does not say closed is not clean.
LEMMA NotClean == ASSUME saved'.status # "closed" PROVE ClosedInv' /\ CleanInv'
  BY DEF ClosedInv, CleanInv, CleanSector

LEMMA NobodyLevel ==
  ASSUME NEW m \in Members, m \notin Present PROVE ~Level
  BY DEF Level

-----------------------------------------------------------------------------
(* What a step does to the sector *)

LEMMA OpenStatus ==
  ASSUME TypeOK
  PROVE  /\ Opened(group).check = group.check
         /\ Opened(group).sector.status = IF group.opens = 0 THEN "opened" ELSE group.sector.status
  BY DEF Opened, TypeOK, GroupState, MirrorSector

LEMMA CloseStatus ==
  ASSUME TypeOK, NEW g \in GroupState, g.opens > 0, CloseGroup(g)
  PROVE  /\ group'.check = g.check
         /\ g.opens > 1 => group'.sector.status = g.sector.status /\ UNCHANGED <<saved, holders>>
         /\ g.opens = 1 => /\ group'.sector.status = IF g.check THEN "check" ELSE "closed"
                           /\ saved' = group'.sector /\ holders' = Present \intersect online
<1> DEFINE status == IF g.opens > 1 THEN g.sector.status ELSE IF g.check THEN "check" ELSE "closed"
<1>1. group' = [g EXCEPT !.opens = g.opens - 1, !.sector.status = status]
  BY DEF CloseGroup, Closed
<1> HIDE DEF status
<1>2. group'.check = g.check /\ group'.sector.status = status
  BY <1>1 DEF GroupState, MirrorSector
<1>3. IF g.opens = 1 THEN saved' = group'.sector /\ holders' = Present \intersect online
      ELSE UNCHANGED <<saved, holders>>
  BY DEF CloseGroup, Flush
<1>4. g.opens \in 0 .. 2
  BY DEF GroupState
<1>5. QED
  BY <1>2, <1>3, <1>4 DEF status

LEMMA MarkStatus ==
  ASSUME TypeOK, MarkAbsent
  PROVE  /\ group'.check = group.check /\ group'.sector.status = group.sector.status
         /\ UNCHANGED <<saved, holders>> \/ saved' = group'.sector
         /\ \A m \in Members : group'.sector.log[m] = 0 => group.sector.log[m] = 0
         /\ Members \ Present = {} => UNCHANGED <<saved, holders, missed>>
         /\ group.active \/ UNCHANGED <<saved, holders, missed>>
<1>1. /\ group'.check = group.check /\ group'.sector.status = group.sector.status
      /\ UNCHANGED <<saved, holders>> \/ saved' = group'.sector
  <2> DEFINE log == [m \in Members |-> IF m \in Members \ Present THEN Out ELSE group.sector.log[m]]
  <2>1. CASE group.active /\ Members \ Present # {}
    <3>1. group' = [group EXCEPT !.modifyCheck = FALSE, !.sector.log = log] /\ saved' = group'.sector
      BY <2>1 DEF MarkAbsent, Flush
    <3> HIDE DEF log
    <3>2. QED
      BY <3>1 DEF TypeOK, GroupState, MirrorSector
  <2>2. CASE ~(group.active /\ Members \ Present # {})
    BY <2>2 DEF MarkAbsent, TypeOK, GroupState
  <2>3. QED
    BY <2>1, <2>2
<1>2. \A m \in Members : group'.sector.log[m] = 0 => group.sector.log[m] = 0
  BY MarkFacts, Constants
<1>3. Members \ Present = {} \/ ~group.active => UNCHANGED <<saved, holders, missed>>
  BY DEF MarkAbsent
<1>4. QED
  BY <1>1, <1>2, <1>3

LEMMA OfflineStatus ==
  ASSUME TypeOK, OpensCounted, NEW m \in Members, Offline(m)
  PROVE  /\ group'.check = group.check
         /\ \/ UNCHANGED <<saved, holders>> /\ group'.sector = group.sector /\ group'.opens = group.opens
               /\ mounted' = mounted
            \/ /\ mounted /\ ~mounted' /\ InSynch \ {m} = {}
               /\ group.opens > 1 => group'.sector.status = group.sector.status /\ UNCHANGED <<saved, holders>>
               /\ group.opens = 1 => /\ group'.sector.status = IF group.check THEN "check" ELSE "closed"
                                     /\ saved' = group'.sector /\ holders' = Present \intersect online
         /\ mounted /\ ~mounted' => ~group'.active
<1> DEFINE left   == [member EXCEPT ![m].present = FALSE, ![m].remirroring = FALSE]
           able   == {k \in Members : left[k].present /\ left[k].insynch}
           close  == able = {} /\ group.active /\ mounted
           g      == [group EXCEPT !.modifyCheck = TRUE, !.active = @ /\ able # {}]
<1>1. /\ mounted' = (mounted /\ ~close)
      /\ IF close THEN CloseGroup(g) ELSE group' = g /\ UNCHANGED <<saved, holders>>
  BY DEF Offline
<1>2. \A k \in Members : /\ left[k].present <=> member[k].present /\ k # m
                         /\ left[k].insynch = member[k].insynch
  BY DEF TypeOK, MemberState
<1>3. able = InSynch \ {m}
  BY <1>2 DEF InSynch, Present
<1> HIDE DEF able
<1>4. /\ g \in GroupState /\ g.check = group.check /\ g.sector = group.sector /\ g.opens = group.opens
      /\ g.active <=> group.active /\ able # {}
  BY DEF TypeOK, GroupState
<1> HIDE DEF g
<1>5. CASE ~close
  BY <1>1, <1>4, <1>5 DEF TypeOK
<1>6. CASE close
  <2>1. group.opens > 0 /\ mounted
    BY <1>6 DEF OpensCounted
  <2>2. /\ group'.check = g.check
        /\ g.opens > 1 => group'.sector.status = g.sector.status /\ UNCHANGED <<saved, holders>>
        /\ g.opens = 1 => /\ group'.sector.status = IF g.check THEN "check" ELSE "closed"
                          /\ saved' = group'.sector /\ holders' = Present \intersect online
    BY <1>1, <1>4, <1>6, <2>1, CloseStatus
  <2>3. group'.active = g.active
    BY <1>1, <1>4, <1>6, <2>1, CloseFacts
  <2>4. ~mounted'
    BY <1>1, <1>6
  <2>5. QED
    BY <1>3, <1>4, <1>6, <2>1, <2>2, <2>3, <2>4
<1>7. QED
  BY <1>5, <1>6

\* A sector that calls all good is not on a device when the members in synch are gone.
LEMMA NobodyLeft ==
  ASSUME up, LogInv, AllZero(group.sector.log), InSynch \intersect online = {}
  PROVE  Present \intersect online = {}
  BY DEF LogInv, AllZero, InSynch, Present

\* The last close of a group.
LEMMA LastClose ==
  ASSUME AgreeInv, up, saved' = group'.sector, group'.sector.log = group.sector.log,
         exposed' = exposed, UNCHANGED <<disk, overrun, missed>>, client'.op = client.op,
         group'.sector.status = "closed" => ~group.check \/ control.state = "finish",
         AllZero(group.sector.log) /\ ~exposed /\ holders' # {} => client.op = "idle"
  PROVE  ClosedInv' /\ CleanInv'
<1>1. CASE ~CleanSector'
  BY <1>1 DEF ClosedInv, CleanInv
<1>2. CASE CleanSector'
  <2>1. AllZero(group.sector.log) /\ group'.sector.status = "closed" /\ ~exposed /\ holders' # {}
    BY <1>2 DEF CleanSector, AllZero
  <2>2. client.op = "idle"
    BY <2>1
  <2>3. missed = {} => \A b \in Block : Same(b)
    BY <2>1, <2>2 DEF AgreeInv, InStep, HalfWritten
  <2>4. QED
    BY <2>2, <2>3 DEF ClosedInv, CleanInv, Same
<1>3. QED
  BY <1>1, <1>2

LEMMA MountTwo == ASSUME BaseInv, TwoInv, Mount PROVE TwoInv'
<1>1. /\ up /\ up' /\ client.op = "idle" /\ ~mounted /\ mounted' = TRUE /\ group' = Opened(group)
      /\ IF group.opens = 0 THEN Flush(group'.sector) ELSE UNCHANGED <<saved, holders>>
      /\ UNCHANGED <<disk, member, control, client, missed, exposed, overrun>>
  BY DEF Mount, Quiet, history
<1>2. group.opens < 2 /\ TypeOK /\ group.opens \in Nat
  BY <1>1 DEF BaseInv, GroupInv, OpensCounted
<1>3. /\ group'.opens = group.opens + 1 /\ group'.sector.log = group.sector.log
      /\ group'.check = group.check
      /\ group'.sector.status = IF group.opens = 0 THEN "opened" ELSE group.sector.status
  BY <1>1, <1>2, OpenFacts, OpenStatus
<1>4. group'.sector.status = "opened" /\ saved'.status = group'.sector.status
  BY <1>1, <1>2, <1>3 DEF TwoInv, SectorInv, StatusInv, Flush
<1>5. Present' = Present /\ (Level' <=> Level)
  BY <1>1 DEF Present, Level
<1>6. SectorInv'
  BY <1>1, <1>3, <1>4, <1>5 DEF TwoInv, SectorInv, StatusInv, LogInv, WriterInv, BusyInv, AllZero
<1>7. ClosedInv' /\ CleanInv'
  BY <1>4, NotClean
<1>8. AgreeInv' /\ PairInv'
  <2>1. \A b : InStep(b) => InStep(b)'
    BY <1>1, InStepKeeps
  <2>2. \A b \in Block : Reached(b)' => Reached(b)
    BY <1>1 DEF Reached
  <2>3. AgreeInv'
    BY <1>1, <1>3, <1>5, <2>1, <2>2, AgreeKeeps DEF TwoInv
  <2>4. PairInv'
    BY <1>1, <1>3, <1>5, <2>1, PairKeeps DEF TwoInv
  <2>5. QED
    BY <2>3, <2>4
<1>9. QED
  BY <1>6, <1>7, <1>8 DEF TwoInv

LEMMA DismountTwo == ASSUME BaseInv, TwoInv, Dismount PROVE TwoInv'
<1>1. /\ up /\ up' /\ client.op = "idle" /\ mounted /\ CloseGroup(group)
      /\ UNCHANGED <<disk, member, control, client, missed, exposed, overrun>>
  BY DEF Dismount, Quiet, history
<1>2. group.opens > 0 /\ TypeOK /\ group \in GroupState /\ group.opens \in 0 .. 2
  BY <1>1 DEF BaseInv, GroupInv, OpensCounted, TypeOK, GroupState
<1>3. /\ group'.opens = group.opens - 1 /\ group'.sector.log = group.sector.log
      /\ group'.check = group.check
      /\ group.opens > 1 => group'.sector.status = group.sector.status /\ UNCHANGED <<saved, holders>>
      /\ group.opens = 1 => /\ group'.sector.status = IF group.check THEN "check" ELSE "closed"
                            /\ saved' = group'.sector
  BY <1>1, <1>2, CloseFacts, CloseStatus
<1>4. Present' = Present /\ (Level' <=> Level)
  BY <1>1 DEF Present, Level
<1>5. StatusInv'
  BY <1>1, <1>2, <1>3 DEF TwoInv, SectorInv, StatusInv
<1>6. SectorInv'
  BY <1>1, <1>3, <1>4, <1>5 DEF TwoInv, SectorInv, LogInv, WriterInv, BusyInv, AllZero
<1>7. ClosedInv' /\ CleanInv'
  <2>1. CASE group.opens = 1
    BY <1>1, <1>3, <2>1, LastClose DEF TwoInv
  <2>2. CASE group.opens > 1
    <3>1. saved'.status # "closed"
      BY <1>1, <1>2, <1>3, <2>2 DEF TwoInv, SectorInv, StatusInv
    <3>2. QED
      BY <3>1, NotClean
  <2>3. QED
    BY <1>2, <2>1, <2>2
<1>8. AgreeInv' /\ PairInv'
  <2>1. \A b : InStep(b) => InStep(b)'
    BY <1>1, InStepKeeps
  <2>2. \A b \in Block : Reached(b)' => Reached(b)
    BY <1>1 DEF Reached
  <2>3. AgreeInv'
    BY <1>1, <1>3, <1>4, <2>1, <2>2, AgreeKeeps DEF TwoInv
  <2>4. PairInv'
    BY <1>1, <1>3, <1>4, <2>1, PairKeeps DEF TwoInv
  <2>5. QED
    BY <2>3, <2>4
<1>9. QED
  BY <1>6, <1>7, <1>8 DEF TwoInv

LEMMA StopTwo == ASSUME BaseInv, TwoInv, Stop PROVE TwoInv'
<1>1. /\ up /\ ~up' /\ control' = NoControl /\ client' = NoClient
      /\ exposed' = (exposed \/ missed # {}) /\ missed' = {}
      /\ UNCHANGED <<disk, saved, holders, overrun>>
  BY DEF Stop, durable
<1>2. NoControl.state = "none" /\ NoClient.op = "idle"
  BY DEF NoControl, NoClient
<1>3. SectorInv' /\ AgreeInv' /\ PairInv'
  BY <1>1, <1>2 DEF SectorInv, StatusInv, LogInv, WriterInv, BusyInv, AgreeInv, PairInv
<1>4. CleanSector' => CleanSector /\ missed = {}
  BY <1>1 DEF CleanSector, AllZero
<1>5. ClosedInv' /\ CleanInv'
  BY <1>1, <1>2, <1>4 DEF TwoInv, ClosedInv, CleanInv, Same
<1>6. QED
  BY <1>3, <1>5 DEF TwoInv

\* A step that touches neither what the members hold nor the group.
LEMMA QuietTwo ==
  ASSUME BaseInv, TwoInv, up, UNCHANGED <<disk, saved, holders, up, group, member, control>>,
         mounted' = mounted, exposed' = exposed, overrun' = overrun, missed' = missed,
         client'.op = client.op \/ mounted, client'.op = "idle" => client.op = "idle",
         \A b : InStep(b) => InStep(b)'
  PROVE  TwoInv'
<1>1. Present' = Present /\ (Level' <=> Level)
  BY DEF Present, Level
<1>2. SectorInv'
  BY <1>1 DEF TwoInv, SectorInv, StatusInv, LogInv, WriterInv, BusyInv, AllZero
<1>3. ClosedInv' /\ CleanInv'
  <2>1. CASE mounted
    <3>1. group.opens > 0
      BY <2>1 DEF BaseInv, GroupInv, OpensCounted
    <3>2. saved'.status # "closed"
      BY <3>1 DEF TwoInv, SectorInv, StatusInv
    <3>3. QED
      BY <3>2, NotClean
  <2>2. CASE client'.op = client.op
    BY <2>2, CleanKeeps DEF TwoInv, Same
  <2>3. QED
    BY <2>1, <2>2
<1>4. \A b \in Block : Reached(b)' => Reached(b)
  BY DEF Reached
<1>5. AgreeInv'
  BY <1>1, <1>4, AgreeKeeps DEF TwoInv
<1>6. PairInv'
  BY <1>1, PairKeeps DEF TwoInv
<1>7. QED
  BY <1>2, <1>3, <1>5, <1>6 DEF TwoInv

LEMMA FailDeviceTwo == ASSUME BaseInv, TwoInv, NEW m \in Members, FailDevice(m) PROVE TwoInv'
<1>1. /\ up /\ UNCHANGED <<disk, saved, holders, up, group, member, control, client>>
      /\ mounted' = mounted /\ exposed' = exposed /\ overrun' = overrun /\ missed' = missed
  BY DEF FailDevice, durable, history
<1>2. \A b : InStep(b) => InStep(b)'
  BY <1>1, InStepKeeps
<1>3. QED
  BY <1>1, <1>2, QuietTwo

LEMMA StartWriteTwo == ASSUME BaseInv, TwoInv, NEW b \in Block, StartWrite(b) PROVE TwoInv'
<1>1. /\ up /\ mounted /\ client.op = "idle" /\ client'.op = "write"
      /\ UNCHANGED <<disk, saved, holders, up, group, member, control>>
      /\ mounted' = mounted /\ exposed' = exposed /\ overrun' = overrun /\ missed' = missed
  BY DEF StartWrite, Quiet, durable
<1>2. \A c : InStep(c) => InStep(c)'
  BY <1>1 DEF InStep, HalfWritten, Same
<1>3. QED
  BY <1>1, <1>2, QuietTwo

-----------------------------------------------------------------------------
(* Steps of the remirror process that change nothing else *)

LEMMA ControlTwo ==
  ASSUME BaseInv, TwoInv, up, RemirrorOnly,
         control.state \notin {"none", "finish"}, control'.state \notin {"none", "finish"},
         missed = {} /\ ~exposed /\ Paired => \A b \in Block : Reached(b)' => Reached(b) \/ InStep(b),
         PairInv'
  PROVE  TwoInv'
<1>1. /\ UNCHANGED <<disk, saved, holders, up, mounted, group, member, client>>
      /\ UNCHANGED <<missed, exposed, overrun>>
  BY DEF RemirrorOnly, durable, history
<1>2. Present' = Present /\ (Level' <=> Level) /\ (Paired' <=> Paired)
  BY <1>1 DEF Present, Level, Paired
<1>3. SectorInv'
  BY <1>1, <1>2 DEF TwoInv, SectorInv, StatusInv, LogInv, WriterInv, BusyInv, AllZero
<1>4. ClosedInv' /\ CleanInv'
  BY <1>1, CleanKeeps DEF TwoInv, Same
<1>5. AgreeInv'
  <2> SUFFICES ASSUME missed = {}, ~exposed, NEW b \in Block,
                      \/ AllZero(group.sector.log)' /\ (~group'.check \/ control'.state = "finish")
                      \/ Level'
                      \/ Paired' /\ control'.state # "none" /\ Reached(b)'
               PROVE  InStep(b)'
    BY <1>1 DEF AgreeInv
  <2>1. \/ AllZero(group.sector.log) /\ ~group.check
        \/ Level
        \/ Paired /\ Reached(b)
        \/ InStep(b)
    BY <1>1, <1>2 DEF AllZero
  <2>2. InStep(b)
    BY <2>1 DEF TwoInv, AgreeInv
  <2>3. QED
    BY <1>1, <2>2, InStepKeeps
<1>6. QED
  BY <1>3, <1>4, <1>5 DEF TwoInv

\* One that goes on to another block.
LEMMA OnwardTwo ==
  ASSUME BaseInv, TwoInv, up, RemirrorOnly, control.state \notin {"none", "finish"},
         Onward(control, control', AnyMirror),
         \/ control'.valid = control.valid
         \/ /\ control'.valid = control.valid \union {control.index}
            /\ missed = {} /\ ~exposed /\ Paired /\ ControlBlock \in Block => InStep(ControlBlock)
  PROVE  TwoInv'
<1>1. /\ control'.state \notin {"none", "finish"} /\ control'.step = "poll"
      /\ control'.section = control.section
  BY DEF Onward
<1>2. ASSUME missed = {}, ~exposed, Paired, NEW b \in Block, Reached(b)'
      PROVE  Reached(b) \/ InStep(b)
  <2>1. Reached(b) \/ /\ control'.valid = control.valid \union {control.index}
                      /\ SectionOf(b) = control.section /\ b % SectionSize = control.index
    BY <1>1, <1>2 DEF Reached, SectionOf
  <2>2. CASE /\ control'.valid = control.valid \union {control.index}
             /\ SectionOf(b) = control.section /\ b % SectionSize = control.index
    <3>1. b = ControlBlock
      BY <2>2, Sections DEF ControlBlock
    <3>2. control'.valid = control.valid => Reached(b)
      BY <1>1, <1>2 DEF Reached, SectionOf
    <3>3. QED
      BY <1>2, <3>1, <3>2
  <2>3. QED
    BY <2>1, <2>2
<1>3. PairInv'
  BY <1>1 DEF PairInv
<1>4. QED
  BY <1>1, <1>2, <1>3, ControlTwo

LEMMA PollTwo == ASSUME BaseInv, TwoInv, Poll PROVE TwoInv'
<1>1. /\ up /\ RemirrorOnly /\ control.state \in {"validate", "remirror"}
      /\ control'.state \in {"validate", "remirror", "update"} /\ control'.at = 1
      /\ control'.section = control.section /\ control'.valid = control.valid
  BY PollFacts
<1>2. \A b \in Block : Reached(b)' => Reached(b)
  BY <1>1 DEF Reached
<1>3. PairInv'
  <2>1. \A m \in Members : ~(m < control'.at)
    BY <1>1, Constants
  <2>2. QED
    BY <2>1 DEF PairInv
<1>4. QED
  BY <1>1, <1>2, <1>3, ControlTwo

LEMMA QuiesceTwo == ASSUME BaseInv, TwoInv, Quiesce PROVE TwoInv'
<1>1. /\ up /\ RemirrorOnly /\ control.state \notin {"none", "finish"}
      /\ control'.state = control.state /\ control'.step = control.step
      /\ control'.section = control.section /\ control'.index = control.index
      /\ control'.valid = control.valid /\ control'.at = control.at
      /\ control'.buffer = control.buffer
  BY QuiesceFacts DEF Quiesce
<1>2. \A b \in Block : Reached(b)' => Reached(b)
  BY <1>1 DEF Reached
<1>3. /\ UNCHANGED <<disk, missed, exposed, overrun, client, group>> /\ Present' = Present
  BY <1>1 DEF RemirrorOnly, durable, history, Present
<1>4. PairInv'
  BY <1>1, <1>3, InStepKeeps, PairKeeps DEF TwoInv
<1>5. QED
  BY <1>1, <1>2, <1>4, ControlTwo

LEMMA RemirrorCheckTwo == ASSUME BaseInv, TwoInv, RemirrorCheck PROVE TwoInv'
<1>1. /\ up /\ RemirrorOnly /\ control.state = "remirror"
      /\ \/ /\ Onward(control, control', AnyMirror) /\ control'.valid = control.valid
         \/ /\ control'.state = "remirror" /\ control'.section = control.section
            /\ control'.valid = control.valid
  BY RemirrorCheckFacts
<1>2. CASE Onward(control, control', AnyMirror) /\ control'.valid = control.valid
  BY <1>1, <1>2, OnwardTwo
<1>3. CASE control'.state = "remirror" /\ control'.section = control.section
           /\ control'.valid = control.valid
  <2>1. \A b \in Block : Reached(b)' => Reached(b)
    BY <1>3 DEF Reached
  <2>2. PairInv'
    BY <1>3 DEF PairInv
  <2>3. QED
    BY <1>1, <1>3, <2>1, <2>2, ControlTwo
<1>4. QED
  BY <1>1, <1>2, <1>3

LEMMA RemirrorReadTwo == ASSUME BaseInv, TwoInv, RemirrorRead PROVE TwoInv'
<1>1. /\ up /\ RemirrorOnly /\ control.state = "remirror"
      /\ control'.state = "remirror" /\ control'.section = control.section
      /\ control'.valid = control.valid
  BY RemirrorReadFacts
<1>2. \A b \in Block : Reached(b)' => Reached(b)
  BY <1>1 DEF Reached
<1>3. PairInv'
  BY <1>1 DEF PairInv
<1>4. QED
  BY <1>1, <1>2, <1>3, ControlTwo

\* As long as there is somebody to compare with, both are there.
LEMMA BothPresent ==
  ASSUME N = 2, TypeOK, AnyMirror
  PROVE  Present = Members
<1>1. 1 \in Int /\ N \in Int /\ 1 <= N /\ Members = 1 .. N
  BY Constants
<1>2. IsFiniteSet(1 .. N) /\ Cardinality(1 .. N) = IF 1 > N THEN 0 ELSE N - 1 + 1
  BY <1>1, FS_Interval
<1>3. IsFiniteSet(Members) /\ Cardinality(Members) = 2
  BY <1>1, <1>2
<1>4. SUFFICES ASSUME NEW m \in Members, m \notin Present PROVE FALSE
  BY PresentFacts
<1>5. IsFiniteSet(Members \ {m}) /\ Cardinality(Members \ {m}) = 1
  BY <1>3, FS_RemoveElement
<1>6. Present \subseteq Members \ {m}
  BY <1>4, PresentFacts
<1>7. Cardinality(Present) <= 1 /\ Cardinality(Present) \in Nat
  BY <1>5, <1>6, PresentFacts, FS_Subset
<1>8. QED
  BY <1>7 DEF AnyMirror

LEMMA ValidateCheckTwo == ASSUME N = 2, BaseInv, TwoInv, ValidateCheck PROVE TwoInv'
<1>1. /\ up /\ RemirrorOnly /\ control.state = "validate" /\ control.step = "check"
      /\ \/ /\ Onward(control, control', AnyMirror) /\ control'.valid = control.valid
         \/ /\ Onward(control, control', AnyMirror)
            /\ control'.valid = control.valid \union {control.index}
            /\ ControlBlock >= Blocks \/ \A k \in Present : k < control.at
            /\ ControlBlock >= Blocks \/ control.at > N \/ AnyMirror
         \/ /\ control'.state = "validate" /\ control'.section = control.section
            /\ control'.index = control.index /\ control'.valid = control.valid
            /\ control'.buffer = control.buffer /\ AnyMirror
            /\ \A k \in Present : k < control'.at <=> k < control.at
  BY ValidateCheckFacts
<1>2. /\ TypeOK /\ Members \subseteq Nat /\ N \in Nat /\ Members = 1 .. N
      /\ control.at \in 1 .. N + 1 /\ control.at \in Nat
  BY PresentFacts, AtWork, Constants DEF Control
<1>3. CASE Onward(control, control', AnyMirror) /\ control'.valid = control.valid
  BY <1>1, <1>3, OnwardTwo
<1>4. CASE /\ Onward(control, control', AnyMirror)
           /\ control'.valid = control.valid \union {control.index}
           /\ ControlBlock >= Blocks \/ \A k \in Present : k < control.at
           /\ ControlBlock >= Blocks \/ control.at > N \/ AnyMirror
  <2>1. ASSUME missed = {}, ~exposed, Paired, ControlBlock \in Block PROVE InStep(ControlBlock)
    <3>1. ~(ControlBlock >= Blocks)
      BY <2>1, Constants DEF Block
    <3>2. \A k \in Members : k < control.at
      <4>1. CASE control.at > N
        BY <1>2, <4>1
      <4>2. CASE AnyMirror
        BY <1>2, <1>4, <3>1, <4>2, BothPresent
      <4>3. QED
        BY <1>4, <3>1, <4>1, <4>2
    <3>3. QED
      BY <1>1, <2>1, <3>2 DEF TwoInv, PairInv, InStep, Same
  <2>2. QED
    BY <1>1, <1>4, <2>1, OnwardTwo
<1>5. CASE /\ control'.state = "validate" /\ control'.section = control.section
           /\ control'.index = control.index /\ control'.valid = control.valid
           /\ control'.buffer = control.buffer /\ AnyMirror
           /\ \A k \in Present : k < control'.at <=> k < control.at
  <2>1. \A k \in Members : k < control'.at <=> k < control.at
    BY <1>2, <1>5, BothPresent
  <2>2. /\ UNCHANGED <<disk, missed, exposed, overrun, client, group>> /\ Present' = Present
        /\ ControlBlock' = ControlBlock
    BY <1>1, <1>5 DEF RemirrorOnly, durable, history, Present, ControlBlock
  <2>3. PairInv'
    <3>1. Paired' => Paired
      BY <2>2 DEF Paired
    <3>2. InStep(ControlBlock) => InStep(ControlBlock)'
      BY <2>2 DEF InStep, Same, HalfWritten
    <3>3. QED
      BY <1>1, <1>5, <2>1, <2>2, <3>1, <3>2 DEF TwoInv, PairInv
  <2>4. \A b \in Block : Reached(b)' => Reached(b)
    BY <1>5 DEF Reached
  <2>5. QED
    BY <1>1, <1>5, <2>3, <2>4, ControlTwo
<1>6. QED
  BY <1>1, <1>3, <1>4, <1>5

LEMMA ValidateReadTwo == ASSUME N = 2, BaseInv, TwoInv, ValidateRead PROVE TwoInv'
<1>a. PICK b : b = ControlBlock
  OBVIOUS
<1>b. PICK m : m = control.at
  OBVIOUS
<1>1. /\ up /\ RemirrorOnly /\ control.state = "validate" /\ control.step = "read"
      /\ m \in Members /\ b \in Block
      /\ \/ Onward(control, control', AnyMirror) /\ control'.valid = control.valid
         \/ /\ control.buffer \in {NoData, disk[m][b]} /\ control'.buffer = disk[m][b]
            /\ control'.state = "validate" /\ control'.section = control.section
            /\ control'.index = control.index /\ control'.valid = control.valid
            /\ control'.at = m + 1
  BY <1>a, <1>b, ValidateReadFacts
<1>2. CASE Onward(control, control', AnyMirror) /\ control'.valid = control.valid
  BY <1>1, <1>2, OnwardTwo
<1>3. CASE /\ control.buffer \in {NoData, disk[m][b]} /\ control'.buffer = disk[m][b]
           /\ control'.state = "validate" /\ control'.section = control.section
           /\ control'.index = control.index /\ control'.valid = control.valid
           /\ control'.at = m + 1
  <2>1. /\ UNCHANGED <<disk, missed, exposed, overrun, client, group>> /\ Present' = Present
        /\ ControlBlock' = b
    BY <1>1, <1>3, <1>a DEF RemirrorOnly, durable, history, Present, ControlBlock
  <2>2. PairInv'
    <3> SUFFICES ASSUME missed = {}, ~exposed, Paired
                 PROVE  InStep(b)' \/ \A k \in Members : k < m + 1 => disk[k][b] = disk[m][b]
      BY <1>3, <2>1, <1>a DEF PairInv, Paired, InStep, Same, HalfWritten
    <3>1. InStep(b) \/ \A k \in Members : k < m => disk[k][b] = control.buffer
      BY <1>1, <1>a, <1>b DEF TwoInv, PairInv
    <3>2. CASE InStep(b)
      BY <2>1, <3>2, InStepKeeps
    <3>3. CASE \A k \in Members : k < m => disk[k][b] = control.buffer
      <4>1. \A k \in Members : k < m + 1 => k < m \/ k = m
        BY <1>1, Constants
      <4>2. \A k \in Members : disk[k][b] \in Data
        BY <1>1 DEF BaseInv, TypeOK
      <4>3. NoData \notin Data
        BY Constants
      <4>4. QED
        BY <1>3, <3>3, <4>1, <4>2, <4>3
    <3>4. QED
      BY <3>1, <3>2, <3>3
  <2>3. \A c \in Block : Reached(c)' => Reached(c)
    BY <1>3 DEF Reached
  <2>4. QED
    BY <1>1, <1>3, <2>2, <2>3, ControlTwo
<1>4. QED
  BY <1>1, <1>2, <1>3

-----------------------------------------------------------------------------
(* Members that are marked, and members that go *)

LEMMA MarkTwo ==
  ASSUME BaseInv, TwoInv, up, MarkAbsent, UNCHANGED <<disk, overrun>>, up', mounted' = mounted,
         exposed' = exposed, client'.op = client.op, client'.block = client.block,
         client'.success = client.success, group.opens > 0 \/ ~group.active,
         \/ control' = control
         \/ /\ control'.state = control.state /\ control'.step = "poll"
            /\ control'.section = control.section /\ control'.valid = control.valid
  PROVE  TwoInv'
<1>1. /\ TypeOK /\ group'.check = group.check /\ group'.sector.status = group.sector.status
      /\ UNCHANGED <<saved, holders>> \/ saved' = group'.sector
      /\ \A m \in Members : group'.sector.log[m] = 0 => group.sector.log[m] = 0
      /\ group.active \/ UNCHANGED <<saved, holders, missed>>
  BY MarkStatus DEF BaseInv
<1>2. /\ group'.opens = group.opens /\ group'.active = group.active /\ Present' = Present
      /\ \A m \in Members : m \in Present => member'[m] = member[m]
      /\ \/ /\ Members \ Present # {}
            /\ group'.sector.log = [m \in Members |-> IF m \in Present THEN group.sector.log[m] ELSE Out]
         \/ missed' = missed /\ group'.sector = group.sector /\ member' = member
  BY <1>1, MarkFacts
<1>3. /\ \A b : InStep(b) => InStep(b)'
      /\ control'.state = control.state
      /\ control'.section = control.section /\ control'.valid = control.valid
      /\ \A b \in Block : Reached(b)' => Reached(b)
  BY InStepKeeps DEF Reached
<1>4. Level' <=> Level
  BY <1>2 DEF Level
<1>5. AllZero(group'.sector.log) => AllZero(group.sector.log)
  BY <1>1 DEF AllZero
<1>6. SectorInv'
  BY <1>1, <1>2, <1>3, <1>4, <1>5 DEF TwoInv, SectorInv, StatusInv, LogInv, WriterInv, BusyInv, Present
<1>7. ClosedInv' /\ CleanInv'
  <2>1. CASE group.opens > 0
    <3>1. saved'.status # "closed"
      BY <1>1, <2>1 DEF TwoInv, SectorInv, StatusInv
    <3>2. QED
      BY <3>1, NotClean
  <2>2. CASE ~group.active
    BY <1>1, <2>2, CleanKeeps DEF TwoInv, Same
  <2>3. QED
    BY <2>1, <2>2
<1>8. AgreeInv' /\ PairInv'
  <2>1. CASE /\ Members \ Present # {}
             /\ group'.sector.log = [m \in Members |-> IF m \in Present THEN group.sector.log[m] ELSE Out]
    <3>1. PICK m \in Members : m \notin Present' /\ group'.sector.log[m] # 0
      BY <1>2, <2>1, Constants
    <3>2. ~AllZero(group'.sector.log) /\ ~Level' /\ ~Paired'
      BY <3>1 DEF AllZero, Level, Paired
    <3>3. QED
      BY <3>2 DEF AgreeInv, PairInv, AllZero
  <2>2. CASE missed' = missed /\ group'.sector = group.sector /\ member' = member
    <3>1. AgreeInv'
      BY <1>1, <1>2, <1>3, <1>4, <2>2, AgreeKeeps DEF TwoInv
    <3>2. PairInv'
      BY <1>1, <1>2, <1>3, <2>2, PairKeeps DEF TwoInv
    <3>3. QED
      BY <3>1, <3>2
  <2>3. QED
    BY <1>2, <2>1, <2>2
<1>9. QED
  BY <1>6, <1>7, <1>8 DEF TwoInv

LEMMA WriteMarkTwo == ASSUME BaseInv, TwoInv, WriteMark PROVE TwoInv'
<1>1. /\ up /\ TypeOK /\ client.op = "write"
      /\ control.state # "none" \/ mounted => group.opens > 0
  BY DEF WriteMark, BaseInv, GroupInv, Forgotten, NoClient, OpensCounted
<1>2. /\ MarkAbsent /\ UNCHANGED <<disk, overrun>> /\ up' = up /\ mounted' = mounted
      /\ exposed' = exposed /\ control' = control
      /\ client' = [client EXCEPT !.at = IF group.active THEN NextPresent(client.at)
                                         ELSE NextPresent(client.at) + 1]
  BY DEF WriteMark
<1>3. client'.op = client.op /\ client'.block = client.block /\ client'.success = client.success
  BY <1>1, <1>2 DEF TypeOK, Client
<1>4. group.opens > 0 \/ ~group.active
  BY <1>1 DEF TwoInv, SectorInv, WriterInv
<1>5. QED
  BY <1>1, <1>2, <1>3, <1>4, MarkTwo

LEMMA RemirrorMarkTwo == ASSUME BaseInv, TwoInv, RemirrorMark PROVE TwoInv'
<1>1. /\ up /\ MarkAbsent /\ control.state = "remirror"
      /\ \/ control' = control
         \/ /\ Onward(control, control', AnyMirror) /\ control'.valid = control.valid
            /\ control'.state = "remirror"
      /\ UNCHANGED <<disk, up, mounted, client>> /\ exposed' = exposed /\ overrun' = overrun
  BY RemirrorMarkFacts
<1>2. group.opens > 0
  BY <1>1 DEF BaseInv, GroupInv, OpensCounted
<1>3. QED
  BY <1>1, <1>2, MarkTwo DEF Onward

LEMMA OfflineTwo ==
  ASSUME BaseInv, TwoInv, up, NEW m \in Members, m \notin online, Offline(m),
         UNCHANGED <<disk, overrun, missed>>, up', exposed' = exposed,
         client'.op = client.op, client'.block = client.block, client'.success = client.success,
         \/ control' = control
         \/ /\ control.state \notin {"none", "finish"} /\ control'.state \notin {"none", "finish"}
            /\ control'.step = "poll"
            /\ control'.section = control.section /\ control'.valid = control.valid
  PROVE  TwoInv'
<1>1. /\ TypeOK /\ OpensCounted /\ group.opens \in 0 .. 2
      /\ mounted => group.opens > 0
  BY DEF BaseInv, GroupInv, OpensCounted, TypeOK, GroupState
<1>2. /\ group'.check = group.check
      /\ mounted /\ ~mounted' => ~group'.active
      /\ \/ UNCHANGED <<saved, holders>> /\ group'.sector = group.sector /\ group'.opens = group.opens
            /\ mounted' = mounted
         \/ /\ mounted /\ ~mounted' /\ InSynch \ {m} = {}
            /\ group.opens > 1 => group'.sector.status = group.sector.status /\ UNCHANGED <<saved, holders>>
            /\ group.opens = 1 => /\ group'.sector.status = IF group.check THEN "check" ELSE "closed"
                                  /\ saved' = group'.sector /\ holders' = Present \intersect online
  BY <1>1, OfflineStatus
<1>3. /\ group'.sector.log = group.sector.log /\ Present' = Present \ {m}
      /\ \A k \in Members : member'[k].insynch = member[k].insynch
      /\ group'.active => group.active
      /\ mounted' => mounted
      /\ group.opens - group'.opens = (IF mounted THEN 1 ELSE 0) - (IF mounted' THEN 1 ELSE 0)
      /\ group' \in GroupState
  BY <1>1, OfflineFacts
<1>4. ~Level' /\ Present' \subseteq Present /\ Present \subseteq Members
  BY <1>1, <1>3, PresentFacts DEF Level
<1>5. group'.opens \in 0 .. 2
  BY <1>3 DEF GroupState
<1>6. StatusInv'
  <2>1. CASE UNCHANGED <<saved, holders>> /\ group'.sector = group.sector /\ group'.opens = group.opens
    BY <2>1 DEF TwoInv, SectorInv, StatusInv
  <2>2. CASE mounted /\ ~mounted' /\ group.opens > 1
    BY <1>1, <1>2, <2>2 DEF TwoInv, SectorInv, StatusInv
  <2>3. CASE mounted /\ ~mounted' /\ group.opens = 1
    <3>1. group'.opens = 0
      BY <1>3, <1>5, <2>3
    <3>2. QED
      BY <1>2, <2>3, <3>1 DEF StatusInv
  <2>4. QED
    BY <1>1, <1>2, <2>1, <2>2, <2>3
<1>7. SectorInv'
  <2>1. LogInv'
    BY <1>3, <1>4 DEF TwoInv, SectorInv, LogInv
  <2>2. WriterInv'
    BY <1>2, <1>3 DEF TwoInv, SectorInv, WriterInv
  <2>3. BusyInv'
    BY <1>2, <1>3, <1>4 DEF TwoInv, SectorInv, BusyInv, AllZero
  <2>4. QED
    BY <1>6, <2>1, <2>2, <2>3 DEF SectorInv
<1>8. ClosedInv' /\ CleanInv'
  <2>1. CASE UNCHANGED <<saved, holders>>
    BY <2>1, CleanKeeps DEF TwoInv, Same
  <2>2. CASE group.opens = 1 /\ InSynch \ {m} = {} /\ saved' = group'.sector
             /\ holders' = Present \intersect online
             /\ group'.sector.status = IF group.check THEN "check" ELSE "closed"
    <3>1. AllZero(group.sector.log) => holders' = {}
      BY <2>2, NobodyLeft DEF TwoInv, SectorInv
    <3>2. QED
      BY <1>3, <2>2, <3>1, LastClose DEF TwoInv
  <2>3. QED
    BY <1>1, <1>2, <2>1, <2>2
<1>9. AgreeInv' /\ PairInv'
  <2>1. /\ \A b : InStep(b) => InStep(b)'
        /\ control'.state # "none" =>
             control.state # "none" /\ \A b \in Block : Reached(b)' => Reached(b)
    BY InStepKeeps DEF Reached
  <2>2. AgreeInv'
    BY <1>2, <1>3, <1>4, <2>1, AgreeKeeps DEF TwoInv
  <2>3. PairInv'
    BY <1>2, <1>3, <1>4, <2>1, PairKeeps DEF TwoInv
  <2>4. QED
    BY <2>2, <2>3
<1>10. QED
  BY <1>7, <1>8, <1>9 DEF TwoInv

LEMMA ReadLosesTwo ==
  ASSUME BaseInv, TwoInv, NEW m \in Members, NEW b \in Block, ReadLosesMember(m, b) PROVE TwoInv'
<1>1. /\ up /\ m \in Present /\ m \notin online /\ Offline(m)
      /\ UNCHANGED <<disk, up, control, client, overrun, missed>> /\ exposed' = exposed
  BY DEF ReadLosesMember, Readable, Present, history
<1>2. QED
  BY <1>1, OfflineTwo

LEMMA WriteLosesTwo == ASSUME BaseInv, TwoInv, WriteLosesMember PROVE TwoInv'
<1> DEFINE m == NextPresent(client.at)
<1>1. /\ up /\ m \in Members /\ m \in Present /\ m \notin online /\ Offline(m)
      /\ UNCHANGED <<disk, up, control, overrun, missed>> /\ exposed' = exposed
  BY WriteLosesFacts
<1>2. client' = [client EXCEPT !.at = m + 1] /\ client \in Client
  BY DEF WriteLosesMember, BaseInv, TypeOK
<1> HIDE DEF m
<1>3. client'.op = client.op /\ client'.block = client.block /\ client'.success = client.success
  BY <1>2 DEF Client
<1>4. QED
  BY <1>1, <1>3, OfflineTwo

LEMMA RemirrorLosesTwo == ASSUME BaseInv, TwoInv, RemirrorLosesMember PROVE TwoInv'
<1>0. PICK m : m = control.at
  OBVIOUS
<1>1. /\ up /\ m \in Members /\ m \notin online /\ Offline(m)
      /\ control.state \in {"validate", "remirror"}
      /\ Onward(control, control', AnyMirror) /\ control'.valid = control.valid
      /\ UNCHANGED <<disk, up, client, overrun, missed>> /\ exposed' = exposed
  BY <1>0, RemirrorLosesFacts
<1>2. QED
  BY <1>1, OfflineTwo DEF Onward

-----------------------------------------------------------------------------
(* Members that are written *)

LEMMA WriteMemberTwo == ASSUME BaseInv, TwoInv, WriteMember PROVE TwoInv'
<1>0. PICK m, b : m = NextPresent(client.at) /\ b = client.block
  OBVIOUS
<1>1. /\ up /\ up' /\ m \in Members /\ b \in Block /\ client.op = "write"
      /\ disk' = [disk EXCEPT ![m][b] = client.value]
      /\ client'.op = "write" /\ client'.block = b
      /\ overrun' = overrun \ {<<m, b>>}
      /\ UNCHANGED <<saved, holders, mounted, group, member, control>>
      /\ UNCHANGED <<missed, exposed>>
  BY <1>0, WriteMemberFacts
<1>2. client'.success > 0
  <2>1. client' = [client EXCEPT !.at = m + 1, !.success = @ + 1] /\ client \in Client
    BY <1>0 DEF WriteMember, BaseInv, TypeOK
  <2>2. client'.success = client.success + 1 /\ client.success \in 0 .. N
    BY <2>1 DEF Client
  <2>3. QED
    BY <2>2, Constants
<1>3. /\ disk \in [Members -> [Block -> Data]]
      /\ Present' = Present /\ (Level' <=> Level) /\ \A c \in Block : Reached(c)' => Reached(c)
  BY <1>1 DEF BaseInv, TypeOK, Present, Level, Reached
<1>4. InStep(b)'
  BY <1>1, <1>2 DEF InStep, HalfWritten
<1>5. \A c \in Block : c # b =>
        /\ \A k \in Members : disk'[k][c] = disk[k][c]
        /\ InStep(c) => InStep(c)'
  <2>1. \A c \in Block : c # b => \A k \in Members : disk'[k][c] = disk[k][c]
    BY <1>1, <1>3
  <2>2. \A c \in Block : c # b => \A k \in Members : <<k, c>> \in overrun' <=> <<k, c>> \in overrun
    BY <1>1
  <2>3. \A c \in Block : c # b => (HalfWritten(c) <=> HalfWritten(c)')
    BY <1>0, <1>1 DEF HalfWritten
  <2>4. QED
    BY <2>1, <2>2, <2>3 DEF InStep, Same
<1>6. SectorInv'
  BY <1>1, <1>3 DEF TwoInv, SectorInv, StatusInv, LogInv, WriterInv, BusyInv, AllZero
<1>7. ClosedInv' /\ CleanInv'
  BY <1>1 DEF TwoInv, ClosedInv, CleanInv, CleanSector, AllZero
<1>8. AgreeInv'
  BY <1>1, <1>3, <1>4, <1>5, AgreeKeeps DEF TwoInv
<1>9. PairInv'
  BY <1>1, <1>3, <1>4, <1>5, PairKeeps DEF TwoInv
<1>10. QED
  BY <1>6, <1>7, <1>8, <1>9 DEF TwoInv

LEMMA WriteReturnTwo == ASSUME BaseInv, DataInv, TwoInv, WriteReturn PROVE TwoInv'
<1>1. /\ client.op = "write" /\ NextPresent(client.at) = N + 1
      /\ missed' = IF client.success > 0
                   THEN missed \union {m \in Members \ Present : group.sector.log[m] # Out}
                   ELSE missed
      /\ client' = NoClient
      /\ UNCHANGED <<disk, saved, holders, up, mounted, group, member, control, overrun>>
      /\ exposed' = exposed
  BY DEF WriteReturn, durable
<1>2. /\ up /\ TypeOK /\ client'.op = "idle"
      /\ Present' = Present /\ (Level' <=> Level) /\ (Paired' <=> Paired)
      /\ \A c \in Block : Reached(c)' <=> Reached(c)
  BY <1>1, NoClientFacts DEF BaseInv, GroupInv, Forgotten, Present, Level, Paired, Reached
<1>3. SectorInv'
  BY <1>1, <1>2 DEF TwoInv, SectorInv, StatusInv, LogInv, WriterInv, BusyInv, AllZero
<1>4. ClosedInv' /\ CleanInv'
  BY <1>1 DEF TwoInv, ClosedInv, CleanInv, CleanSector, AllZero
\* With no member absent that the sector calls good, both are there and were written.
<1>5. ASSUME missed' = {}, ~exposed, AllZero(group.sector.log) \/ Level \/ Paired,
             NEW b \in Block, InStep(b)
      PROVE  Same(b)
  <2>1. CASE Same(b)
    BY <2>1
  <2>2. CASE ~Same(b)
    <3>1. b = client.block /\ client.success > 0
      BY <1>5, <2>2 DEF InStep, HalfWritten
    <3>2. \A m \in Members \ Present : group.sector.log[m] = Out
      BY <1>1, <1>5, <3>1
    <3>3. \A m \in Members : m \in Present
      BY <1>5, <3>2, Constants DEF AllZero, Level, Paired
    <3>4. group.active
      BY <1>2, <3>3 DEF BaseInv, GroupInv, ActiveExact
    <3>5. \A m \in Members : m < client.at
      BY <1>1, <1>2, <3>3, NextPresentIn DEF TypeOK, Client
    <3>6. \/ \A m \in Members : disk[m][b] = client.value
          \/ \A m \in Members : <<m, b>> \notin overrun => disk[m][b] = client.value
      BY <1>1, <1>5, <3>1, <3>3, <3>4, <3>5 DEF DataInv, WriteInv
    <3>7. QED
      BY <3>6 DEF Same
  <2>3. QED
    BY <2>1, <2>2
<1>6. \A b : Same(b) => InStep(b)'
  BY <1>1 DEF InStep, Same
<1>7. missed' = {} => missed = {}
  BY <1>1
<1>8. AgreeInv'
  <2> SUFFICES ASSUME missed' = {}, ~exposed, NEW b \in Block,
                      \/ AllZero(group.sector.log) /\ (~group.check \/ control.state = "finish")
                      \/ Level
                      \/ Paired /\ control.state # "none" /\ Reached(b)
               PROVE  InStep(b)'
    BY <1>1, <1>2 DEF AgreeInv, AllZero
  <2>1. InStep(b)
    BY <1>2, <1>7 DEF TwoInv, AgreeInv
  <2>2. QED
    BY <1>5, <1>6, <2>1
<1>9. PairInv'
  <2>1. PICK c : c = ControlBlock
    OBVIOUS
  <2> SUFFICES ASSUME missed' = {}, ~exposed, Paired,
                      control.state = "validate", control.step # "poll", c \in Block
               PROVE  \/ InStep(c)'
                      \/ \A m \in Members : m < control.at => disk[m][c] = control.buffer
    BY <1>1, <1>2, <2>1 DEF PairInv, ControlBlock, InStep, Same, HalfWritten
  <2>2. InStep(c) \/ \A m \in Members : m < control.at => disk[m][c] = control.buffer
    BY <1>7, <2>1 DEF TwoInv, PairInv
  <2>3. QED
    BY <1>5, <1>6, <2>2
<1>10. QED
  BY <1>3, <1>4, <1>8, <1>9 DEF TwoInv

LEMMA RemirrorWriteTwo == ASSUME BaseInv, TwoInv, RemirrorWrite PROVE TwoInv'
<1>0. PICK m, b : m = control.at /\ b = ControlBlock
  OBVIOUS
<1>1. /\ up /\ up' /\ control.state = "remirror" /\ control.step = "write"
      /\ m \in Members /\ b \in Block
      /\ disk' = [disk EXCEPT ![m][b] = control.buffer]
      /\ overrun \subseteq overrun'
      /\ control'.state = "remirror" /\ control'.section = control.section
      /\ control'.valid = control.valid
      /\ UNCHANGED <<saved, holders, mounted, group, member, client>>
      /\ UNCHANGED <<missed, exposed>>
  BY <1>0, RemirrorWriteFacts
<1>2. /\ disk \in [Members -> [Block -> Data]]
      /\ Present' = Present /\ (Level' <=> Level)
  BY <1>1 DEF BaseInv, TypeOK, Present, Level
\* The block is one the process has not done.
<1>3. ~Reached(b)
  <2>1. /\ control.section \in Nat /\ control.index \in Nat /\ control.index < SectionSize
        /\ control.index \notin control.valid
        /\ b = Place(control.section, control.index)
    BY <1>0, <1>1, AtWork, Constants DEF ControlOK, Control
  <2>2. SectionOf(b) = control.section /\ b % SectionSize = control.index
    BY <2>1, PlaceSection
  <2>3. ~(SectionOf(b) > control.section)
    BY <2>1, <2>2
  <2>4. QED
    BY <2>1, <2>2, <2>3 DEF Reached
<1>4. \A c \in Block : c # b => (InStep(c) => InStep(c)')
  <2>1. \A c \in Block : c # b => \A k \in Members : disk'[k][c] = disk[k][c]
    BY <1>1, <1>2
  <2>2. \A c \in Block : HalfWritten(c) <=> HalfWritten(c)'
    BY <1>1 DEF HalfWritten
  <2>3. QED
    BY <1>1, <2>1, <2>2 DEF InStep, Same
<1>5. SectorInv'
  BY <1>1, <1>2 DEF TwoInv, SectorInv, StatusInv, LogInv, WriterInv, BusyInv, AllZero
<1>6. ClosedInv' /\ CleanInv'
  <2>1. group.opens > 0
    BY <1>1 DEF BaseInv, GroupInv, OpensCounted
  <2>2. saved'.status # "closed"
    BY <1>1, <2>1 DEF TwoInv, SectorInv, StatusInv
  <2>3. QED
    BY <2>2, NotClean
<1>7. AgreeInv'
  <2> SUFFICES ASSUME missed = {}, ~exposed, NEW c \in Block,
                      \/ AllZero(group.sector.log) /\ ~group.check
                      \/ Level
                      \/ Paired /\ Reached(c)
               PROVE  InStep(c)'
    BY <1>1, <1>2 DEF AgreeInv, AllZero, Paired, Reached
  <2>1. Paired /\ Reached(c)
    BY <1>1 DEF TwoInv, SectorInv, BusyInv
  <2>2. InStep(c) /\ c # b
    BY <1>1, <1>3, <2>1 DEF TwoInv, AgreeInv
  <2>3. QED
    BY <1>4, <2>2
<1>8. PairInv'
  BY <1>1 DEF PairInv
<1>9. QED
  BY <1>5, <1>6, <1>7, <1>8 DEF TwoInv

-----------------------------------------------------------------------------
(* Sections that are done, and the end of a remirror *)

LEMMA UpdateTwo == ASSUME BaseInv, TwoInv, Update PROVE TwoInv'
<1>a. PICK s \in Nat : s = control.section
  BY UpdateFacts
<1>1. /\ up /\ up' /\ control.state = "update" /\ control'.step = "poll"
      /\ Present' = Present
      /\ \A m \in Present : /\ member'[m].insynch <=> member[m].insynch \/ s = 0
                            /\ member'[m].section \in {member[m].section, s}
      /\ group'.opens = group.opens /\ group'.active = group.active
      /\ \A m \in Members :
           group'.sector.log[m] =
             IF m \in Present /\ (member[m].section > s \/ (s = 0 /\ ~member[m].insynch))
             THEN s ELSE group.sector.log[m]
      /\ IF s = 0 THEN saved' = group'.sector ELSE saved' = saved
      /\ IF s = 0 THEN control'.state = "finish"
         ELSE control'.state = "validate" /\ control'.section = s - 1 /\ control'.valid = {}
      /\ exposed' = (exposed \/ ~group.active)
      /\ UNCHANGED <<disk, mounted, client, missed, overrun>>
  BY <1>a, UpdateFacts
<1>2. /\ TypeOK /\ ControlOK(control, AnyMirror) /\ group.opens > 0
      /\ Present \subseteq Members
  BY <1>1, AtWork, PresentFacts DEF BaseInv, GroupInv, OpensCounted
<1>3. group'.check = group.check /\ group'.sector.status = "opened" /\ saved'.status = "opened"
  <2> DEFINE log == [m \in Members |->
                    IF m \in Present /\ (member[m].section > control.section
                                         \/ (control.section = 0 /\ ~member[m].insynch))
                    THEN control.section ELSE group.sector.log[m]]
  <2>1. group' = [group EXCEPT !.sector.log = log]
    BY DEF Update
  <2> HIDE DEF log
  <2>2. group'.check = group.check /\ group'.sector.status = group.sector.status
    BY <1>2, <2>1 DEF TypeOK, GroupState, MirrorSector
  <2>3. group.sector.status = "opened" /\ saved.status = "opened"
    BY <1>1, <1>2 DEF TwoInv, SectorInv, StatusInv
  <2>4. QED
    BY <1>1, <2>2, <2>3
<1>4. s # 0 => /\ Level' => Level
               /\ AllZero(group'.sector.log) => AllZero(group.sector.log)
  BY <1>1 DEF Level, AllZero
<1>5. SectorInv'
  <2>1. StatusInv'
    BY <1>3 DEF StatusInv
  <2>2. LogInv'
    BY <1>1, <1>2 DEF TwoInv, SectorInv, LogInv
  <2>3. WriterInv'
    BY <1>1 DEF TwoInv, SectorInv, WriterInv
  <2>4. BusyInv'
    BY <1>1, <1>3, <1>4 DEF TwoInv, SectorInv, BusyInv, AllZero
  <2>5. QED
    BY <2>1, <2>2, <2>3, <2>4 DEF SectorInv
<1>6. ClosedInv' /\ CleanInv'
  BY <1>3, NotClean
<1>7. ASSUME NEW b \in Block, s = 0 \/ SectionOf(b) > s - 1
      PROVE  Reached(b)
  <2> DEFINE t == SectionOf(b)
  <2>1. t \in Nat /\ b % SectionSize \in 0 .. SectionSize - 1
    BY Sections, Constants
  <2>2. \A i \in 0 .. SectionSize - 1 : i \in control.valid
    BY <1>1, <1>2 DEF ControlOK
  <2>3. t > s \/ t = s
    <3> HIDE DEF t
    <3>1. s = 0 \/ t > s - 1
      BY <1>7 DEF t
    <3>2. QED
      BY <2>1, <3>1
  <2>4. QED
    BY <1>a, <2>1, <2>2, <2>3 DEF Reached
<1>8. AgreeInv'
  <2> SUFFICES ASSUME missed = {}, ~exposed', NEW b \in Block,
                      \/ AllZero(group.sector.log)' /\ (~group'.check \/ control'.state = "finish")
                      \/ Level'
                      \/ Paired' /\ Reached(b)'
               PROVE  InStep(b)'
    BY <1>1 DEF AgreeInv
  <2>1. CASE s = 0
    <3>1. Paired
      BY <1>1, <1>2 DEF AllZero, Level, Paired
    <3>2. InStep(b)
      BY <1>1, <1>7, <2>1, <3>1 DEF TwoInv, AgreeInv
    <3>3. QED
      BY <1>1, <3>2, InStepKeeps
  <2>2. CASE s # 0
    <3>1. Paired' /\ Reached(b)'
      BY <1>1, <1>3, <1>4, <2>2 DEF TwoInv, SectorInv, BusyInv, AllZero
    <3>2. Paired
      BY <1>1, <1>2, <3>1 DEF Paired
    <3>3. SectionOf(b) > s - 1
      BY <1>1, <2>2, <3>1 DEF Reached, SectionOf
    <3>4. InStep(b)
      BY <1>1, <1>7, <3>2, <3>3 DEF TwoInv, AgreeInv
    <3>5. QED
      BY <1>1, <3>4, InStepKeeps
  <2>3. QED
    BY <2>1, <2>2
<1>9. PairInv'
  BY <1>1 DEF PairInv
<1>10. QED
  BY <1>5, <1>6, <1>8, <1>9 DEF TwoInv

LEMMA StopRemirroringTwo == ASSUME BaseInv, TwoInv, Finish \/ Abort PROVE TwoInv'
<1>1. /\ up /\ up' /\ control.state # "none" /\ control' = NoControl
      /\ Present' = Present
      /\ \A m \in Members : /\ member'[m].insynch = member[m].insynch
                            /\ member'[m].section = member[m].section
      /\ group' \in GroupState /\ group'.opens = group.opens - 1 /\ group'.active = group.active
      /\ group'.sector.log = group.sector.log
      /\ UNCHANGED <<disk, mounted, client, missed, overrun>> /\ exposed' = exposed
  BY StopRemirroringFacts
<1>2. /\ TypeOK /\ group.opens \in 0 .. 2 /\ group.opens > 0 /\ Present \subseteq Members
      /\ mounted => group.opens > 1
  BY <1>1, PresentFacts DEF BaseInv, GroupInv, OpensCounted, TypeOK, GroupState
<1>3. PICK g \in GroupState : /\ CloseGroup(g) /\ g.opens = group.opens /\ g.sector = group.sector
                              /\ g.check <=> group.check /\ control.state # "finish"
  <2>1. CASE Finish
    <3> DEFINE g == [group EXCEPT !.remirroring = FALSE, !.check = FALSE]
    <3>1. CloseGroup(g) /\ control.state = "finish"
      BY <2>1 DEF Finish, StopRemirroring, Step
    <3>2. /\ g \in GroupState /\ g.opens = group.opens /\ g.sector = group.sector /\ ~g.check
      BY <1>2 DEF TypeOK, GroupState
    <3>3. QED
      BY <3>1, <3>2
  <2>2. CASE Abort
    <3> DEFINE g == [group EXCEPT !.remirroring = FALSE]
    <3>1. CloseGroup(g) /\ control.state # "finish"
      BY <2>2 DEF Abort, StopRemirroring
    <3>2. /\ g \in GroupState /\ g.opens = group.opens /\ g.sector = group.sector
          /\ g.check = group.check
      BY <1>2 DEF TypeOK, GroupState
    <3>3. QED
      BY <3>1, <3>2
  <2>3. QED
    BY <2>1, <2>2
<1>4. /\ group'.check = g.check
      /\ group.opens > 1 => group'.sector.status = group.sector.status /\ UNCHANGED <<saved, holders>>
      /\ group.opens = 1 => /\ group'.sector.status = IF g.check THEN "check" ELSE "closed"
                            /\ saved' = group'.sector /\ holders' = Present \intersect online
  BY <1>2, <1>3, CloseStatus
<1>5. (Level' <=> Level) /\ NoControl.state = "none"
  BY <1>1 DEF Level, NoControl
<1>6. StatusInv'
  BY <1>1, <1>2, <1>4 DEF TwoInv, SectorInv, StatusInv
<1>7. SectorInv'
  BY <1>1, <1>2, <1>5, <1>6 DEF TwoInv, SectorInv, LogInv, WriterInv, BusyInv
<1>8. ClosedInv' /\ CleanInv'
  <2>1. CASE group.opens = 1
    <3>1. ~mounted /\ (client.op = "write" => ~group.active)
      BY <1>2, <2>1 DEF TwoInv, SectorInv, WriterInv
    <3>2. client.op = "write" /\ ~exposed => InSynch \intersect online = {}
      BY <3>1 DEF BaseInv, GroupInv, ActiveExact
    <3>3. AllZero(group.sector.log) /\ ~exposed /\ holders' # {} => client.op = "idle"
      <4>1. client.op \in {"idle", "write"}
        BY <1>2 DEF TypeOK, Client
      <4>2. QED
        BY <1>1, <1>4, <2>1, <3>2, <4>1, NobodyLeft DEF TwoInv, SectorInv
    <3>4. QED
      BY <1>1, <1>3, <1>4, <2>1, <3>3, LastClose DEF TwoInv
  <2>2. CASE group.opens > 1
    <3>1. saved'.status # "closed"
      BY <1>1, <1>2, <1>4, <2>2 DEF TwoInv, SectorInv, StatusInv
    <3>2. QED
      BY <3>1, NotClean
  <2>3. QED
    BY <1>2, <2>1, <2>2
<1>9. AgreeInv'
  <2>1. \A b : InStep(b) => InStep(b)'
    BY <1>1, InStepKeeps
  <2>2. QED
    BY <1>1, <1>3, <1>4, <1>5, <2>1, AgreeKeeps DEF TwoInv
<1>10. PairInv'
  BY <1>1, <1>5 DEF PairInv
<1>11. QED
  BY <1>7, <1>8, <1>9, <1>10 DEF TwoInv

-----------------------------------------------------------------------------
(* A group that is established *)

\* What is to be checked is opened, and a sector that calls all members good is
\* doubted after an improper shutdown only.
LEMMA EstablishSector ==
  ASSUME TypeOK, Establish
  PROVE  LET dirty   == saved.status # "closed"
             rebuild == control'.state # "none"
         IN  /\ group'.sector.status = IF rebuild THEN "opened" ELSE IF dirty THEN "check" ELSE "closed"
             /\ AllZero(saved.log) => (group'.check <=> dirty)
             /\ AllZero(saved.log) /\ rebuild => dirty
             /\ Level' => ~rebuild /\ ~dirty /\ AllZero(saved.log)
             /\ holders # {}
<1>1. PICK on \in SUBSET Members :
       LET dirty   == saved.status # "closed"
           insynch == {m \in on : saved.log[m] = 0}
           first   == CHOOSE m \in insynch : \A k \in insynch : m <= k
           primary == CHOOSE m \in on : \A k \in on : m <= k
           section == [m \in Members |->
                         IF dirty /\ m \in insynch \ {first} THEN Out ELSE saved.log[m]]
           rebuild == \E m \in on : section[m] # 0
           g == [active |-> TRUE, check |-> dirty /\ primary \in insynch, remirroring |-> rebuild,
                 modifyCheck |-> \E m \in Members \ on : saved.log[m] # Out,
                 opens |-> 0,
                 sector |-> [saved EXCEPT !.status = IF dirty THEN "check" ELSE "closed"]]
       IN  /\ on \intersect holders # {}
           /\ insynch # {}
           /\ group' = IF rebuild THEN Opened(g) ELSE g
           /\ member' = [m \in Members |->
                [present |-> m \in on, insynch |-> m \in insynch,
                 remirroring |-> rebuild /\ m \in on,
                 section |-> IF rebuild /\ m \in on /\ section[m] = Out
                             THEN TopSection + 1 ELSE section[m]]]
           /\ control' = IF rebuild THEN [NoControl EXCEPT !.state = "validate", !.section = TopSection]
                         ELSE NoControl
  BY DEF Establish
<1> DEFINE dirty   == saved.status # "closed"
           insynch == {m \in on : saved.log[m] = 0}
           first   == CHOOSE m \in insynch : \A k \in insynch : m <= k
           primary == CHOOSE m \in on : \A k \in on : m <= k
           section == [m \in Members |->
                         IF dirty /\ m \in insynch \ {first} THEN Out ELSE saved.log[m]]
           rebuild == \E m \in on : section[m] # 0
           check   == dirty /\ primary \in insynch
           modify  == \E m \in Members \ on : saved.log[m] # Out
           sector  == [saved EXCEPT !.status = IF dirty THEN "check" ELSE "closed"]
           g == [active |-> TRUE, check |-> check, remirroring |-> rebuild,
                 modifyCheck |-> modify, opens |-> 0, sector |-> sector]
<1>2. /\ on \intersect holders # {} /\ insynch # {}
      /\ group' = IF rebuild THEN Opened(g) ELSE g
      /\ member' = [m \in Members |->
           [present |-> m \in on, insynch |-> m \in insynch,
            remirroring |-> rebuild /\ m \in on,
            section |-> IF rebuild /\ m \in on /\ section[m] = Out
                        THEN TopSection + 1 ELSE section[m]]]
      /\ control' = IF rebuild THEN [NoControl EXCEPT !.state = "validate", !.section = TopSection]
                    ELSE NoControl
  BY <1>1
<1>3. saved \in MirrorSector /\ Out # 0 /\ TopSection + 1 # 0 /\ Members \subseteq Nat /\ 1 # 2
      /\ 1 \in Members /\ 2 \in Members
  BY Constants DEF TypeOK
<1>4. insynch = {m \in on : saved.log[m] = 0}
  OBVIOUS
<1>5. \A m \in Members : section[m] = IF dirty /\ m \in insynch \ {first} THEN Out ELSE saved.log[m]
  OBVIOUS
<1>6. primary \in on
  <2>1. on \subseteq Nat /\ on # {}
    BY <1>2, <1>3
  <2>2. Least(on) \in on
    BY <2>1, LeastIn
  <2>3. QED
    BY <2>2 DEF Least
<1>7. check <=> dirty /\ primary \in insynch
  OBVIOUS
<1>8. rebuild <=> \E m \in on : section[m] # 0
  OBVIOUS
<1>9. sector.status = IF dirty THEN "check" ELSE "closed"
  BY <1>3 DEF MirrorSector
<1> HIDE DEF insynch, first, primary, section, rebuild, check, modify, sector
<1>10. /\ group'.check = check
       /\ group'.sector.status = IF rebuild THEN "opened" ELSE IF dirty THEN "check" ELSE "closed"
  <2>1. CASE rebuild
    <3>1. group' = [g EXCEPT !.opens = g.opens + 1, !.sector.status = "opened"]
      BY <1>2, <2>1 DEF Opened
    <3>2. sector \in MirrorSector
      BY <1>3 DEF sector, MirrorSector
    <3>3. QED
      BY <2>1, <3>1, <3>2 DEF MirrorSector
  <2>2. CASE ~rebuild
    BY <1>2, <1>9, <2>2
  <2>3. QED
    BY <2>1, <2>2
<1> HIDE DEF g, dirty
<1>11. rebuild <=> control'.state # "none"
  BY <1>2 DEF NoControl
<1>12. \A m \in Members : /\ member'[m].present <=> m \in on
                          /\ member'[m].insynch <=> m \in insynch
                          /\ member'[m].section = 0 => section[m] = 0
  BY <1>2, <1>3
<1>13. AllZero(saved.log) => (check <=> dirty)
  BY <1>4, <1>6, <1>7 DEF AllZero
<1>14. AllZero(saved.log) /\ rebuild => dirty
  BY <1>5, <1>8 DEF AllZero
<1>15. Level' => ~rebuild /\ ~dirty /\ AllZero(saved.log)
  <2> SUFFICES ASSUME Level' PROVE ~rebuild /\ ~dirty /\ AllZero(saved.log)
    OBVIOUS
  <2>1. \A m \in Members : m \in on /\ m \in insynch /\ section[m] = 0
    BY <1>12 DEF Level, Present
  <2>2. ~rebuild /\ AllZero(saved.log)
    BY <1>4, <1>8, <2>1 DEF AllZero
  <2>3. ~dirty
    BY <1>3, <1>5, <2>1
  <2>4. QED
    BY <2>2, <2>3
<1>16. QED
  BY <1>2, <1>10, <1>11, <1>13, <1>14, <1>15 DEF dirty

LEMMA EstablishTwo == ASSUME BaseInv, TwoInv, Establish PROVE TwoInv'
<1>1. /\ ~up /\ up' /\ Present' = online' /\ InSynch' = {m \in online' : saved.log[m] = 0}
      /\ online' \subseteq Members
      /\ group'.sector.log = saved.log
      /\ group'.opens = IF control'.state # "none" THEN 1 ELSE 0
      /\ saved' = group'.sector
      /\ \/ control' = NoControl
         \/ control' = [NoControl EXCEPT !.state = "validate", !.section = TopSection]
      /\ UNCHANGED <<disk, client, missed, overrun>> /\ exposed' = exposed
  BY EstablishFacts DEF BaseInv
<1>2. client.op = "idle" /\ client' = client
  BY <1>1 DEF BaseInv, GroupInv, Forgotten, NoClient
<1>3. /\ group'.sector.status = IF control'.state # "none" THEN "opened"
                                ELSE IF saved.status # "closed" THEN "check" ELSE "closed"
      /\ AllZero(saved.log) => (group'.check <=> saved.status # "closed")
      /\ AllZero(saved.log) /\ control'.state # "none" => saved.status # "closed"
      /\ Level' => control'.state = "none" /\ saved.status = "closed" /\ AllZero(saved.log)
      /\ holders # {}
  BY EstablishSector DEF BaseInv
<1>4. /\ control'.state \in {"none", "validate"} /\ control'.step = "poll"
      /\ control'.state = "validate" => control'.section = TopSection /\ control'.valid = {}
  <2> DEFINE c == [NoControl EXCEPT !.state = "validate", !.section = TopSection]
  <2>1. c.state = "validate" /\ c.step = "poll" /\ c.section = TopSection /\ c.valid = {}
    BY FirstControl
  <2>2. NoControl.state = "none" /\ NoControl.step = "poll"
    BY DEF NoControl
  <2>3. control' = NoControl \/ control' = c
    BY <1>1
  <2> HIDE DEF c
  <2>4. QED
    BY <2>1, <2>2, <2>3
<1>5. SectorInv'
  <2>1. StatusInv'
    BY <1>1, <1>3 DEF StatusInv
  <2>2. LogInv'
    BY <1>1 DEF LogInv, InSynch
  <2>3. WriterInv'
    BY <1>2 DEF WriterInv
  <2>4. BusyInv'
    BY <1>1, <1>3 DEF BusyInv, AllZero
  <2>5. QED
    BY <2>1, <2>2, <2>3, <2>4 DEF SectorInv
<1>6. ClosedInv'
  BY <1>2 DEF ClosedInv
\* The sectors called all members good before, and they were.
<1>7. ASSUME missed = {}, ~exposed, saved.status = "closed", AllZero(saved.log), NEW b \in Block
      PROVE  Same(b) /\ Same(b)'
  <2>1. Same(b)
    BY <1>3, <1>7 DEF TwoInv, CleanInv, CleanSector
  <2>2. QED
    BY <1>1, <2>1 DEF Same
<1>8. CleanInv'
  BY <1>1, <1>3, <1>7 DEF CleanInv, CleanSector, AllZero
<1>9. AgreeInv'
  <2> SUFFICES ASSUME missed = {}, ~exposed, NEW b \in Block,
                      \/ AllZero(saved.log) /\ ~group'.check
                      \/ Level'
                      \/ control'.state # "none" /\ Reached(b)'
               PROVE  InStep(b)'
    BY <1>1, <1>4 DEF AgreeInv, AllZero
  <2>1. ~(control'.state # "none" /\ Reached(b)')
    <3> DEFINE t == SectionOf(b)
    <3>1. t \in 0 .. TopSection /\ TopSection \in Nat
      BY Sections, Constants
    <3>2. control'.state # "none" /\ Reached(b)' => t > TopSection
      BY <1>4 DEF Reached, SectionOf
    <3> HIDE DEF t
    <3>3. QED
      BY <3>1, <3>2
  <2>2. saved.status = "closed" /\ AllZero(saved.log)
    BY <1>3, <2>1
  <2>3. QED
    BY <1>7, <2>2 DEF InStep
<1>10. PairInv'
  BY <1>4 DEF PairInv
<1>11. QED
  BY <1>5, <1>6, <1>8, <1>9, <1>10 DEF TwoInv

-----------------------------------------------------------------------------
(* Groups of two *)

LEMMA TwoInit == ASSUME Init PROVE TwoInv
<1>1. \A b \in Block : Same(b)
  BY DEF Init, Same
<1>2. ~up /\ control.state = "none" /\ client.op = "idle"
  BY DEF Init, NoControl, NoClient
<1>3. QED
  BY <1>1, <1>2 DEF TwoInv, SectorInv, StatusInv, LogInv, WriterInv, BusyInv, ClosedInv, CleanInv,
                    AgreeInv, PairInv

LEMMA TwoStep == ASSUME N = 2, Inv, TwoInv, [Next]_vars PROVE TwoInv'
<1>0. BaseInv /\ DataInv
  BY DEF Inv
<1>1. CASE Establish
  BY <1>0, <1>1, EstablishTwo
<1>2. CASE Volume
  BY <1>0, <1>2, MountTwo, DismountTwo, StartWriteTwo, ReadLosesTwo DEF Volume
<1>3. CASE ClientSteps
  BY <1>0, <1>3, WriteMarkTwo, WriteMemberTwo, WriteLosesTwo, WriteReturnTwo DEF ClientSteps
<1>4. CASE Remirror
  BY <1>0, <1>4, PollTwo, ValidateCheckTwo, ValidateReadTwo, RemirrorCheckTwo, RemirrorReadTwo,
     RemirrorMarkTwo, RemirrorWriteTwo, RemirrorLosesTwo, UpdateTwo, StopRemirroringTwo
     DEF Remirror
<1>5. CASE Faults
  BY <1>0, <1>5, StopTwo, QuiesceTwo, FailDeviceTwo DEF Faults
<1>6. CASE UNCHANGED vars
  <2>1. /\ UNCHANGED <<disk, saved, holders, up, mounted, group, member, control, client>>
        /\ UNCHANGED <<missed, exposed, overrun>>
    BY <1>6 DEF vars, durable, history
  <2>2. Present' = Present /\ (Level' <=> Level) /\ \A b : InStep(b) => InStep(b)'
    BY <2>1, InStepKeeps DEF Present, Level
  <2>3. SectorInv'
    BY <2>1, <2>2 DEF TwoInv, SectorInv, StatusInv, LogInv, WriterInv, BusyInv, AllZero
  <2>4. ClosedInv' /\ CleanInv'
    BY <2>1, CleanKeeps DEF TwoInv, Same
  <2>5. \A b \in Block : Reached(b)' => Reached(b)
    BY <2>1 DEF Reached
  <2>6. AgreeInv'
    BY <2>1, <2>2, <2>5, AgreeKeeps DEF TwoInv, AgreeInv
  <2>7. PairInv'
    BY <2>1, <2>2, PairKeeps DEF TwoInv
  <2>8. QED
    BY <2>3, <2>4, <2>6, <2>7 DEF TwoInv
<1>7. QED
  BY <1>1, <1>2, <1>3, <1>4, <1>5, <1>6 DEF Next

\* Members that are in synch and checked hold the same in every block that is
\* not being written, in a group of two: what nwvp_mirror_group_remirror_update
\* calls good, with writers and the remirror process interleaved.
THEOREM TwoMembersAgree == ASSUME N = 2 PROVE Spec => []MembersAgree
<1>1. Init => TwoInv
  BY TwoInit
<1>2. Inv /\ TwoInv /\ [Next]_vars => TwoInv'
  BY TwoStep
<1>3. ASSUME Inv, TwoInv PROVE MembersAgree
  <2> SUFFICES ASSUME ~exposed, NEW m \in Present, NEW k \in Present, NEW b \in Block, m # k,
                      member[m].insynch, member[m].section = 0,
                      member[k].insynch, member[k].section = 0,
                      ~(client.op = "write" /\ client.block = b),
                      <<m, b>> \notin overrun, <<k, b>> \notin overrun
               PROVE  disk[m][b] = disk[k][b]
    BY DEF MembersAgree
  <2>1. m \in Members /\ k \in Members /\ \A j \in Members : j = m \/ j = k
    BY Constants DEF Present
  <2>2. Level /\ Members \ Present = {}
    BY <2>1 DEF Level
  <2>3. up /\ missed = {}
    BY <1>3, <2>1, <2>2 DEF Inv, BaseInv, GroupInv, Forgotten, Present
  <2>4. InStep(b)
    BY <1>3, <2>2, <2>3 DEF TwoInv, AgreeInv
  <2>5. QED
    BY <2>1, <2>4 DEF InStep, Same, HalfWritten
<1>4. QED
  BY <1>1, <1>2, <1>3, InvHolds, PTL DEF Spec

=============================================================================

------------------------------- MODULE Mirror -------------------------------
(***************************************************************************)
(* A mirror group of the virtual partition layer (nwvp.c): members that    *)
(* hold the same logical blocks, devices that fail, the table of synchrony *)
(* the members carry on disk (the mirror sector), the remirror process     *)
(* that validates and copies section by section, and a crash of the system *)
(* followed by establishing the group again from the sectors it finds.     *)
(*                                                                         *)
(* Reads and writes of the volume do not take the NWVP lock, and neither   *)
(* do the reads and writes of the remirror process, which holds it for its *)
(* decisions only: the two interleave member by member.  One write of the  *)
(* volume is under way at a time: the cache has one buffer of a block.     *)
(*                                                                         *)
(* Sections of 1024 blocks are made small (SectionSize).  Adding and       *)
(* deleting members, read-only members and the hotfix of single blocks are *)
(* left out: a device that fails fails as a whole, and for good until the  *)
(* next start.  Time stamps are abstracted to which members have the       *)
(* latest sector.                                                          *)
(***************************************************************************)
EXTENDS Integers, FiniteSets

CONSTANTS
  N,            \* the members, 1 .. N in the order of the ring
  Blocks,       \* logical_block_count
  SectionSize,  \* blocks of a section
  MaxWrites,    \* bound: writes of a behaviour
  MaxFailures,  \* bound: devices that fail
  MaxCrashes    \* bound: restarts of the system, orderly or not

ASSUME MirrorConstants ==
  /\ N \in Nat /\ N > 1
  /\ Blocks \in Nat \ {0}
  /\ SectionSize \in Nat \ {0}
  /\ MaxWrites \in Nat /\ MaxFailures \in Nat /\ MaxCrashes \in Nat

Members == 1 .. N
Block   == 0 .. Blocks - 1
Data    == 0 .. MaxWrites       \* the number of the write; 0 before any
NoData  == MaxWrites + 1        \* an empty buffer

\* remirror_section counts down: sections above it hold good data, and Out,
\* 0xFFFFFFFF, says that none does.
SectionOf(b) == b \div SectionSize
TopSection   == Blocks \div SectionSize
Out          == TopSection + 2
Section      == 0 .. Out

MirrorSector == [log : [Members -> Section], status : {"closed", "opened", "check"}]

MemberState == [present : BOOLEAN, insynch : BOOLEAN, remirroring : BOOLEAN, section : Section]

GroupState ==
  [active      : BOOLEAN,       \* the MIRROR_GROUP bits
   check       : BOOLEAN,
   remirroring : BOOLEAN,
   modifyCheck : BOOLEAN,
   opens       : 0 .. 2,        \* open_count: the mount and the remirror process
   sector      : MirrorSector]  \* the mirror sector of the primary, in memory

Control ==
  [state  : {"none", "validate", "remirror", "update", "finish"},
   step   : {"poll", "check", "read", "write"},
   section : Section,
   index  : 0 .. SectionSize,
   valid  : SUBSET (0 .. SectionSize - 1),
   check  : BOOLEAN,
   abort  : BOOLEAN,
   at     : 1 .. N + 1,         \* the member the block operation has come to
   from   : 0 .. N,             \* read_index
   buffer : Data \union {NoData},
   seen   : SUBSET Data]        \* history: what a read could return when buffer was read

Client == [op : {"idle", "write"}, block : Block, value : Data, at : 1 .. N + 1, success : 0 .. N]

VARIABLES
  disk,     \* what the members hold
  saved,    \* the latest mirror sector on disk
  holders,  \* the members that have it: the others have older ones
  online,   \* the devices that respond
  up,       \* the group has been established
  mounted,  \* the volume holds the group open
  group,
  member,
  control,
  client,   \* a write of the volume
  writes, failures, crashes,
  good,     \* history: what a read of each block may return
  missed,   \* history: members that missed a write, which the sectors do not say
  exposed,  \* history: the system went down while some had, or sections were
            \* taken for good after the last member in synch was lost
  overrun   \* history: blocks the remirror process wrote over with data older than
            \* the last write, lost on a member until the volume writes it again

durable  == <<disk, saved, holders>>
counters == <<writes, failures, crashes>>
history  == <<good, missed, exposed, overrun>>
vars == <<durable, online, up, mounted, group, member, control, client, counters, history>>

NoControl ==
  [state |-> "none", step |-> "poll", section |-> 0, index |-> 0, valid |-> {},
   check |-> FALSE, abort |-> FALSE, at |-> 1, from |-> 0, buffer |-> NoData, seen |-> {}]
NoClient == [op |-> "idle", block |-> 0, value |-> 0, at |-> 1, success |-> 0]
NoMember == [present |-> FALSE, insynch |-> FALSE, remirroring |-> FALSE, section |-> Out]
NoSector == [log |-> [m \in Members |-> 0], status |-> "closed"]
NoGroup  == [active |-> FALSE, check |-> FALSE, remirroring |-> FALSE,
             modifyCheck |-> FALSE, opens |-> 0, sector |-> NoSector]

\* The group has been created, and all members hold the same.
Init ==
  /\ disk = [m \in Members |-> [b \in Block |-> 0]]
  /\ saved = NoSector /\ holders = Members
  /\ online = Members
  /\ up = FALSE /\ mounted = FALSE
  /\ group = NoGroup
  /\ member = [m \in Members |-> NoMember]
  /\ control = NoControl /\ client = NoClient
  /\ writes = 0 /\ failures = 0 /\ crashes = 0
  /\ good = [b \in Block |-> {0}]
  /\ missed = {} /\ exposed = FALSE /\ overrun = {}

Quiet == up /\ client.op = "idle"

Present == {m \in Members : member[m].present}

\* nwvp_netware_mirror_update of every member present: a device that does not
\* respond keeps its old sector.
Flush(sector) ==
  /\ saved' = sector
  /\ holders' = Present \intersect online

\* Mutant: the section at work is read as well.
ReadableEarly(m, b) ==
  member[m].present /\ (member[m].insynch \/ member[m].section <= SectionOf(b) + 1)

\* inwvp_lpartition_block_read: the members a read of the block may be served by.
Readable(m, b) ==
  member[m].present /\ (member[m].insynch \/ member[m].section < SectionOf(b))

-----------------------------------------------------------------------------
(* Opening, closing and establishing a group *)

\* nwvp_mirror_group_open: the first opener marks the sector.
Opened(g) ==
  [g EXCEPT !.opens = @ + 1,
            !.sector.status = IF g.opens = 0 THEN "opened" ELSE @]

\* nwvp_mirror_group_close: the last one says that all is well, unless members
\* have still to be checked.
Closed(g) ==
  [g EXCEPT !.opens = @ - 1,
            !.sector.status = IF g.opens > 1 THEN @ ELSE IF g.check THEN "check" ELSE "closed"]

CloseGroup(g) ==
  /\ group' = Closed(g)
  /\ IF g.opens = 1 THEN Flush(group'.sector) ELSE UNCHANGED <<saved, holders>>

\* nwvp_mirror_group_establish, with the members whose devices respond, the
\* first of which is the primary.  After an improper shutdown the first member
\* in synch is trusted: the others are in synch to readers, and to be validated.
\* What is not in synch starts nwvp_start_remirror, which opens the group.
Establish ==
  /\ ~up
  /\ \E on \in SUBSET Members :
       LET dirty   == saved.status # "closed"
           insynch == {m \in on : saved.log[m] = 0}
           first   == CHOOSE m \in insynch : \A k \in insynch : m <= k
           primary == CHOOSE m \in on : \A k \in on : m <= k
           section == [m \in Members |->
                         IF dirty /\ m \in insynch \ {first} THEN Out ELSE saved.log[m]]
           rebuild == \E m \in on : section[m] # 0
           g == [active |-> TRUE, check |-> dirty /\ primary \in insynch, remirroring |-> rebuild,
                 modifyCheck |-> \E m \in Members \ on : saved.log[m] # Out,
                 opens |-> 0,
                 sector |-> [saved EXCEPT !.status = IF dirty THEN "check" ELSE "closed"]]
       IN  /\ on \intersect holders # {}
           /\ insynch # {}
           /\ online' = on
           /\ group' = IF rebuild THEN Opened(g) ELSE g
           /\ saved' = group'.sector /\ holders' = on
           /\ member' = [m \in Members |->
                [present |-> m \in on, insynch |-> m \in insynch,
                 remirroring |-> rebuild /\ m \in on,
                 section |-> IF rebuild /\ m \in on /\ section[m] = Out
                             THEN TopSection + 1 ELSE section[m]]]
           /\ control' = IF rebuild THEN [NoControl EXCEPT !.state = "validate", !.section = TopSection]
                         ELSE NoControl
  /\ up' = TRUE
  /\ UNCHANGED <<disk, mounted, client, counters, history>>

\* nwvp_vpartition_open and close, at mount and dismount.
Mount ==
  /\ Quiet /\ ~mounted /\ group.active
  /\ mounted' = TRUE
  /\ group' = Opened(group)
  /\ IF group.opens = 0 THEN Flush(group'.sector) ELSE UNCHANGED <<saved, holders>>
  /\ UNCHANGED <<disk, online, up, member, control, client, counters, history>>

Dismount ==
  /\ Quiet /\ mounted
  /\ mounted' = FALSE
  /\ CloseGroup(group)
  /\ UNCHANGED <<disk, online, up, member, control, client, counters, history>>

\* The system stops: by a crash, or in order when the volume is dismounted.
Stop ==
  /\ up /\ crashes < MaxCrashes
  /\ up' = FALSE /\ mounted' = FALSE
  /\ group' = NoGroup
  /\ member' = [m \in Members |-> NoMember]
  /\ control' = NoControl /\ client' = NoClient
  /\ online' = Members
  /\ crashes' = crashes + 1
  /\ exposed' = (exposed \/ missed # {})
  /\ missed' = {}
  /\ UNCHANGED <<durable, writes, failures, good, overrun>>

-----------------------------------------------------------------------------
(* Devices that fail *)

FailDevice(m) ==
  /\ up /\ m \in online /\ failures < MaxFailures
  /\ online \ {m} # {}
  /\ online' = online \ {m}
  /\ failures' = failures + 1
  /\ UNCHANGED <<durable, up, mounted, group, member, control, client, writes, crashes, history>>

\* nwvp_hotfix_block finds that not even block 0 can be read: the member is gone
\* for the group, and the absent are to be marked before the next write.
\* nwvp_mirror_group_update looks for a member to trust: when none in synch,
\* absent ones included, is at section 0, it takes the first present.  With none
\* present in synch nwvp_segmentation_remove closes the volume.
Offline(m) ==
  LET left   == [member EXCEPT ![m].present = FALSE, ![m].remirroring = FALSE]
      able   == {k \in Members : left[k].present /\ left[k].insynch}
      sure   == {k \in Members : left[k].insynch /\ left[k].section = 0}
      chosen == CHOOSE k \in able : \A j \in able : k <= j
      close  == able = {} /\ group.active /\ mounted
      g      == [group EXCEPT !.modifyCheck = TRUE, !.active = @ /\ able # {}]
  IN  /\ member' = IF able # {} /\ sure = {} THEN [left EXCEPT ![chosen].section = 0] ELSE left
      /\ mounted' = (mounted /\ ~close)
      /\ IF close THEN CloseGroup(g) ELSE group' = g /\ UNCHANGED <<saved, holders>>

\* Mutant: the mark is made in memory only.
MarkUnsaved ==
  LET absent == Members \ Present
  IN  /\ group' = [group EXCEPT !.modifyCheck = FALSE, !.sector.log =
                    [m \in Members |-> IF m \in absent THEN Out ELSE @[m]]]
      /\ member' = [m \in Members |->
           IF m \in absent THEN [member[m] EXCEPT !.insynch = FALSE, !.section = Out] ELSE member[m]]
      /\ missed' = {}
      /\ UNCHANGED <<saved, holders>>

\* nwvp_mirror_group_modify_check, before a write: members that are absent will
\* miss it, and the sectors of the others say so first.
MarkAbsent ==
  LET absent == Members \ Present
      log    == [m \in Members |-> IF m \in absent THEN Out ELSE group.sector.log[m]]
  IN  IF group.active /\ absent # {}
      THEN /\ group' = [group EXCEPT !.modifyCheck = FALSE, !.sector.log = log]
           /\ member' = [m \in Members |->
                IF m \in absent THEN [member[m] EXCEPT !.insynch = FALSE, !.section = Out]
                ELSE member[m]]
           /\ Flush(group'.sector)
           /\ missed' = {}
      ELSE /\ group' = [group EXCEPT !.modifyCheck = FALSE]
           /\ UNCHANGED <<saved, holders, member, missed>>

-----------------------------------------------------------------------------
(* Reads and writes of the volume *)

NextPresent(from) ==
  LET ms == {m \in Present : m >= from}
  IN  IF ms = {} THEN N + 1 ELSE CHOOSE m \in ms : \A k \in ms : m <= k

StartWrite(b) ==
  /\ Quiet /\ mounted /\ writes < MaxWrites
  /\ writes' = writes + 1
  /\ client' = [op |-> "write", block |-> b, value |-> writes', at |-> 1, success |-> 0]
  /\ good' = [good EXCEPT ![b] = @ \union {writes'}]
  /\ UNCHANGED <<durable, online, up, mounted, group, member, control,
                 failures, crashes, missed, exposed, overrun>>

\* inwvp_lpartition_specific_write: first the members that are absent are
\* marked, and in a group that is not active the write of this member fails.
WriteMark ==
  LET m == NextPresent(client.at)
  IN  /\ client.op = "write" /\ m <= N /\ group.modifyCheck
      /\ MarkAbsent
      /\ client' = [client EXCEPT !.at = IF group.active THEN m ELSE m + 1]
      /\ UNCHANGED <<disk, online, up, mounted, control, counters, good, exposed, overrun>>

WriteMember ==
  LET m == NextPresent(client.at)
  IN  /\ client.op = "write" /\ m <= N /\ ~group.modifyCheck /\ m \in online
      /\ disk' = [disk EXCEPT ![m][client.block] = client.value]
      /\ client' = [client EXCEPT !.at = m + 1, !.success = @ + 1]
      /\ overrun' = overrun \ {<<m, client.block>>}
      /\ UNCHANGED <<saved, holders, online, up, mounted, group, member, control,
                     counters, good, missed, exposed>>

WriteLosesMember ==
  LET m == NextPresent(client.at)
  IN  /\ client.op = "write" /\ m <= N /\ ~group.modifyCheck /\ m \notin online
      /\ Offline(m)
      /\ client' = [client EXCEPT !.at = m + 1]
      /\ UNCHANGED <<disk, online, up, control, counters, history>>

\* One member is enough for success.
WriteReturn ==
  /\ client.op = "write" /\ NextPresent(client.at) = N + 1
  /\ IF client.success > 0
     THEN /\ good' = [good EXCEPT ![client.block] = {client.value}]
          /\ missed' = missed \union
               {m \in Members \ Present : group.sector.log[m] # Out}
     ELSE UNCHANGED <<good, missed>>
  /\ client' = NoClient
  /\ UNCHANGED <<durable, online, up, mounted, group, member, control, counters, exposed, overrun>>

\* A read that comes to a device that failed goes on to the next member.
ReadLosesMember(m, b) ==
  /\ up /\ mounted /\ Readable(m, b) /\ m \notin online
  /\ Offline(m)
  /\ UNCHANGED <<disk, online, up, control, client, counters, history>>

-----------------------------------------------------------------------------
(* The remirror process: one operation on a block, or one decision, a poll *)

Done(c, state) == [c EXCEPT !.state = state, !.step = "poll", !.index = 0, !.check = FALSE,
                            !.at = 1, !.from = 0, !.buffer = NoData, !.seen = {}]

\* Mutant: one block more than a section has.
SkipBeyond(c) ==
  LET todo  == {i \in c.index .. SectionSize : i \notin c.valid}
      index == CHOOSE i \in todo : \A j \in todo : i <= j
  IN  IF todo # {} THEN [c EXCEPT !.index = index]
      ELSE Done(c, IF c.state = "remirror" THEN "validate" ELSE IF c.check THEN "remirror" ELSE "update")

\* Blocks found valid before are passed over; at the end of the section the
\* state changes.
SkipValid(c) ==
  LET todo  == {i \in c.index .. SectionSize - 1 : i \notin c.valid}
      index == CHOOSE i \in todo : \A j \in todo : i <= j
  IN  IF todo # {} THEN [c EXCEPT !.index = index]
      ELSE IF c.state = "remirror" THEN Done(c, "validate")
      ELSE Done(c, IF c.check THEN "remirror" ELSE "update")

NextBlock(c) ==
  SkipValid([c EXCEPT !.index = @ + 1, !.step = "poll", !.at = 1, !.from = 0,
                      !.buffer = NoData, !.seen = {}])

ValidBlock(c)   == NextBlock([c EXCEPT !.valid = @ \union {c.index}])
\* Mutant: a difference is passed over.
InvalidForgotten(c) == NextBlock(c)
InvalidBlock(c) == NextBlock([c EXCEPT !.check = TRUE])
Aborted(c)      == [Done(c, c.state) EXCEPT !.abort = TRUE]

ControlBlock == control.section * SectionSize + control.index

\* nwvp_mirror_group_remirror_check: somebody must be left to compare with.
AnyMirror == Cardinality(Present) > 1

Step(state, step) == up /\ control.state = state /\ control.step = step

RemirrorOnly ==
  UNCHANGED <<durable, online, up, mounted, group, member, client, counters, history>>

Poll ==
  /\ control.state \in {"validate", "remirror"} /\ Step(control.state, "poll") /\ ~control.abort
  /\ control' = LET c == SkipValid(control)
                IN  IF c.state = control.state THEN [c EXCEPT !.step = "check"] ELSE c
  /\ RemirrorOnly

\* nwvp_mirror_block_validate: all members present must hold the same.
ValidateCheck ==
  LET m == NextPresent(control.at)
  IN  /\ Step("validate", "check")
      /\ control' = IF control.at > N THEN ValidBlock(control)
                    ELSE IF ~AnyMirror THEN InvalidBlock(control)
                    ELSE IF ControlBlock >= Blocks \/ m > N THEN ValidBlock(control)
                    ELSE [control EXCEPT !.step = "read", !.at = m]
      /\ RemirrorOnly

ValidateRead ==
  LET m == control.at
  IN  /\ Step("validate", "read") /\ m \in online
      /\ control' = IF control.buffer \notin {NoData, disk[m][ControlBlock]}
                    THEN InvalidBlock(control)
                    ELSE [control EXCEPT !.step = "check", !.at = m + 1,
                                         !.buffer = disk[m][ControlBlock]]
      /\ RemirrorOnly

\* nwvp_mirror_block_remirror: the first member that is in synch is copied to
\* those that are not, or not checked so far.
\* Mutant: only members out of synch are copied to.
OutOfSynch == {m \in Present \ {control.from} : m >= control.at /\ ~member[m].insynch}

Sources == {m \in Present : m >= control.at /\ member[m].insynch /\ member[m].section = 0}
Targets == {m \in Present \ {control.from} : m >= control.at /\
              (~member[m].insynch \/ member[m].section > control.section)}

RemirrorCheck ==
  LET ms    == IF control.buffer = NoData THEN Sources ELSE Targets
      first == CHOOSE m \in ms : \A k \in ms : m <= k
  IN  /\ Step("remirror", "check")
      /\ control' =
           IF control.buffer # NoData /\ control.at > N THEN NextBlock(control)
           ELSE IF ~AnyMirror \/ ~group.remirroring THEN Aborted(control)
           ELSE IF ms = {} THEN IF control.buffer = NoData THEN Aborted(control) ELSE NextBlock(control)
           ELSE [control EXCEPT !.step = IF control.buffer = NoData THEN "read" ELSE "write",
                                !.at = first]
      /\ RemirrorOnly

RemirrorRead ==
  LET m == control.at
  IN  /\ Step("remirror", "read") /\ m \in online
      /\ control' = [control EXCEPT !.step = "check", !.at = 1, !.from = m,
                                    !.buffer = disk[m][ControlBlock],
                                    !.seen = IF <<m, ControlBlock>> \in overrun THEN Data
                                             ELSE good[ControlBlock]]
      /\ RemirrorOnly

\* What the member may hold: a write that has been there counts.
Current(m, b) ==
  IF client.op = "write" /\ client.block = b /\ client.at > m THEN {client.value} ELSE good[b]

\* The write goes the way of all writes of a member.
RemirrorMark ==
  /\ Step("remirror", "write") /\ group.modifyCheck
  /\ MarkAbsent
  /\ control' = IF group.active THEN control ELSE Aborted(control)
  /\ UNCHANGED <<disk, online, up, mounted, client, counters, good, exposed, overrun>>

\* The old data may go on to the other members: a block that was read before the
\* last write is lost on all of them.
RemirrorWrite ==
  LET m == control.at
      b == ControlBlock
  IN  /\ Step("remirror", "write") /\ ~group.modifyCheck /\ m \in online
      /\ disk' = [disk EXCEPT ![m][b] = control.buffer]
      /\ overrun' = IF control.buffer \in control.seen \ Current(m, b)
                    THEN overrun \union (Members \X {b}) ELSE overrun
      /\ control' = [control EXCEPT !.step = "check", !.at = m + 1]
      /\ UNCHANGED <<saved, holders, online, up, mounted, group, member, client, counters,
                     good, missed, exposed>>

\* A read or write of the remirror process comes to a device that failed.
RemirrorLosesMember ==
  LET m == control.at
  IN  /\ control.step \in {"read", "write"} /\ Step(control.state, control.step)
      /\ control.step = "write" => ~group.modifyCheck
      /\ m \notin online
      /\ Offline(m)
      /\ control' = IF control.state = "validate" THEN InvalidBlock(control) ELSE Aborted(control)
      /\ UNCHANGED <<disk, online, up, client, counters, history>>

\* nwvp_mirror_group_remirror_update: the section is good.  After the last one
\* all members present are in synch, and their sectors say so.
Update ==
  LET s       == control.section
      present == [m \in Members |->
                    IF m \notin Present THEN member[m]
                    ELSE [member[m] EXCEPT !.section = IF @ > s THEN s ELSE @,
                                           !.insynch = @ \/ s = 0]]
      log     == [m \in Members |->
                    IF m \in Present /\ (member[m].section > s \/ (s = 0 /\ ~member[m].insynch))
                    THEN s ELSE group.sector.log[m]]
  IN  /\ Step("update", "poll") /\ ~control.abort
      /\ member' = present
      /\ group' = [group EXCEPT !.sector.log = log]
      /\ IF s = 0 THEN Flush(group'.sector) ELSE UNCHANGED <<saved, holders>>
      /\ control' = IF s = 0 THEN Done(control, "finish")
                    ELSE [Done(control, "validate") EXCEPT !.section = s - 1, !.valid = {}]
      /\ exposed' = (exposed \/ ~group.active)
      /\ UNCHANGED <<disk, online, up, mounted, client, counters, good, missed, overrun>>

StopRemirroring(g) ==
  /\ member' = [m \in Members |-> [member[m] EXCEPT !.remirroring = FALSE]]
  /\ CloseGroup(g)
  /\ control' = NoControl
  /\ UNCHANGED <<disk, online, up, mounted, client, counters, history>>

Finish ==
  /\ Step("finish", "poll")
  /\ StopRemirroring([group EXCEPT !.remirroring = FALSE, !.check = FALSE])

Abort ==
  /\ control.state # "finish" /\ Step(control.state, "poll") /\ control.abort
  /\ StopRemirroring([group EXCEPT !.remirroring = FALSE])

\* nwvp_stop_remirror, from nwvp_quiese_remirroring when the daemon is told to go.
Quiesce ==
  /\ up /\ control.state \notin {"none", "finish"} /\ ~control.abort /\ group.remirroring
  /\ control' = [control EXCEPT !.abort = TRUE]
  /\ RemirrorOnly

-----------------------------------------------------------------------------
Volume ==
  \/ Mount \/ Dismount
  \/ \E b \in Block : StartWrite(b)
  \/ \E m \in Members, b \in Block : ReadLosesMember(m, b)

ClientSteps == WriteMark \/ WriteMember \/ WriteLosesMember \/ WriteReturn

Remirror ==
  \/ Poll \/ ValidateCheck \/ ValidateRead
  \/ RemirrorCheck \/ RemirrorRead \/ RemirrorMark \/ RemirrorWrite \/ RemirrorLosesMember
  \/ Update \/ Finish \/ Abort

Faults == Stop \/ Quiesce \/ \E m \in Members : FailDevice(m)

Next == Establish \/ Volume \/ ClientSteps \/ Remirror \/ Faults

Spec == Init /\ [][Next]_vars

\* The remirror daemon polls again and again, and a writer is not held up by a
\* lock.  Writes, failures and restarts may happen or not.
FairSpec == Spec /\ WF_vars(Remirror) /\ WF_vars(ClientSteps)

-----------------------------------------------------------------------------
TypeOK ==
  /\ disk \in [Members -> [Block -> Data]]
  /\ saved \in MirrorSector
  /\ holders \subseteq Members /\ online \subseteq Members
  /\ up \in BOOLEAN /\ mounted \in BOOLEAN /\ exposed \in BOOLEAN
  /\ group \in GroupState
  /\ member \in [Members -> MemberState]
  /\ control \in Control
  /\ client \in Client
  /\ writes \in 0 .. MaxWrites /\ failures \in 0 .. MaxFailures /\ crashes \in 0 .. MaxCrashes
  /\ good \in [Block -> SUBSET Data]
  /\ missed \subseteq Members
  /\ overrun \subseteq Members \X Block

\* A read of the volume (inwvp_lpartition_block_read) returns the last write
\* that was acknowledged, or one that was not, whichever member serves it: a
\* member that came back is not read before it has been copied to.  Left out
\* are blocks the remirror process wrote over and the volume has not written
\* since (RemirrorWrite holds a block it read before the last write), and what
\* follows when a member that missed a write was not marked before the system
\* went down.
ReadsCurrent ==
  mounted /\ ~exposed =>
    \A m \in Members, b \in Block :
      Readable(m, b) /\ <<m, b>> \notin overrun => disk[m][b] \in good[b]

\* Members that are in synch and checked hold the same in every block that is
\* not being written: validation by section, with the remirror process and
\* writers interleaved, leaves no difference behind but in the blocks written
\* over.  So it is in a group of two; in a larger one the sector forgets that
\* members have to be checked when a remirror is aborted and the primary is not
\* in synch (README, section 4).
MembersAgree ==
  ~exposed =>
    \A m, k \in Present, b \in Block :
      /\ member[m].insynch /\ member[m].section = 0
      /\ member[k].insynch /\ member[k].section = 0
      /\ ~(client.op = "write" /\ client.block = b)
      /\ <<m, b>> \notin overrun /\ <<k, b>> \notin overrun
      => disk[m][b] = disk[k][b]

\* A member the latest sectors call in synch has not missed a write that was
\* acknowledged: nwvp_mirror_group_modify_check marks it before the others are
\* written.
SectorsTruthful ==
  missed = {} /\ ~exposed =>
    \A m \in Members, b \in Block :
      saved.log[m] = 0 /\ <<m, b>> \notin overrun => disk[m][b] \in good[b]

\* A remirror that has begun comes to its end, completed or aborted, whatever
\* is written meanwhile and whichever device fails: a section is not validated
\* and copied for ever.
RemirrorEnds == (control.state # "none") ~> (control.state = "none")

\* Not so, see the README. nwvp_mirror_group_establish is to "set the mirror
\* state of each partition" correctly: a member it calls in synch, with nothing to check, holds what was
\* written.
InSynchIsCurrent ==
  \A m \in Present, b \in Block :
    member[m].insynch /\ member[m].section = 0 => disk[m][b] \in good[b]

=============================================================================

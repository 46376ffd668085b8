--------------------------- MODULE AsyncIOProofs ---------------------------
(***************************************************************************)
(* Proofs about module AsyncIO, for any requests, queues, bounds and       *)
(* faults, and with one processor or several: its variables keep their     *)
(* types, no worker sleeps on a queue that nobody is about to signal, and  *)
(* every completion finds the thread whose stack holds the semaphore.      *)
(***************************************************************************)
EXTENDS AsyncIO, FiniteSetTheorems, TLAPS

\* TypeOK with what the positions of the threads say about their requests
TypeInv ==
  /\ TypeOK
  /\ \A d \in Bins : worker[d].pc \in {"store", "post"} => worker[d].io \in Requests
  /\ cb.pc = "retry" => cb.io \in Requests

LEMMA ConstantFacts ==
  /\ \A r \in Requests : Bin[r] \in Bins
  /\ Requests \subseteq Threads /\ Bins \subseteq Threads /\ Callback \in Threads
  /\ WaitRequests \subseteq Requests /\ AheadRequests \subseteq Requests
  BY BinAssumption DEF Requests, Threads

\* Whoever runs, the processor is given to a thread or to nobody.
LEMMA CpuType ==
  ASSUME NEW t \in Threads, KeepsCpu(t) \/ MayBlock
  PROVE  cpu' \in Threads \cup {NoThread}
  BY DEF KeepsCpu, MayBlock

\* One field of a request is set.
LEMMA RequestFields ==
  ASSUME NEW q \in ASYNCH_IO
  PROVE  /\ \A s \in Signatures : [q EXCEPT !.signature = s] \in ASYNCH_IO
         /\ \A c \in Ccodes : [q EXCEPT !.ccode = c] \in ASYNCH_IO
         /\ \A b \in BOOLEAN : [q EXCEPT !.return_code = b] \in ASYNCH_IO
         /\ \A b \in BOOLEAN : [q EXCEPT !.retry = b] \in ASYNCH_IO
  <1>1. ASSUME NEW s \in Signatures PROVE [q EXCEPT !.signature = s] \in ASYNCH_IO
    BY Zenon DEF ASYNCH_IO
  <1>2. ASSUME NEW c \in Ccodes PROVE [q EXCEPT !.ccode = c] \in ASYNCH_IO
    BY DEF ASYNCH_IO
  <1>3. ASSUME NEW b \in BOOLEAN PROVE [q EXCEPT !.return_code = b] \in ASYNCH_IO
    BY DEF ASYNCH_IO
  <1>4. ASSUME NEW b \in BOOLEAN PROVE [q EXCEPT !.retry = b] \in ASYNCH_IO
    BY DEF ASYNCH_IO
  <1>5. QED
    BY <1>1, <1>2, <1>3, <1>4

\* A request is replaced by what it becomes.
LEMMA IoType ==
  ASSUME TypeInv, NEW r \in Requests, NEW q \in ASYNCH_IO
  PROVE  [io EXCEPT ![r] = q] \in [Requests -> ASYNCH_IO]
  BY DEF TypeInv, TypeOK

LEMMA IoEntry ==
  ASSUME TypeInv, NEW r \in Requests
  PROVE  io[r] \in ASYNCH_IO
  BY DEF TypeInv, TypeOK

LEMMA TypeInit == Init => TypeInv
  <1> SUFFICES ASSUME Init PROVE TypeInv
    OBVIOUS
  <1> USE DEF Init
  <1>1. io \in [Requests -> ASYNCH_IO]
    BY DEF ASYNCH_IO, Signatures, Ccodes
  <1>2. worker \in [Bins -> [pc : WorkerPcs, io : Requests \cup {NoRequest}]]
    BY DEF WorkerPcs
  <1>3. pc \in [Requests -> CallerPcs]
    BY DEF CallerPcs
  <1>4. io_callback \in Seq(Requests) /\ submits \in 0..MaxSubmits
    BY SubmitsAssumption
  <1>5. TypeOK
    BY <1>1, <1>2, <1>3, <1>4 DEF TypeOK
  <1>6. QED
    BY <1>5 DEF TypeInv

\* The steps of the threads that submit
LEMMA TypeSubmitters ==
  ASSUME TypeInv, NEW r \in Requests,
         InsertIo(r) \/ TestSignal(r) \/ SignalWorker(r) \/ ReadDiskSectors(r)
  PROVE  TypeInv'
  <1> USE DEF TypeInv, TypeOK, queueVars, signalVars, callerVars
  <1>1. cpu' \in Threads \cup {NoThread}
    BY ConstantFacts, CpuType
       DEF InsertIo, TestSignal, SignalWorker, ReadDiskSectors, KeepsCpu, MayBlock
  <1>2. CASE InsertIo(r)
    <2>1. io' \in [Requests -> ASYNCH_IO]
      BY <1>2 DEF InsertIo, ASYNCH_IO, Signatures, Ccodes
    <2>2. disk_io_head' \in [Bins -> SUBSET Requests]
      BY <1>2 DEF InsertIo
    <2>3. pc' \in [Requests -> CallerPcs] /\ result' \in [Requests -> {"none", "done", "zero"}]
      BY <1>2 DEF InsertIo, CallerPcs
    <2>4. submits' \in 0..MaxSubmits
      BY <1>2, SubmitsAssumption DEF InsertIo
    <2>5. QED
      BY <1>1, <1>2, <2>1, <2>2, <2>3, <2>4 DEF InsertIo
  <1>3. CASE TestSignal(r)
    <2>1. pc' \in [Requests -> CallerPcs]
      BY <1>3 DEF TestSignal, Submitted, CallerPcs
    <2>2. QED
      BY <1>1, <1>3, <2>1 DEF TestSignal
  <1>4. CASE SignalWorker(r)
    <2>1. pc' \in [Requests -> CallerPcs]
      BY <1>4 DEF SignalWorker, Submitted, CallerPcs
    <2>2. asynch_signal' \in [Bins -> BOOLEAN] /\ sem_table' \in [Bins -> Nat]
      BY <1>4, ConstantFacts DEF SignalWorker
    <2>3. QED
      BY <1>1, <1>4, <2>1, <2>2 DEF SignalWorker
  <1>5. CASE ReadDiskSectors(r)
    <2>1. pc' \in [Requests -> CallerPcs]
      BY <1>5 DEF ReadDiskSectors, CallerPcs
    <2>2. semaphore' \in [Requests -> Nat]
      BY <1>5 DEF ReadDiskSectors
    <2>3. result' \in [Requests -> {"none", "done", "zero"}]
      BY <1>5 DEF ReadDiskSectors, Answer
    <2>4. QED
      BY <1>1, <1>5, <2>1, <2>2, <2>3 DEF ReadDiskSectors
  <1>6. QED
    BY <1>2, <1>3, <1>4, <1>5

LEMMA CallbackRoutineType ==
  ASSUME TypeInv, NEW r \in Requests, NEW ccode, CallbackRoutine(r, ccode)
  PROVE  semaphore' \in [Requests -> Nat] /\ busy' \subseteq Requests
  BY DEF TypeInv, TypeOK, CallbackRoutine

\* The completion interrupt
LEMMA TypeCompletion ==
  ASSUME TypeInv, NEW r \in Requests, EndAsynchIo(r)
  PROVE  TypeInv'
  <1>1. PICK ccode \in {"ok"} \cup (IF Errors THEN {"io_error"} ELSE {}) :
          /\ r \in flying
          /\ flying' = flying \ {r}
          /\ faulted' = IF ccode = "ok" THEN faulted ELSE faulted \cup {r}
          /\ CallbackRoutine(r, ccode)
          /\ io' = [io EXCEPT ![r].ccode = ccode,
                              ![r].retry = WantsRetry(r, ccode),
                              ![r].signature = IF WantsRetry(r, ccode)
                                               THEN "callback_post" ELSE "completed"]
          /\ io_callback' = IF WantsRetry(r, ccode) THEN Append(io_callback, r)
                            ELSE io_callback
          /\ callback_semaphore' = IF WantsRetry(r, ccode)
                                   THEN callback_semaphore + 1 ELSE callback_semaphore
          /\ UNCHANGED <<disk_io_head, list, signalVars, worker, cb, callerVars, cpu>>
    BY DEF EndAsynchIo
  <1>2. semaphore' \in [Requests -> Nat] /\ busy' \subseteq Requests
    BY <1>1, CallbackRoutineType
  <1>3. ccode \in Ccodes
    BY SwitchAssumption DEF Ccodes
  <1>4. io' \in [Requests -> ASYNCH_IO]
    <2>1. WantsRetry(r, ccode) \in BOOLEAN
      BY DEF WantsRetry
    <2> DEFINE s == IF WantsRetry(r, ccode) THEN "callback_post" ELSE "completed"
               w == WantsRetry(r, ccode)
    <2>2. s \in Signatures /\ w \in BOOLEAN
      BY <2>1 DEF Signatures
    <2>3. io' = [io EXCEPT ![r].ccode = ccode, ![r].retry = w, ![r].signature = s]
      BY <1>1
    <2> HIDE DEF s, w
    <2> DEFINE q == [[[io[r] EXCEPT !.ccode = ccode] EXCEPT !.retry = w]
                        EXCEPT !.signature = s]
    <2>4. q \in ASYNCH_IO
      BY <1>3, <2>2, IoEntry, RequestFields
    <2>5. io' = [io EXCEPT ![r] = q]
      BY <2>3 DEF TypeInv, TypeOK
    <2> HIDE DEF q
    <2>6. QED
      BY <2>4, <2>5, IoType
  <1>5. io_callback' \in Seq(Requests) /\ callback_semaphore' \in Nat
    BY <1>1 DEF TypeInv, TypeOK
  <1>6. QED
    BY <1>1, <1>2, <1>4, <1>5 DEF TypeInv, TypeOK, signalVars, callerVars

\* A worker moves to another position.
LEMMA WorkerType ==
  ASSUME TypeInv, NEW d \in Bins, NEW l \in WorkerPcs, Worker(d, l)
  PROVE  worker' \in [Bins -> [pc : WorkerPcs, io : Requests \cup {NoRequest}]]
  BY DEF TypeInv, TypeOK, Worker

LEMMA TypeWorkers ==
  ASSUME TypeInv, NEW d \in Bins, Process(d)
  PROVE  TypeInv'
  <1> USE DEF TypeInv, TypeOK, queueVars, signalVars, callerVars
  <1>0. cpu' \in Threads \cup {NoThread}
    BY ConstantFacts
       DEF Process, WorkerTop, WorkerWakes, WorkerTest, TakeQueue, SubmitIo,
           RefuseIo, StoreReturnCode, PostSignature, EndOfList, ClearActive,
           ClearSignal, KeepsCpu, MayBlock
  <1>1. CASE WorkerTop(d)
    BY <1>0, <1>1 DEF WorkerTop, Worker, WorkerPcs
  <1>2. CASE WorkerWakes(d)
    BY <1>0, <1>2 DEF WorkerWakes, Signalled, Worker, WorkerPcs
  <1>3. CASE WorkerTest(d)
    BY <1>0, <1>3 DEF WorkerTest, Worker, WorkerPcs
  <1>4. CASE TakeQueue(d)
    BY <1>0, <1>4 DEF TakeQueue, Worker, WorkerPcs
  <1>5. CASE SubmitIo(d)
    <2>1. PICK r \in list[d] :
            /\ list' = [list EXCEPT ![d] = @ \ {r}]
            /\ flying' = flying \cup {r}
            /\ io' = [io EXCEPT ![r].ccode = "ok"]
            /\ worker' = [worker EXCEPT ![d] = [pc |-> "store", io |-> r]]
      BY <1>5 DEF SubmitIo
    <2>2. r \in Requests
      OBVIOUS
    <2>3. io' \in [Requests -> ASYNCH_IO]
      <3> DEFINE q == [io[r] EXCEPT !.ccode = "ok"]
      <3>1. q \in ASYNCH_IO
        BY <2>2, IoEntry, RequestFields DEF Ccodes
      <3>2. io' = [io EXCEPT ![r] = q]
        BY <2>1, <2>2
      <3> HIDE DEF q
      <3>3. QED
        BY <2>2, <3>1, <3>2, IoType
    <2>4. worker' \in [Bins -> [pc : WorkerPcs, io : Requests \cup {NoRequest}]]
      BY <2>1, <2>2 DEF WorkerPcs
    <2>5. QED
      BY <1>0, <1>5, <2>1, <2>2, <2>3, <2>4 DEF SubmitIo
  <1>6. CASE RefuseIo(d)
    <2>1. PICK r \in list[d] :
            /\ list' = [list EXCEPT ![d] = @ \ {r}]
            /\ io' = [io EXCEPT ![r].return_code = FALSE, ![r].ccode = "io_error",
                                ![r].retry = WantsRetry(r, "io_error")]
            /\ CallbackRoutine(r, "io_error")
            /\ faulted' = faulted \cup {r}
            /\ worker' = [worker EXCEPT ![d] = [pc |-> "post", io |-> r]]
      BY <1>6 DEF RefuseIo
    <2>2. r \in Requests
      OBVIOUS
    <2>3. io' \in [Requests -> ASYNCH_IO]
      <3> DEFINE w == WantsRetry(r, "io_error")
      <3>1. w \in BOOLEAN
        BY DEF WantsRetry
      <3>2. io' = [io EXCEPT ![r].return_code = FALSE, ![r].ccode = "io_error",
                             ![r].retry = w]
        BY <2>1
      <3> HIDE DEF w
      <3> DEFINE q == [[[io[r] EXCEPT !.return_code = FALSE]
                          EXCEPT !.ccode = "io_error"] EXCEPT !.retry = w]
      <3>3. q \in ASYNCH_IO
        BY <2>2, <3>1, IoEntry, RequestFields DEF Ccodes
      <3>4. io' = [io EXCEPT ![r] = q]
        BY <2>2, <3>2
      <3> HIDE DEF q
      <3>5. QED
        BY <2>2, <3>3, <3>4, IoType
    <2>4. worker' \in [Bins -> [pc : WorkerPcs, io : Requests \cup {NoRequest}]]
      BY <2>1, <2>2 DEF WorkerPcs
    <2>5. semaphore' \in [Requests -> Nat] /\ busy' \subseteq Requests
      BY <2>1, <2>2, CallbackRoutineType
    <2>6. QED
      BY <1>0, <1>6, <2>1, <2>2, <2>3, <2>4, <2>5 DEF RefuseIo
  <1>7. CASE StoreReturnCode(d)
    <2>1. io' \in [Requests -> ASYNCH_IO]
      <3> DEFINE r == worker[d].io
                 q == Stored(io[r])
      <3>1. r \in Requests
        BY <1>7 DEF StoreReturnCode
      <3>2. q \in ASYNCH_IO
        BY <3>1, IoEntry, RequestFields DEF Stored
      <3>3. io' = [io EXCEPT ![r] = q]
        BY <1>7, <3>1 DEF StoreReturnCode
      <3> HIDE DEF r, q
      <3>4. QED
        BY <3>1, <3>2, <3>3, IoType
    <2>2. QED
      BY <1>0, <1>7, <2>1 DEF StoreReturnCode, Worker, WorkerPcs
  <1>8. CASE PostSignature(d)
    <2>1. io' \in [Requests -> ASYNCH_IO]
      <3> DEFINE r == worker[d].io
                 q == [io[r] EXCEPT !.signature = "aio_post"]
      <3>1. r \in Requests
        BY <1>8 DEF PostSignature
      <3>2. q \in ASYNCH_IO
        BY <3>1, IoEntry, RequestFields DEF Signatures
      <3>3. io' = [io EXCEPT ![r] = q]
        BY <1>8, <3>1 DEF PostSignature
      <3> HIDE DEF r, q
      <3>4. QED
        BY <3>1, <3>2, <3>3, IoType
    <2>2. QED
      BY <1>0, <1>8, <2>1 DEF PostSignature, WorkerPcs
  <1>9. CASE EndOfList(d)
    BY <1>0, <1>9 DEF EndOfList, Worker, WorkerPcs
  <1>10. CASE ClearActive(d)
    BY <1>0, <1>10 DEF ClearActive, Worker, WorkerPcs
  <1>11. CASE ClearSignal(d)
    BY <1>0, <1>11 DEF ClearSignal, SignalCleared, Worker, WorkerPcs
  <1>12. QED
    BY <1>1, <1>2, <1>3, <1>4, <1>5, <1>6, <1>7, <1>8, <1>9, <1>10, <1>11 DEF Process

LEMMA TypeCallback ==
  ASSUME TypeInv, ProcessCallback
  PROVE  TypeInv'
  <1> USE DEF TypeInv, TypeOK, queueVars, signalVars, callerVars
  <1>0. cpu' \in Threads \cup {NoThread}
    BY ConstantFacts
       DEF ProcessCallback, CallbackWakes, GetCallback, RetryDone, KeepsCpu, MayBlock
  <1>1. CASE CallbackWakes
    <2>1. callback_semaphore' \in Nat
      BY <1>1 DEF CallbackWakes
    <2>2. cb' \in [pc : {"down", "get", "retry"}, io : Requests \cup {NoRequest}]
          /\ cb'.pc = "get"
      BY <1>1 DEF CallbackWakes
    <2>3. QED
      BY <1>0, <1>1, <2>1, <2>2 DEF CallbackWakes
  <1>2. CASE GetCallback
    <2>1. CASE io_callback = <<>>
      BY <1>0, <1>2, <2>1 DEF GetCallback
    <2>2. CASE io_callback # <<>>
      <3> DEFINE r == Head(io_callback)
      <3>1. r \in Requests /\ Tail(io_callback) \in Seq(Requests)
        BY <2>2
      <3>2. io' \in [Requests -> ASYNCH_IO]
        <4> DEFINE q == [io[r] EXCEPT !.ccode = "bad_signature"]
        <4>1. q \in ASYNCH_IO
          BY <3>1, IoEntry, RequestFields DEF Ccodes
        <4>2. io' = io \/ io' = [io EXCEPT ![r] = q]
          BY <1>2, <2>2, <3>1 DEF GetCallback
        <4> HIDE DEF q
        <4>3. QED
          BY <3>1, <4>1, <4>2, IoType
      <3>3. cb' = [pc |-> "retry", io |-> r]
        BY <1>2, <2>2 DEF GetCallback
      <3> HIDE DEF r
      <3>4. QED
        BY <1>0, <1>2, <2>2, <3>1, <3>2, <3>3 DEF GetCallback
    <2>3. QED
      BY <2>1, <2>2
  <1>3. CASE RetryDone
    <2>1. io' \in [Requests -> ASYNCH_IO]
      <3> DEFINE r == cb.io
                 q == [io[r] EXCEPT !.signature = "completed"]
      <3>1. r \in Requests
        BY <1>3 DEF RetryDone
      <3>2. q \in ASYNCH_IO
        BY <3>1, IoEntry, RequestFields DEF Signatures
      <3>3. io' = [io EXCEPT ![r] = q]
        BY <1>3, <3>1 DEF RetryDone
      <3> HIDE DEF r, q
      <3>4. QED
        BY <3>1, <3>2, <3>3, IoType
    <2>2. QED
      BY <1>0, <1>3, <2>1 DEF RetryDone
  <1>4. QED
    BY <1>1, <1>2, <1>3 DEF ProcessCallback

LEMMA TypeNext == TypeInv /\ [Next]_vars => TypeInv'
  <1> SUFFICES ASSUME TypeInv, [Next]_vars PROVE TypeInv'
    OBVIOUS
  <1>1. ASSUME NEW r \in Requests, InsertIo(r) \/ Caller(r) \/ EndAsynchIo(r)
        PROVE  TypeInv'
    BY <1>1, TypeSubmitters, TypeCompletion DEF Caller
  <1>2. ASSUME NEW d \in Bins, Process(d) PROVE TypeInv'
    BY <1>2, TypeWorkers
  <1>3. CASE UNCHANGED vars
    BY <1>3 DEF vars, queueVars, signalVars, callerVars, TypeInv, TypeOK
  <1>4. QED
    BY <1>1, <1>2, <1>3, TypeCallback DEF Next

\* The variables of the asynchronous I/O manager keep their types (async.c).
THEOREM TypeCorrect == Spec => []TypeOK
  <1>1. TypeInv => TypeOK
    BY DEF TypeInv
  <1>2. QED
    BY <1>1, TypeInit, TypeNext, PTL DEF Spec

-----------------------------------------------------------------------------
(* No worker sleeps on work.  A submitter tests asynch_signal and           *)
(* asynch_active without a lock, so what they say of a sleeping worker must *)
(* be known: it is not active, and if it is signalled its semaphore is up.  *)

ActiveInside ==
  \A d \in Bins :
    asynch_active[d] =>
      worker[d].pc \in {"loop", "next", "store", "post", "inactive"}

SignalPosted ==
  \A d \in Bins :
    worker[d].pc \in {"top", "down"} /\ asynch_signal[d] => sem_table[d] > 0

SleepInv == ActiveInside /\ SignalPosted /\ NoSleepOnWork

LEMMA SleepInit == Init => SleepInv
  BY DEF Init, SleepInv, ActiveInside, SignalPosted, NoSleepOnWork

\* All that the argument needs of the types
LEMMA SleepTypes ==
  ASSUME TypeInv
  PROVE  /\ disk_io_head \in [Bins -> SUBSET Requests]
         /\ asynch_signal \in [Bins -> BOOLEAN]
         /\ asynch_active \in [Bins -> BOOLEAN]
         /\ sem_table \in [Bins -> Nat]
         /\ pc \in [Requests -> CallerPcs]
  BY DEF TypeInv, TypeOK

\* A worker moves and the others do not.
LEMMA WorkerMoves ==
  ASSUME TypeInv, NEW d \in Bins, NEW l, Worker(d, l)
  PROVE  \A e \in Bins : worker'[e].pc = IF e = d THEN l ELSE worker[e].pc
  <1>1. worker \in [Bins -> [pc : WorkerPcs, io : Requests \cup {NoRequest}]]
    BY DEF TypeInv, TypeOK
  <1>2. QED
    BY <1>1 DEF Worker

LEMMA SleepSubmitters ==
  ASSUME TypeInv, SleepInv, NEW r \in Requests,
         InsertIo(r) \/ TestSignal(r) \/ SignalWorker(r) \/ ReadDiskSectors(r)
  PROVE  SleepInv'
  <1> USE ConstantFacts, SleepTypes
          DEF SleepInv, ActiveInside, SignalPosted, NoSleepOnWork
  <1>1. CASE InsertIo(r)
    <2>1. /\ UNCHANGED <<asynch_signal, asynch_active, sem_table, worker>>
          /\ pc'[r] = "run"
          /\ \A q \in Requests : q # r => pc'[q] = pc[q]
          /\ \A d \in Bins : d # Bin[r] => disk_io_head'[d] = disk_io_head[d]
      BY <1>1 DEF InsertIo, signalVars
    <2>2. NoSleepOnWork'
      <3> SUFFICES ASSUME NEW d \in Bins, worker'[d].pc = "down",
                          sem_table'[d] = 0, disk_io_head'[d] # {}
                   PROVE  \E q \in Requests : Bin[q] = d /\ pc'[q] \in {"run", "signal"}
        OBVIOUS
      <3>1. CASE Bin[r] = d
        BY <2>1, <3>1
      <3>2. CASE Bin[r] # d
        BY <2>1, <3>2
      <3>3. QED
        BY <3>1, <3>2
    <2>3. QED
      BY <2>1, <2>2
  <1>2. CASE TestSignal(r)
    <2>1. UNCHANGED <<disk_io_head, asynch_signal, asynch_active, sem_table, worker>>
      BY <1>2 DEF TestSignal, queueVars, signalVars
    <2>2. ASSUME worker[Bin[r]].pc = "down", sem_table[Bin[r]] = 0
          PROVE  pc'[r] = "signal"
      <3>1. ~asynch_active[Bin[r]] /\ ~asynch_signal[Bin[r]]
        BY <2>2
      <3>2. QED
        BY <1>2, <3>1 DEF TestSignal, MustSignal
    <2>3. \A q \in Requests : q # r => pc'[q] = pc[q]
      BY <1>2 DEF TestSignal
    <2>4. NoSleepOnWork'
      BY <2>1, <2>2, <2>3
    <2>5. QED
      BY <2>1, <2>4
  <1>3. CASE SignalWorker(r)
    <2>1. UNCHANGED <<disk_io_head, asynch_active, worker>>
      BY <1>3 DEF SignalWorker, queueVars
    <2>2. sem_table'[Bin[r]] > 0
      BY <1>3 DEF SignalWorker
    <2>3. \A d \in Bins : d # Bin[r] =>
             /\ sem_table'[d] = sem_table[d]
             /\ asynch_signal'[d] = asynch_signal[d]
      BY <1>3 DEF SignalWorker
    <2>4. \A q \in Requests : Bin[q] # Bin[r] => pc'[q] = pc[q]
      BY <1>3 DEF SignalWorker
    <2>5. NoSleepOnWork'
      <3> SUFFICES ASSUME NEW d \in Bins, worker'[d].pc = "down",
                          sem_table'[d] = 0, disk_io_head'[d] # {}
                   PROVE  \E q \in Requests : Bin[q] = d /\ pc'[q] \in {"run", "signal"}
        OBVIOUS
      <3>1. Bin[r] # d
        BY <2>2
      <3>2. PICK q \in Requests : Bin[q] = d /\ pc[q] \in {"run", "signal"}
        BY <2>1, <2>3, <3>1
      <3>3. QED
        BY <2>4, <3>1, <3>2
    <2>6. ActiveInside' /\ SignalPosted'
      BY <2>1, <2>2, <2>3
    <2>7. QED
      BY <2>5, <2>6
  <1>4. CASE ReadDiskSectors(r)
    <2>1. \A q \in Requests : pc[q] \in {"run", "signal"} => pc'[q] = pc[q]
      BY <1>4 DEF ReadDiskSectors
    <2>2. UNCHANGED <<disk_io_head, asynch_signal, asynch_active, sem_table, worker>>
      BY <1>4 DEF ReadDiskSectors, queueVars, signalVars
    <2>3. QED
      BY <2>1, <2>2
  <1>5. QED
    BY <1>1, <1>2, <1>3, <1>4

LEMMA SleepWorkers ==
  ASSUME TypeInv, SleepInv, NEW d \in Bins, Process(d)
  PROVE  SleepInv'
  <1> USE SleepTypes DEF SleepInv, ActiveInside, SignalPosted, NoSleepOnWork
  <1>1. CASE WorkerTop(d)
    BY <1>1, WorkerMoves DEF WorkerTop, Sleeps, queueVars, signalVars, callerVars
  <1>2. CASE WorkerWakes(d)
    <2>1. /\ \A e \in Bins : e # d => sem_table'[e] = sem_table[e]
          /\ UNCHANGED <<disk_io_head, asynch_signal, asynch_active, pc>>
      BY <1>2 DEF WorkerWakes, queueVars, callerVars
    <2>2. worker[d].pc = "down" /\ Worker(d, "test")
      BY <1>2 DEF WorkerWakes, Signalled
    <2>3. QED
      BY <2>1, <2>2, WorkerMoves
  <1>3. CASE WorkerTest(d)
    <2>1. /\ UNCHANGED <<disk_io_head, asynch_signal, sem_table, pc>>
          /\ asynch_active' = [asynch_active EXCEPT ![d] = asynch_signal[d]]
          /\ Worker(d, IF asynch_signal[d] THEN "loop" ELSE "top")
      BY <1>3 DEF WorkerTest, queueVars, callerVars
    <2>2. QED
      BY <2>1, WorkerMoves
  <1>4. CASE TakeQueue(d)
    <2>1. /\ UNCHANGED <<asynch_signal, asynch_active, sem_table, pc>>
          /\ \A e \in Bins : e # d => disk_io_head'[e] = disk_io_head[e]
          /\ Worker(d, IF disk_io_head[d] = {} THEN "inactive" ELSE "next")
          /\ worker[d].pc = "loop"
      BY <1>4 DEF TakeQueue, signalVars, callerVars
    <2>2. QED
      BY <2>1, WorkerMoves
  <1>5. CASE SubmitIo(d) \/ RefuseIo(d) \/ PostSignature(d)
    <2>1. UNCHANGED <<disk_io_head, asynch_signal, asynch_active, sem_table, pc>>
      BY <1>5 DEF SubmitIo, RefuseIo, PostSignature, queueVars, signalVars, callerVars
    <2>2. PICK q \in [pc : {"next", "store", "post"}, io : Requests \cup {NoRequest}] :
            worker' = [worker EXCEPT ![d] = q]
      BY <1>5 DEF SubmitIo, RefuseIo, PostSignature, TypeInv, TypeOK
    <2>3. worker[d].pc \in {"next", "post"}
      BY <1>5 DEF SubmitIo, RefuseIo, PostSignature
    <2>4. \A e \in Bins : worker'[e] = IF e = d THEN q ELSE worker[e]
      BY <2>2 DEF TypeInv, TypeOK
    <2>5. QED
      BY <2>1, <2>2, <2>3, <2>4
  <1>6. CASE StoreReturnCode(d) \/ EndOfList(d)
    <2>1. UNCHANGED <<disk_io_head, asynch_signal, asynch_active, sem_table, pc>>
      BY <1>6 DEF StoreReturnCode, EndOfList, queueVars, signalVars, callerVars
    <2>2. Worker(d, "post") \/ Worker(d, "loop")
      BY <1>6 DEF StoreReturnCode, EndOfList
    <2>3. QED
      BY <2>1, <2>2, WorkerMoves
  <1>7. CASE ClearActive(d)
    <2>1. /\ UNCHANGED <<disk_io_head, asynch_signal, sem_table, pc>>
          /\ asynch_active' = [asynch_active EXCEPT ![d] = FALSE]
          /\ Worker(d, "unsignal")
      BY <1>7 DEF ClearActive, queueVars, callerVars
    <2>2. QED
      BY <2>1, WorkerMoves
  <1>8. CASE ClearSignal(d)
    <2>1. /\ UNCHANGED <<disk_io_head, asynch_active, sem_table, pc>>
          /\ asynch_signal' = [asynch_signal EXCEPT ![d] = FALSE]
          /\ Worker(d, "top")
          /\ worker[d].pc = "unsignal"
      BY <1>8 DEF ClearSignal, SignalCleared, queueVars, callerVars
    <2>2. QED
      BY <2>1, WorkerMoves
  <1>9. QED
    BY <1>1, <1>2, <1>3, <1>4, <1>5, <1>6, <1>7, <1>8 DEF Process

LEMMA SleepNext == TypeInv /\ SleepInv /\ [Next]_vars => SleepInv'
  <1> SUFFICES ASSUME TypeInv, SleepInv, [Next]_vars PROVE SleepInv'
    OBVIOUS
  <1> USE DEF SleepInv, ActiveInside, SignalPosted, NoSleepOnWork
  <1>1. ASSUME NEW r \in Requests, EndAsynchIo(r) PROVE SleepInv'
    BY <1>1 DEF EndAsynchIo, signalVars, callerVars
  <1>2. CASE ProcessCallback
    BY <1>2 DEF ProcessCallback, CallbackWakes, GetCallback, RetryDone,
                queueVars, signalVars, callerVars
  <1>3. CASE UNCHANGED vars
    BY <1>3 DEF vars, queueVars, signalVars, callerVars
  <1>4. QED
    BY <1>1, <1>2, <1>3, SleepSubmitters, SleepWorkers DEF Next, Caller

\* No worker sleeps on a queue that nobody is about to signal: a request is
\* never stuck behind the unlocked test in RunAsynchIOQueue (async.c).
THEOREM NobodySleepsOnWork == Spec => []NoSleepOnWork
  <1>1. SleepInv => NoSleepOnWork
    BY DEF SleepInv
  <1>2. QED
    BY <1>1, TypeInit, TypeNext, SleepInit, SleepNext, PTL DEF Spec

-----------------------------------------------------------------------------
(* A request is in one place.  Wherever it is, it is busy: so it is not     *)
(* submitted again, and the place it leaves was the only one.               *)

Queued(r) == \E n \in DOMAIN io_callback : io_callback[n] = r

InQueue ==
  \A r \in Requests, d \in Bins :
    r \in disk_io_head[d] =>
      /\ r \in busy /\ Bin[r] = d
      /\ r \notin list[d] /\ r \notin flying /\ ~Queued(r) /\ cb.io # r
InList ==
  \A r \in Requests, d \in Bins :
    r \in list[d] =>
      r \in busy /\ Bin[r] = d /\ r \notin flying /\ ~Queued(r) /\ cb.io # r
InFlight == \A r \in Requests : r \in flying => r \in busy /\ ~Queued(r) /\ cb.io # r
InCallback ==
  /\ \A r \in Requests : Queued(r) => r \in busy /\ cb.io # r
  /\ \A m, n \in DOMAIN io_callback : io_callback[m] = io_callback[n] => m = n
  /\ cb.io # NoRequest => cb.pc = "retry" /\ cb.io \in busy

PlaceInv == InQueue /\ InList /\ InFlight /\ InCallback

\* The callback list grows at its end and shrinks at its head.
LEMMA QueuedAfterAppend ==
  ASSUME NEW s \in Seq(Requests), NEW r \in Requests,
         \A n \in DOMAIN s : s[n] # r,
         \A m, n \in DOMAIN s : s[m] = s[n] => m = n
  PROVE  LET t == Append(s, r)
         IN  /\ \A q : (\E n \in DOMAIN t : t[n] = q)
                         <=> q = r \/ \E n \in DOMAIN s : s[n] = q
             /\ \A m, n \in DOMAIN t : t[m] = t[n] => m = n
  <1> DEFINE t == Append(s, r)
  <1>1. /\ DOMAIN s = 1 .. Len(s) /\ Len(s) \in Nat
        /\ DOMAIN t = 1 .. Len(s) + 1
        /\ t[Len(s) + 1] = r
        /\ \A n \in DOMAIN s : t[n] = s[n]
    OBVIOUS
  <1> HIDE DEF t
  <1>2. \A n \in DOMAIN t : n \in DOMAIN s \/ n = Len(s) + 1
    BY <1>1
  <1>3. DOMAIN s \subseteq DOMAIN t /\ Len(s) + 1 \in DOMAIN t
    BY <1>1
  <1>4. \A q : (\E n \in DOMAIN t : t[n] = q) <=> q = r \/ \E n \in DOMAIN s : s[n] = q
    BY <1>1, <1>2, <1>3
  <1>5. \A m, n \in DOMAIN t : t[m] = t[n] => m = n
    BY <1>1, <1>2
  <1>6. QED
    BY <1>4, <1>5 DEF t

LEMMA QueuedAfterTail ==
  ASSUME NEW s \in Seq(Requests), s # <<>>,
         \A m, n \in DOMAIN s : s[m] = s[n] => m = n
  PROVE  LET t == Tail(s)
         IN  /\ \A q : (\E n \in DOMAIN t : t[n] = q)
                         => q # Head(s) /\ \E n \in DOMAIN s : s[n] = q
             /\ \E n \in DOMAIN s : s[n] = Head(s)
             /\ \A m, n \in DOMAIN t : t[m] = t[n] => m = n
  <1> DEFINE t == Tail(s)
  <1>1. /\ DOMAIN s = 1 .. Len(s) /\ Len(s) \in Nat \ {0}
        /\ DOMAIN t = 1 .. Len(s) - 1
        /\ Head(s) = s[1]
        /\ \A n \in DOMAIN t : t[n] = s[n + 1]
    OBVIOUS
  <1> HIDE DEF t
  <1>2. \A n \in DOMAIN t : n + 1 \in DOMAIN s /\ n + 1 # 1 /\ n \in Nat
    BY <1>1
  <1>3. 1 \in DOMAIN s
    BY <1>1
  <1>4. \A q : (\E n \in DOMAIN t : t[n] = q)
               => q # Head(s) /\ \E n \in DOMAIN s : s[n] = q
    BY <1>1, <1>2, <1>3
  <1>5. \A m, n \in DOMAIN t : t[m] = t[n] => m = n
    BY <1>1, <1>2
  <1>6. QED
    BY <1>1, <1>3, <1>4, <1>5 DEF t

LEMMA PlaceInit == Init => PlaceInv
  BY ConstantFacts
     DEF Init, PlaceInv, InQueue, InList, InFlight, InCallback, Queued

\* What the argument needs of the types
LEMMA PlaceTypes ==
  ASSUME TypeInv
  PROVE  /\ disk_io_head \in [Bins -> SUBSET Requests]
         /\ list \in [Bins -> SUBSET Requests]
         /\ flying \subseteq Requests
         /\ io_callback \in Seq(Requests)
         /\ busy \subseteq Requests
         /\ cb \in [pc : {"down", "get", "retry"}, io : Requests \cup {NoRequest}]
         /\ cb.pc = "retry" => cb.io \in Requests
  BY DEF TypeInv, TypeOK

LEMMA PlaceSubmitters ==
  ASSUME TypeInv, PlaceInv, NEW r \in Requests, InsertIo(r) \/ Caller(r)
  PROVE  PlaceInv'
  <1> USE DEF PlaceInv, InQueue, InList, InFlight, InCallback, Queued
  <1>1. CASE InsertIo(r)
    <2>1. /\ r \notin busy /\ busy' = busy \cup {r}
          /\ disk_io_head' = [disk_io_head EXCEPT ![Bin[r]] = @ \cup {r}]
          /\ UNCHANGED <<list, flying, io_callback, cb>>
      BY <1>1 DEF InsertIo
    <2>2. InQueue'
      BY <2>1, ConstantFacts, PlaceTypes, ThreadAssumption
    <2>3. InList' /\ InFlight' /\ InCallback'
      BY <2>1
    <2>4. QED
      BY <2>2, <2>3
  <1>2. CASE Caller(r)
    <2>1. UNCHANGED <<disk_io_head, list, flying, io_callback, cb, busy>>
      BY <1>2 DEF Caller, TestSignal, SignalWorker, ReadDiskSectors, queueVars
    <2>2. QED
      BY <2>1
  <1>3. QED
    BY <1>1, <1>2

LEMMA PlaceCompletion ==
  ASSUME TypeInv, PlaceInv, NEW r \in Requests, EndAsynchIo(r)
  PROVE  PlaceInv'
  <1> USE DEF PlaceInv, InQueue, InList, InFlight, InCallback
  <1>1. PICK ccode :
          /\ r \in flying
          /\ flying' = flying \ {r}
          /\ busy' = IF Finished(r, ccode) THEN busy \ {r} ELSE busy
          /\ io_callback' = IF WantsRetry(r, ccode) THEN Append(io_callback, r)
                            ELSE io_callback
          /\ UNCHANGED <<disk_io_head, list, cb>>
    BY DEF EndAsynchIo, CallbackRoutine
  <1>2. r \in busy /\ ~Queued(r) /\ cb.io # r
    BY <1>1
  <1>3. \A d \in Bins : r \notin disk_io_head[d] /\ r \notin list[d]
    BY <1>1
  <1>4. CASE WantsRetry(r, ccode)
    <2>1. busy' = busy /\ io_callback' = Append(io_callback, r)
      BY <1>1, <1>4 DEF Finished
    <2>2. /\ \A q : Queued(q)' <=> q = r \/ Queued(q)
          /\ \A m, n \in DOMAIN io_callback' : io_callback'[m] = io_callback'[n] => m = n
      BY <1>2, <2>1, PlaceTypes, QueuedAfterAppend DEF Queued
    <2>3. QED
      BY <1>1, <1>2, <1>3, <2>1, <2>2
  <1>5. CASE ~WantsRetry(r, ccode)
    <2>1. busy' = busy \ {r} /\ io_callback' = io_callback
      BY <1>1, <1>5 DEF Finished
    <2>2. \A q : Queued(q)' <=> Queued(q)
      BY <2>1 DEF Queued
    <2>3. QED
      BY <1>1, <1>2, <1>3, <2>1, <2>2
  <1>6. QED
    BY <1>4, <1>5

LEMMA PlaceWorkers ==
  ASSUME TypeInv, PlaceInv, NEW d \in Bins, Process(d)
  PROVE  PlaceInv'
  <1> USE PlaceTypes DEF PlaceInv, InQueue, InList, InFlight, InCallback, Queued
  <1>1. CASE TakeQueue(d)
    <2>1. /\ list' = [list EXCEPT ![d] = disk_io_head[d]]
          /\ disk_io_head' = [disk_io_head EXCEPT ![d] = {}]
          /\ UNCHANGED <<flying, io_callback, cb, busy>>
      BY <1>1 DEF TakeQueue
    <2>2. QED
      BY <2>1
  <1>2. CASE SubmitIo(d)
    <2>1. PICK r \in list[d] :
            /\ list' = [list EXCEPT ![d] = @ \ {r}]
            /\ flying' = flying \cup {r}
      BY <1>2 DEF SubmitIo
    <2>2. UNCHANGED <<disk_io_head, io_callback, cb, busy>>
      BY <1>2 DEF SubmitIo
    <2>3. r \in Requests
      OBVIOUS
    <2>4. QED
      BY <2>1, <2>2, <2>3
  <1>3. CASE RefuseIo(d)
    <2>1. PICK r \in list[d] :
            /\ list' = [list EXCEPT ![d] = @ \ {r}]
            /\ busy' \in {busy, busy \ {r}}
      BY <1>3 DEF RefuseIo, CallbackRoutine
    <2>2. UNCHANGED <<disk_io_head, flying, io_callback, cb>>
      BY <1>3 DEF RefuseIo
    <2>3. r \in Requests
      OBVIOUS
    <2>4. QED
      BY <2>1, <2>2, <2>3
  <1>4. CASE \/ WorkerTop(d) \/ WorkerWakes(d) \/ WorkerTest(d)
             \/ StoreReturnCode(d) \/ PostSignature(d) \/ EndOfList(d)
             \/ ClearActive(d) \/ ClearSignal(d)
    <2>1. UNCHANGED <<disk_io_head, list, flying, io_callback, cb, busy>>
      BY <1>4 DEF WorkerTop, WorkerWakes, WorkerTest, StoreReturnCode,
                  PostSignature, EndOfList, ClearActive, ClearSignal, queueVars
    <2>2. QED
      BY <2>1
  <1>5. QED
    BY <1>1, <1>2, <1>3, <1>4 DEF Process

LEMMA PlaceCallback ==
  ASSUME TypeInv, PlaceInv, ProcessCallback
  PROVE  PlaceInv'
  <1> USE DEF PlaceInv, InQueue, InList, InFlight, InCallback
  <1>1. UNCHANGED <<disk_io_head, list, flying>>
    BY DEF ProcessCallback, CallbackWakes, GetCallback, RetryDone, queueVars
  <1>2. CASE CallbackWakes
    <2>1. UNCHANGED <<io_callback, busy>> /\ cb' = [cb EXCEPT !.pc = "get"] /\ cb.pc = "down"
      BY <1>2 DEF CallbackWakes
    <2>2. cb'.io = cb.io /\ cb.io = NoRequest
      BY <2>1, PlaceTypes
    <2>3. QED
      BY <1>1, <2>1, <2>2 DEF Queued
  <1>3. CASE GetCallback
    <2>0. busy' = busy /\ cb.pc = "get"
      BY <1>3 DEF GetCallback
    <2>1. CASE io_callback = <<>>
      <3>1. io_callback' = io_callback /\ cb' = [pc |-> "down", io |-> NoRequest]
        BY <1>3, <2>1 DEF GetCallback
      <3>2. QED
        BY <1>1, <2>0, <3>1, ThreadAssumption DEF Queued
    <2>2. CASE io_callback # <<>>
      <3> DEFINE r == Head(io_callback)
      <3>1. io_callback' = Tail(io_callback) /\ cb' = [pc |-> "retry", io |-> r]
        BY <1>3, <2>2 DEF GetCallback
      <3>2. /\ \A q : Queued(q)' => q # r /\ Queued(q)
            /\ Queued(r)
            /\ \A m, n \in DOMAIN io_callback' : io_callback'[m] = io_callback'[n] => m = n
        BY <2>2, <3>1, PlaceTypes, QueuedAfterTail DEF Queued
      <3>3. r \in Requests
        BY <2>2, PlaceTypes
      <3> HIDE DEF r
      <3>4. cb'.io = r /\ cb'.pc = "retry"
        BY <3>1
      <3>5. QED
        BY <1>1, <2>0, <3>2, <3>3, <3>4
    <2>3. QED
      BY <2>1, <2>2
  <1>4. CASE RetryDone
    <2>1. /\ cb.io \in Requests /\ busy' = busy \ {cb.io}
          /\ cb' = [pc |-> "get", io |-> NoRequest] /\ io_callback' = io_callback
      BY <1>4, PlaceTypes DEF RetryDone, queueVars
    <2>2. cb'.io = NoRequest
      BY <2>1
    <2>3. QED
      BY <1>1, <2>1, <2>2, ThreadAssumption DEF Queued
  <1>5. QED
    BY <1>2, <1>3, <1>4 DEF ProcessCallback

LEMMA PlaceNext == TypeInv /\ PlaceInv /\ [Next]_vars => PlaceInv'
  <1> SUFFICES ASSUME TypeInv, PlaceInv, [Next]_vars PROVE PlaceInv'
    OBVIOUS
  <1>1. CASE UNCHANGED vars
    BY <1>1 DEF vars, queueVars, PlaceInv, InQueue, InList, InFlight, InCallback, Queued
  <1>2. QED
    BY <1>1, PlaceSubmitters, PlaceCompletion, PlaceWorkers, PlaceCallback DEF Next

\* A set with one possible member counts it or nothing.
LEMMA AtMostOne ==
  ASSUME NEW S, NEW x, \A y \in S : y = x
  PROVE  Cardinality(S) = IF x \in S THEN 1 ELSE 0
  <1>1. CASE x \in S
    <2>1. S = {x}
      BY <1>1
    <2>2. QED
      BY <1>1, <2>1, FS_Singleton
  <1>2. CASE x \notin S
    <2>1. S = {}
      BY <1>2
    <2>2. QED
      BY <1>2, <2>1, FS_EmptySet
  <1>3. QED
    BY <1>1, <1>2

LEMMA PlacesCounted ==
  ASSUME TypeInv, PlaceInv, NEW r \in Requests
  PROVE  Places(r) <= 1
  <1> USE DEF PlaceInv, InQueue, InList, InFlight, InCallback
  <1> DEFINE H == {d \in Bins : r \in disk_io_head[d]}
             L == {d \in Bins : r \in list[d]}
             C == {n \in DOMAIN io_callback : io_callback[n] = r}
             b == Bin[r]
             k == CHOOSE n \in DOMAIN io_callback : io_callback[n] = r
  <1>1. Cardinality(H) = IF b \in H THEN 1 ELSE 0
    <2>1. \A d \in H : d = b
      OBVIOUS
    <2>2. QED
      BY <2>1, AtMostOne
  <1>2. Cardinality(L) = IF b \in L THEN 1 ELSE 0
    <2>1. \A d \in L : d = b
      OBVIOUS
    <2>2. QED
      BY <2>1, AtMostOne
  <1>3. Cardinality(C) = IF k \in C THEN 1 ELSE 0
    <2>1. \A n \in C : n = k
      OBVIOUS
    <2> HIDE DEF C, k
    <2>2. QED
      BY <2>1, AtMostOne
  <1>4. k \in C <=> Queued(r)
    BY DEF Queued
  <1>5. /\ b \in H => b \notin L /\ r \notin flying /\ ~Queued(r) /\ cb.io # r
        /\ b \in L => r \notin flying /\ ~Queued(r) /\ cb.io # r
        /\ r \in flying => ~Queued(r) /\ cb.io # r
        /\ Queued(r) => cb.io # r
    OBVIOUS
  <1>6. Places(r) = (IF b \in H THEN 1 ELSE 0) + (IF b \in L THEN 1 ELSE 0)
                    + (IF r \in flying THEN 1 ELSE 0)
                    + (IF Queued(r) THEN 1 ELSE 0) + (IF cb.io = r THEN 1 ELSE 0)
    BY <1>1, <1>2, <1>3, <1>4 DEF Places
  <1> HIDE DEF H, L, C, b, k
  <1>7. QED
    BY <1>5, <1>6

\* A request is never on two lists, nor twice on one: the links it has serve
\* the queue, the worker's list and the callback list (async.c, block.c).
THEOREM NeverOnTwoLists == Spec => []OnOneList
  <1>1. TypeInv /\ PlaceInv => OnOneList
    BY PlacesCounted DEF OnOneList
  <1>2. QED
    BY <1>1, TypeInit, TypeNext, PlaceInit, PlaceNext, PTL DEF Spec

-----------------------------------------------------------------------------
(* The completion finds its waiter.  A request that is waited for is busy   *)
(* until its callback routine is called, and never reaches the callback     *)
(* thread: so its completion is signalled once.                             *)

AheadRetries ==
  /\ io_callback \in Seq(AheadRequests)
  /\ cb.pc = "retry" => cb.io \in AheadRequests

WaitInv == AheadRetries /\ SignalsFindWaiter

LEMMA WaitInit == Init => WaitInv
  BY ConstantFacts DEF Init, WaitInv, AheadRetries, SignalsFindWaiter

LEMMA WaitSubmitters ==
  ASSUME TypeInv, WaitInv, NEW r \in Requests, InsertIo(r) \/ Caller(r)
  PROVE  WaitInv'
  <1> USE ConstantFacts DEF TypeInv, TypeOK, WaitInv
  <1>1. UNCHANGED <<io_callback, cb>>
    BY DEF Caller, InsertIo, TestSignal, SignalWorker, ReadDiskSectors, queueVars
  <1>2. AheadRetries'
    BY <1>1 DEF AheadRetries
  <1>3. CASE InsertIo(r)
    BY <1>2, <1>3 DEF InsertIo, SignalsFindWaiter
  <1>4. CASE TestSignal(r)
    BY <1>2, <1>4 DEF TestSignal, Submitted, SignalsFindWaiter
  <1>5. CASE SignalWorker(r)
    BY <1>2, <1>5 DEF SignalWorker, Submitted, SignalsFindWaiter
  <1>6. CASE ReadDiskSectors(r)
    BY <1>2, <1>6 DEF ReadDiskSectors, SignalsFindWaiter
  <1>7. QED
    BY <1>3, <1>4, <1>5, <1>6 DEF Caller

\* The callback routine of a request that was busy: if the request is waited
\* for, it moves from busy to the semaphore.
LEMMA RoutineSignals ==
  ASSUME TypeInv, SignalsFindWaiter, NEW r \in Requests, r \in busy,
         NEW ccode, CallbackRoutine(r, ccode), UNCHANGED pc
  PROVE  SignalsFindWaiter'
  <1>1. busy' \in {busy, busy \ {r}}
    BY DEF CallbackRoutine
  <1>2. CASE r \in WaitRequests
    <2>1. ~WantsRetry(r, ccode)
      BY <1>2, KindAssumption DEF WantsRetry
    <2>2. busy' = busy \ {r} /\ semaphore' = [semaphore EXCEPT ![r] = @ + 1]
      BY <1>2, <2>1 DEF CallbackRoutine, Finished
    <2>3. QED
      BY <1>2, <2>2, ConstantFacts DEF TypeInv, TypeOK, SignalsFindWaiter
  <1>3. CASE r \notin WaitRequests
    <2>1. semaphore' = semaphore
      BY <1>3 DEF CallbackRoutine
    <2>2. QED
      BY <1>1, <1>3, <2>1 DEF SignalsFindWaiter
  <1>4. QED
    BY <1>2, <1>3

LEMMA WaitCompletion ==
  ASSUME TypeInv, PlaceInv, WaitInv, NEW r \in Requests, EndAsynchIo(r)
  PROVE  WaitInv'
  <1>1. PICK ccode :
          /\ r \in flying
          /\ CallbackRoutine(r, ccode)
          /\ io_callback' = IF WantsRetry(r, ccode) THEN Append(io_callback, r)
                            ELSE io_callback
          /\ UNCHANGED <<cb, pc>>
    BY DEF EndAsynchIo, callerVars
  <1>2. r \in busy
    BY <1>1 DEF PlaceInv, InFlight
  <1>3. SignalsFindWaiter'
    BY <1>1, <1>2, RoutineSignals DEF WaitInv
  <1>4. WantsRetry(r, ccode) => r \in AheadRequests
    BY DEF WantsRetry
  <1>5. AheadRetries'
    BY <1>1, <1>4 DEF WaitInv, AheadRetries
  <1>6. QED
    BY <1>3, <1>5 DEF WaitInv

LEMMA WaitWorkers ==
  ASSUME TypeInv, PlaceInv, WaitInv, NEW d \in Bins, Process(d)
  PROVE  WaitInv'
  <1>1. UNCHANGED <<io_callback, cb, pc>>
    BY DEF Process, WorkerTop, WorkerWakes, WorkerTest, TakeQueue, SubmitIo,
           RefuseIo, StoreReturnCode, PostSignature, EndOfList, ClearActive,
           ClearSignal, queueVars, callerVars
  <1>2. AheadRetries'
    BY <1>1 DEF WaitInv, AheadRetries
  <1>3. CASE RefuseIo(d)
    <2>1. PICK r \in list[d] : CallbackRoutine(r, "io_error")
      BY <1>3 DEF RefuseIo
    <2>2. r \in Requests /\ r \in busy
      BY PlaceTypes DEF PlaceInv, InList
    <2>3. QED
      BY <1>1, <1>2, <2>1, <2>2, RoutineSignals DEF WaitInv
  <1>4. CASE ~RefuseIo(d)
    <2>1. UNCHANGED <<semaphore, busy>>
      BY <1>4 DEF Process, WorkerTop, WorkerWakes, WorkerTest, TakeQueue, SubmitIo,
                  StoreReturnCode, PostSignature, EndOfList, ClearActive, ClearSignal
    <2>2. QED
      BY <1>1, <1>2, <2>1 DEF WaitInv, SignalsFindWaiter
  <1>5. QED
    BY <1>3, <1>4

LEMMA WaitCallback ==
  ASSUME TypeInv, WaitInv, ProcessCallback
  PROVE  WaitInv'
  <1> USE DEF WaitInv, AheadRetries
  <1>1. UNCHANGED <<pc, semaphore>>
    BY DEF ProcessCallback, CallbackWakes, GetCallback, RetryDone, callerVars
  <1>2. \A r \in WaitRequests : r \in busy' <=> r \in busy
    BY KindAssumption DEF ProcessCallback, CallbackWakes, GetCallback, RetryDone
  <1>3. SignalsFindWaiter'
    BY <1>1, <1>2 DEF SignalsFindWaiter
  <1>4. CASE CallbackWakes
    BY <1>3, <1>4 DEF CallbackWakes, TypeInv, TypeOK
  <1>5. CASE GetCallback
    <2>1. CASE io_callback = <<>>
      BY <1>3, <1>5, <2>1 DEF GetCallback
    <2>2. CASE io_callback # <<>>
      <3>1. /\ Head(io_callback) \in AheadRequests
            /\ Tail(io_callback) \in Seq(AheadRequests)
        BY <2>2
      <3>2. /\ io_callback' = Tail(io_callback)
            /\ cb' = [pc |-> "retry", io |-> Head(io_callback)]
        BY <1>5, <2>2 DEF GetCallback
      <3>3. QED
        BY <1>3, <3>1, <3>2
    <2>3. QED
      BY <2>1, <2>2
  <1>6. CASE RetryDone
    BY <1>3, <1>6 DEF RetryDone, queueVars
  <1>7. QED
    BY <1>4, <1>5, <1>6 DEF ProcessCallback

LEMMA WaitNext == TypeInv /\ PlaceInv /\ WaitInv /\ [Next]_vars => WaitInv'
  <1> SUFFICES ASSUME TypeInv, PlaceInv, WaitInv, [Next]_vars PROVE WaitInv'
    OBVIOUS
  <1>1. CASE UNCHANGED vars
    BY <1>1 DEF vars, queueVars, callerVars, WaitInv, AheadRetries, SignalsFindWaiter
  <1>2. QED
    BY <1>1, WaitSubmitters, WaitCompletion, WaitWorkers, WaitCallback DEF Next

\* A completion is signalled once, and only to a thread that still waits for
\* it: end_asynch_io never signals a stack that release_aio has left (block.c).
THEOREM CompletionFindsWaiter == Spec => []SignalsFindWaiter
  <1>1. WaitInv => SignalsFindWaiter
    BY DEF WaitInv
  <1>2. QED
    BY <1>1, TypeInit, TypeNext, PlaceInit, PlaceNext, WaitInit, WaitNext, PTL DEF Spec

-----------------------------------------------------------------------------
(* With one processor a transfer that the disk carried out is reported as   *)
(* done.  The worker stores the return code after it has given the request  *)
(* to the disk; until then the completion can come but its waiter cannot    *)
(* run, for the worker has the processor.                                   *)

Storing(r) == \E d \in Bins : worker[d].pc = "store" /\ worker[d].io = r

StoringHasCpu == \A d \in Bins : worker[d].pc = "store" => cpu = d

CodeStored ==
  \A r \in WaitRequests :
    r \in flying \/ semaphore[r] > 0 =>
      io[r].return_code \/ r \in faulted \/ Storing(r)

ReportInv == StoringHasCpu /\ CodeStored /\ SuccessReported

LEMMA ReportInit == Init => ReportInv
  BY ConstantFacts
     DEF Init, ReportInv, StoringHasCpu, CodeStored, SuccessReported

\* What the argument needs of the types
LEMMA ReportTypes ==
  ASSUME TypeInv
  PROVE  /\ io \in [Requests -> ASYNCH_IO]
         /\ semaphore \in [Requests -> Nat]
         /\ result \in [Requests -> {"none", "done", "zero"}]
         /\ worker \in [Bins -> [pc : WorkerPcs, io : Requests \cup {NoRequest}]]
         /\ WaitRequests \subseteq Requests
  BY ConstantFacts DEF TypeInv, TypeOK

\* While a worker stores a return code, no other thread runs.
LEMMA OthersWait ==
  ASSUME ~SMP, ReportInv, NEW d \in Bins, worker[d].pc = "store",
         NEW t \in Threads, t # d
  PROVE  ~Run(t)
  <1>1. cpu = d /\ d # NoThread
    BY ConstantFacts, ThreadAssumption DEF ReportInv, StoringHasCpu
  <1>2. QED
    BY <1>1 DEF Run

\* A step of a thread that is not a worker: nobody is storing.
LEMMA NobodyStores ==
  ASSUME ~SMP, ReportInv, NEW t \in Threads \ Bins, Run(t)
  PROVE  \A d \in Bins : worker[d].pc # "store"
  BY OthersWait

LEMMA ReportSubmitters ==
  ASSUME ~SMP, TypeInv, WaitInv, PlaceInv, ReportInv, NEW r \in Requests,
         InsertIo(r) \/ Caller(r)
  PROVE  ReportInv'
  <1> USE ReportTypes
  <1>1. Run(r)
    BY DEF Caller, InsertIo, TestSignal, SignalWorker, ReadDiskSectors
  <1>2. \A d \in Bins : worker[d].pc # "store"
    BY <1>1, NobodyStores, ConstantFacts, ThreadAssumption
  <1>3. worker' = worker
    BY DEF Caller, InsertIo, TestSignal, SignalWorker, ReadDiskSectors
  <1>4. StoringHasCpu'
    BY <1>2, <1>3 DEF StoringHasCpu
  <1>5. CASE InsertIo(r)
    <2>1. r \notin flying /\ (r \in WaitRequests => semaphore[r] = 0)
      BY <1>5 DEF InsertIo, PlaceInv, InFlight, WaitInv, SignalsFindWaiter
    <2>2. /\ faulted' = faulted \ {r} /\ UNCHANGED <<flying, semaphore>>
          /\ result' = [result EXCEPT ![r] = "none"]
          /\ \A q \in Requests : q # r => io'[q] = io[q]
      BY <1>5 DEF InsertIo
    <2>3. CodeStored'
      BY <1>2, <2>1, <2>2 DEF ReportInv, CodeStored, Storing
    <2>4. SuccessReported'
      BY <2>2 DEF ReportInv, SuccessReported
    <2>5. QED
      BY <1>4, <2>3, <2>4 DEF ReportInv
  <1>6. CASE TestSignal(r) \/ SignalWorker(r)
    <2>1. UNCHANGED <<io, flying, semaphore, faulted, result>>
      BY <1>6 DEF TestSignal, SignalWorker, queueVars
    <2>2. QED
      BY <1>3, <1>4, <2>1 DEF ReportInv, CodeStored, SuccessReported, Storing
  <1>7. CASE ReadDiskSectors(r)
    <2>1. /\ UNCHANGED <<io, flying, faulted>>
          /\ semaphore[r] > 0 /\ semaphore' = [semaphore EXCEPT ![r] = @ - 1]
          /\ result' = [result EXCEPT ![r] = Answer(r)]
      BY <1>7 DEF ReadDiskSectors, queueVars
    <2>2. CodeStored'
      BY <1>2, <2>1 DEF ReportInv, CodeStored, Storing
    <2>3. r \in WaitRequests => io[r].return_code \/ r \in faulted
      BY <1>2, <2>1 DEF ReportInv, CodeStored, Storing
    <2>4. SuccessReported'
      BY <2>1, <2>3 DEF ReportInv, SuccessReported, Answer
    <2>5. QED
      BY <1>4, <2>2, <2>4 DEF ReportInv
  <1>8. QED
    BY <1>5, <1>6, <1>7 DEF Caller

LEMMA ReportCompletion ==
  ASSUME TypeInv, PlaceInv, ReportInv, NEW r \in Requests, EndAsynchIo(r)
  PROVE  ReportInv'
  <1> USE ReportTypes
  <1>1. /\ r \in flying /\ flying' = flying \ {r}
        /\ faulted \subseteq faulted'
        /\ UNCHANGED <<worker, cpu, result>>
    BY DEF EndAsynchIo, callerVars
  <1>2. \A q \in Requests : io'[q].return_code = io[q].return_code
    BY DEF EndAsynchIo, ASYNCH_IO
  <1>3. \A q \in Requests : q # r => semaphore'[q] = semaphore[q]
    BY DEF EndAsynchIo, CallbackRoutine
  <1>4. CodeStored'
    BY <1>1, <1>2, <1>3 DEF ReportInv, CodeStored, Storing
  <1>5. QED
    BY <1>1, <1>4 DEF ReportInv, StoringHasCpu, SuccessReported

LEMMA ReportWorkers ==
  ASSUME ~SMP, TypeInv, PlaceInv, ReportInv, NEW d \in Bins, Process(d)
  PROVE  ReportInv'
  <1> USE ReportTypes
  <1>1. Run(d)
    BY DEF Process, WorkerTop, WorkerWakes, WorkerTest, TakeQueue, SubmitIo,
           RefuseIo, StoreReturnCode, PostSignature, EndOfList, ClearActive,
           ClearSignal
  <1>2. \A e \in Bins : e # d => worker[e].pc # "store"
    BY <1>1, OthersWait, ConstantFacts
  <1>3. SuccessReported'
    <2>1. faulted \subseteq faulted' /\ result' = result
      BY DEF Process, WorkerTop, WorkerWakes, WorkerTest, TakeQueue, SubmitIo,
             RefuseIo, StoreReturnCode, PostSignature, EndOfList, ClearActive,
             ClearSignal, callerVars
    <2>2. QED
      BY <2>1 DEF ReportInv, SuccessReported
  <1>4. CASE SubmitIo(d)
    <2>1. PICK r \in list[d] :
            /\ flying' = flying \cup {r}
            /\ io' = [io EXCEPT ![r].ccode = "ok"]
            /\ worker' = [worker EXCEPT ![d] = [pc |-> "store", io |-> r]]
      BY <1>4 DEF SubmitIo
    <2>2. worker[d].pc = "next" /\ UNCHANGED <<semaphore, faulted>> /\ cpu' = d
      BY <1>4 DEF SubmitIo, KeepsCpu
    <2>3. \A e \in Bins : worker'[e] = IF e = d THEN [pc |-> "store", io |-> r] ELSE worker[e]
      BY <2>1
    <2>4. \A q \in Requests : io'[q].return_code = io[q].return_code
      BY <2>1 DEF ASYNCH_IO
    <2>5. \A q \in Requests : q = r \/ Storing(q) => Storing(q)'
      BY <2>2, <2>3 DEF Storing
    <2>6. StoringHasCpu'
      BY <1>2, <2>2, <2>3 DEF StoringHasCpu
    <2>7. CodeStored'
      BY <2>1, <2>2, <2>4, <2>5 DEF ReportInv, CodeStored
    <2>8. QED
      BY <1>3, <2>6, <2>7 DEF ReportInv
  <1>5. CASE RefuseIo(d)
    <2>1. PICK r \in list[d] :
            /\ io' = [io EXCEPT ![r].return_code = FALSE, ![r].ccode = "io_error",
                                ![r].retry = WantsRetry(r, "io_error")]
            /\ CallbackRoutine(r, "io_error")
            /\ faulted' = faulted \cup {r}
            /\ worker' = [worker EXCEPT ![d] = [pc |-> "post", io |-> r]]
      BY <1>5 DEF RefuseIo
    <2>2. worker[d].pc = "next" /\ flying' = flying
      BY <1>5 DEF RefuseIo
    <2>3. \A e \in Bins : worker'[e] = IF e = d THEN [pc |-> "post", io |-> r] ELSE worker[e]
      BY <2>1
    <2>4. \A e \in Bins : worker'[e].pc # "store"
      BY <1>2, <2>3
    <2>5. \A q \in Requests : q # r => io'[q] = io[q] /\ semaphore'[q] = semaphore[q]
      BY <2>1 DEF CallbackRoutine
    <2>6. \A q \in Requests : ~Storing(q)
      BY <1>2, <2>2 DEF Storing
    <2>7. StoringHasCpu'
      BY <2>4 DEF StoringHasCpu
    <2>8. CodeStored'
      BY <2>1, <2>2, <2>5, <2>6 DEF ReportInv, CodeStored
    <2>9. QED
      BY <1>3, <2>7, <2>8 DEF ReportInv
  <1>6. CASE StoreReturnCode(d)
    <2>1. /\ io' = [io EXCEPT ![worker[d].io] = Stored(@)]
          /\ Worker(d, "post") /\ UNCHANGED <<flying, semaphore, faulted>>
          /\ worker[d].pc = "store" /\ worker[d].io \in Requests
      BY <1>6 DEF StoreReturnCode, queueVars, TypeInv
    <2>2. \A q \in Requests : Storing(q) => q = worker[d].io
      BY <1>2 DEF Storing
    <2>3. \A q \in Requests : io[q].return_code \/ Storing(q) => io'[q].return_code
      BY <2>1, <2>2 DEF Stored, ASYNCH_IO
    <2>4. \A e \in Bins : worker'[e].pc # "store"
      BY <1>2, <2>1, WorkerMoves
    <2>5. QED
      BY <1>3, <2>1, <2>3, <2>4 DEF ReportInv, StoringHasCpu, CodeStored
  <1>7. CASE PostSignature(d)
    <2>1. /\ io' = [io EXCEPT ![worker[d].io].signature = "aio_post"]
          /\ worker' = [worker EXCEPT ![d] = [pc |-> "next", io |-> NoRequest]]
          /\ worker[d].pc = "post" /\ UNCHANGED <<flying, semaphore, faulted>>
      BY <1>7 DEF PostSignature, queueVars
    <2>2. \A q \in Requests : io'[q].return_code = io[q].return_code
      BY <2>1 DEF ASYNCH_IO
    <2>3. \A e \in Bins : worker[e].pc # "store" /\ worker'[e].pc # "store"
      BY <1>2, <2>1
    <2>4. QED
      BY <1>3, <2>1, <2>2, <2>3 DEF ReportInv, StoringHasCpu, CodeStored, Storing
  <1>8. CASE \/ WorkerTop(d) \/ WorkerWakes(d) \/ WorkerTest(d) \/ TakeQueue(d)
             \/ EndOfList(d) \/ ClearActive(d) \/ ClearSignal(d)
    <2>1. UNCHANGED <<io, flying, semaphore, faulted>>
      BY <1>8 DEF WorkerTop, WorkerWakes, WorkerTest, TakeQueue, EndOfList,
                  ClearActive, ClearSignal, queueVars
    <2>2. worker[d].pc # "store"
      BY <1>8 DEF WorkerTop, WorkerWakes, Signalled, WorkerTest, TakeQueue,
                  EndOfList, ClearActive, ClearSignal
    <2>3. PICK l \in WorkerPcs \ {"store"} : Worker(d, l)
      BY <1>8 DEF WorkerTop, WorkerWakes, WorkerTest, TakeQueue, EndOfList,
                  ClearActive, ClearSignal, WorkerPcs
    <2>4. \A e \in Bins : worker[e].pc # "store" /\ worker'[e].pc # "store"
      BY <1>2, <2>2, <2>3, WorkerMoves
    <2>5. QED
      BY <1>3, <2>1, <2>4 DEF ReportInv, StoringHasCpu, CodeStored, Storing
  <1>9. QED
    BY <1>4, <1>5, <1>6, <1>7, <1>8 DEF Process

LEMMA ReportCallback ==
  ASSUME ~SMP, TypeInv, ReportInv, ProcessCallback
  PROVE  ReportInv'
  <1> USE ReportTypes
  <1>1. Run(Callback)
    BY DEF ProcessCallback, CallbackWakes, GetCallback, RetryDone
  <1>2. \A d \in Bins : worker[d].pc # "store"
    BY <1>1, NobodyStores, ConstantFacts, ThreadAssumption
  <1>3. UNCHANGED <<flying, semaphore, faulted, result, worker>>
    BY DEF ProcessCallback, CallbackWakes, GetCallback, RetryDone, queueVars, callerVars
  <1>4. \A q \in Requests : io'[q].return_code = io[q].return_code
    <2>1. CASE CallbackWakes
      BY <2>1 DEF CallbackWakes
    <2>2. CASE GetCallback
      <3>1. io' = io \/ \E r : io' = [io EXCEPT ![r].ccode = "bad_signature"]
        BY <2>2 DEF GetCallback
      <3>2. QED
        BY <3>1 DEF ASYNCH_IO
    <2>3. CASE RetryDone
      <3>1. io' = [io EXCEPT ![cb.io].signature = "completed"]
        BY <2>3 DEF RetryDone
      <3>2. QED
        BY <3>1 DEF ASYNCH_IO
    <2>4. QED
      BY <2>1, <2>2, <2>3 DEF ProcessCallback
  <1>5. QED
    BY <1>2, <1>3, <1>4
       DEF ReportInv, StoringHasCpu, CodeStored, SuccessReported, Storing

LEMMA ReportNext ==
  ASSUME ~SMP
  PROVE  TypeInv /\ PlaceInv /\ WaitInv /\ ReportInv /\ [Next]_vars => ReportInv'
  <1> SUFFICES ASSUME TypeInv, PlaceInv, WaitInv, ReportInv, [Next]_vars
               PROVE  ReportInv'
    OBVIOUS
  <1>1. CASE UNCHANGED vars
    BY <1>1 DEF vars, queueVars, callerVars, ReportInv, StoringHasCpu, CodeStored,
                SuccessReported, Storing
  <1>2. QED
    BY <1>1, ReportSubmitters, ReportCompletion, ReportWorkers, ReportCallback DEF Next

\* With one processor, a read or write that the disk carried out is reported as
\* done: ReadDiskSectors never sees the return code of process_asynch_io before
\* it is stored.  With several processors it may: see the README.
THEOREM OneCpuReportsSuccess ==
  ASSUME ~SMP
  PROVE  Spec => []SuccessReported
  <1>1. ReportInv => SuccessReported
    BY DEF ReportInv
  <1>2. QED
    BY <1>1, TypeInit, TypeNext, PlaceInit, PlaceNext, WaitInit, WaitNext,
       ReportInit, ReportNext, PTL DEF Spec
=============================================================================

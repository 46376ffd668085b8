------------------------------ MODULE AsyncIO ------------------------------
(***************************************************************************)
(* The asynchronous disk I/O manager (async.c), with its worker and        *)
(* callback threads (nwvfs.c) and the two ends that use it in block.c: the *)
(* calls that wait for their request (ReadDiskSectors, WriteDiskSectors)   *)
(* and the completion interrupt (end_asynch_io).                           *)
(*                                                                         *)
(* One request stands for the thread that submits it as well.  The order   *)
(* of a queue is left to module AioElevator: here it is a set.  The        *)
(* constant SMP chooses between a machine with several processors, where   *)
(* all threads interleave, and one with a single processor, where a thread *)
(* in the kernel runs until it blocks and only interrupts come between.    *)
(***************************************************************************)
EXTENDS Naturals, Sequences, FiniteSets

CONSTANTS
  WaitRequests,   \* requests on the stack of a thread that waits for them
  AheadRequests,  \* requests of read ahead buffers: nobody waits for them
  Bins,           \* the queues; disk i uses queue i % 8
  Bin,            \* the queue of every request
  Callback,       \* the nwfs-callback thread
  NoThread, NoRequest,
  SMP,            \* more than one processor?
  MaxSubmits,     \* bound: submissions over all threads
  Errors,         \* may the disk fail?
  Refusals        \* may aReadDiskSectors refuse a request (misaligned, no memory)?

Requests == WaitRequests \cup AheadRequests
Threads == Requests \cup Bins \cup {Callback}

ASSUME KindAssumption == WaitRequests \cap AheadRequests = {}
ASSUME BinAssumption == Bin \in [Requests -> Bins]
ASSUME ThreadAssumption ==
  /\ Requests \cap Bins = {} /\ Callback \notin Requests \cup Bins
  /\ NoThread \notin Threads /\ NoRequest \notin Requests
ASSUME SwitchAssumption ==
  SMP \in BOOLEAN /\ Errors \in BOOLEAN /\ Refusals \in BOOLEAN
ASSUME SubmitsAssumption == MaxSubmits \in Nat

Signatures == {"zero", "submit", "aio_post", "callback_post", "completed"}
Ccodes == {"ok", "io_error", "bad_signature"}
\* The ASYNCH_IO: return_code abstracts a byte count to "not zero", and retry
\* is TRUE when the callback has replaced itself by its retry routine.
ASYNCH_IO == [signature : Signatures, ccode : Ccodes, return_code : BOOLEAN,
              retry : BOOLEAN]

VARIABLES
  io,                  \* the requests
  disk_io_head,        \* queue of every bin
  list,                \* the queue a worker has taken and works through
  flying,              \* requests that are at the disk
  io_callback,         \* io_callback_head: requests for the callback thread
  callback_semaphore,
  asynch_signal, asynch_active, sem_table,   \* of every bin
  worker,              \* position and current request of every worker
  cb,                  \* position and current request of the callback thread
  pc,                  \* position of the threads that submit
  semaphore,           \* raw_semaphore: what the waiting threads wait for
  result,              \* what the last ReadDiskSectors of a thread returned
  busy,                \* history: submitted, and not completed
  faulted,             \* history: the disk failed the request
  submits,
  cpu                  \* the thread that has the processor, when there is one

queueVars == <<disk_io_head, list, flying, io_callback, callback_semaphore>>
signalVars == <<asynch_signal, asynch_active, sem_table>>
callerVars == <<pc, result, submits>>
vars == <<io, queueVars, signalVars, worker, cb, callerVars, semaphore, busy,
          faulted, cpu>>

-----------------------------------------------------------------------------
WorkerPcs == {"top", "down", "test", "loop", "next", "store", "post",
              "inactive", "unsignal"}
CallerPcs == {"idle", "run", "signal", "wait"}

Init ==
  /\ io = [r \in Requests |-> [signature |-> "zero", ccode |-> "ok",
                               return_code |-> FALSE, retry |-> FALSE]]
  /\ disk_io_head = [d \in Bins |-> {}]
  /\ list = [d \in Bins |-> {}]
  /\ flying = {}
  /\ io_callback = <<>>
  /\ callback_semaphore = 0
  /\ asynch_signal = [d \in Bins |-> FALSE]
  /\ asynch_active = [d \in Bins |-> FALSE]
  /\ sem_table = [d \in Bins |-> 0]
  /\ worker = [d \in Bins |-> [pc |-> "top", io |-> NoRequest]]
  /\ cb = [pc |-> "down", io |-> NoRequest]
  /\ pc = [r \in Requests |-> "idle"]
  /\ semaphore = [r \in Requests |-> 0]
  /\ result = [r \in Requests |-> "none"]
  /\ busy = {}
  /\ faulted = {}
  /\ submits = 0
  /\ cpu = NoThread

\* Thread t takes a step; with one processor it keeps it unless it may block.
Run(t) == SMP \/ cpu \in {NoThread, t}
KeepsCpu(t) == cpu' = IF SMP THEN NoThread ELSE t
MayBlock == cpu' = NoThread

-----------------------------------------------------------------------------
(* The threads that submit requests                                        *)

\* The request is zeroed and initialised, and insert_io queues it.
InsertIo(r) ==
  /\ pc[r] = "idle" /\ r \notin busy /\ submits < MaxSubmits /\ Run(r)
  /\ submits' = submits + 1
  /\ io' = [io EXCEPT ![r] = [signature |-> "submit", ccode |-> "ok",
                              return_code |-> FALSE, retry |-> FALSE]]
  /\ disk_io_head' = [disk_io_head EXCEPT ![Bin[r]] = @ \cup {r}]
  /\ pc' = [pc EXCEPT ![r] = "run"]
  /\ result' = [result EXCEPT ![r] = "none"]
  /\ busy' = busy \cup {r}
  /\ faulted' = faulted \ {r}
  /\ KeepsCpu(r)
  /\ UNCHANGED <<list, flying, io_callback, callback_semaphore, signalVars,
                 worker, cb, semaphore>>

Submitted(r) == IF r \in WaitRequests THEN "wait" ELSE "idle"

\* Mutant: the worker is signalled only when its queue was empty before.
MustSignalFirst(r) ==
  ~asynch_signal[Bin[r]] /\ ~asynch_active[Bin[r]] /\ disk_io_head[Bin[r]] = {r}
\* RunAsynchIOQueue tests asynch_signal and asynch_active without a lock ...
MustSignal(r) == ~asynch_signal[Bin[r]] /\ ~asynch_active[Bin[r]]
TestSignal(r) ==
  /\ pc[r] = "run" /\ Run(r)
  /\ pc' = [pc EXCEPT ![r] = IF MustSignal(r) THEN "signal" ELSE Submitted(r)]
  /\ IF MustSignal(r) THEN KeepsCpu(r) ELSE MayBlock
  /\ UNCHANGED <<io, queueVars, signalVars, worker, cb, result, submits,
                 semaphore, busy, faulted>>

\* ... and then signals the worker.
SignalWorker(r) ==
  /\ pc[r] = "signal" /\ Run(r)
  /\ asynch_signal' = [asynch_signal EXCEPT ![Bin[r]] = TRUE]
  /\ sem_table' = [sem_table EXCEPT ![Bin[r]] = @ + 1]
  /\ pc' = [pc EXCEPT ![r] = Submitted(r)]
  /\ MayBlock
  /\ UNCHANGED <<io, queueVars, asynch_active, worker, cb, result, submits,
                 semaphore, busy, faulted>>

\* ReadDiskSectors returns the number of bytes, zero for an error.
Answer(r) == IF io[r].return_code THEN "done" ELSE "zero"
ReadDiskSectors(r) ==
  /\ pc[r] = "wait" /\ semaphore[r] > 0 /\ Run(r)
  /\ semaphore' = [semaphore EXCEPT ![r] = @ - 1]
  /\ result' = [result EXCEPT ![r] = Answer(r)]
  /\ pc' = [pc EXCEPT ![r] = "idle"]
  /\ MayBlock
  /\ UNCHANGED <<io, queueVars, signalVars, worker, cb, submits, busy, faulted>>

-----------------------------------------------------------------------------
(* Completion.  The callback of a request that is waited for signals the    *)
(* semaphore; the one of a read ahead finishes the buffer, or asks for a    *)
(* retry by returning 1 when the request failed.                            *)

\* Mutant: every request that failed is retried.
WantsRetryAll(r, ccode) == ccode # "ok"
WantsRetry(r, ccode) == r \in AheadRequests /\ ccode # "ok"

\* Mutant: the owner of the request may use it again while it is to be retried.
FinishedEarly(r, ccode) == TRUE
Finished(r, ccode) == ~WantsRetry(r, ccode)

\* What the callback routine does, called with this ccode
CallbackRoutine(r, ccode) ==
  /\ semaphore' = IF r \in WaitRequests THEN [semaphore EXCEPT ![r] = @ + 1]
                  ELSE semaphore
  /\ busy' = IF Finished(r, ccode) THEN busy \ {r} ELSE busy

\* end_asynch_io for the last buffer of the request, and insert_callback: a
\* request whose callback returns 1 goes to the callback thread.
EndAsynchIo(r) ==
  \E ccode \in {"ok"} \cup (IF Errors THEN {"io_error"} ELSE {}) :
    /\ r \in flying
    /\ flying' = flying \ {r}
    /\ faulted' = IF ccode = "ok" THEN faulted ELSE faulted \cup {r}
    /\ CallbackRoutine(r, ccode)
    /\ io' = [io EXCEPT ![r].ccode = ccode,
                        ![r].retry = WantsRetry(r, ccode),
                        ![r].signature = IF WantsRetry(r, ccode)
                                         THEN "callback_post" ELSE "completed"]
    /\ io_callback' = IF WantsRetry(r, ccode) THEN Append(io_callback, r)
                      ELSE io_callback
    /\ callback_semaphore' = IF WantsRetry(r, ccode)
                             THEN callback_semaphore + 1 ELSE callback_semaphore
    /\ UNCHANGED <<disk_io_head, list, signalVars, worker, cb, callerVars, cpu>>

-----------------------------------------------------------------------------
(* nwfs-async: a worker thread, with process_asynch_io                     *)

Worker(d, l) == worker' = [worker EXCEPT ![d].pc = l]

\* The worker sleeps when it sees nothing queued (asynch_io_pending).
Sleeps(d) == disk_io_head[d] = {}
WorkerTop(d) ==
  /\ worker[d].pc = "top" /\ Run(d)
  /\ Worker(d, IF Sleeps(d) THEN "down" ELSE "test")
  /\ IF Sleeps(d) THEN MayBlock ELSE KeepsCpu(d)
  /\ UNCHANGED <<io, queueVars, signalVars, cb, callerVars, semaphore, busy,
                 faulted>>

\* Mutant: something else wakes the worker.
Awake(d) == worker[d].pc = "down"
\* The semaphore of the worker has a signal for it.
Signalled(d) == worker[d].pc = "down" /\ sem_table[d] > 0
WorkerWakes(d) ==
  /\ Signalled(d) /\ Run(d)
  /\ sem_table' = [sem_table EXCEPT ![d] = @ - 1]
  /\ Worker(d, "test")
  /\ KeepsCpu(d)
  /\ UNCHANGED <<io, queueVars, asynch_signal, asynch_active, cb, callerVars,
                 semaphore, busy, faulted>>

\* Without asynch_signal there is nothing to do, whatever is queued.
WorkerTest(d) ==
  /\ worker[d].pc = "test" /\ Run(d)
  /\ Worker(d, IF asynch_signal[d] THEN "loop" ELSE "top")
  /\ asynch_active' = [asynch_active EXCEPT ![d] = asynch_signal[d]]
  /\ KeepsCpu(d)
  /\ UNCHANGED <<io, queueVars, asynch_signal, sem_table, cb, callerVars,
                 semaphore, busy, faulted>>

\* The whole queue is taken, until there is none.
TakeQueue(d) ==
  /\ worker[d].pc = "loop" /\ Run(d)
  /\ list' = [list EXCEPT ![d] = disk_io_head[d]]
  /\ disk_io_head' = [disk_io_head EXCEPT ![d] = {}]
  /\ Worker(d, IF disk_io_head[d] = {} THEN "inactive" ELSE "next")
  /\ IF disk_io_head[d] = {} THEN KeepsCpu(d) ELSE MayBlock
  /\ UNCHANGED <<io, flying, io_callback, callback_semaphore, signalVars, cb,
                 callerVars, semaphore, busy, faulted>>

\* aReadDiskSectors or aWriteDiskSectors, which may wait for buffer heads,
\* hands the request to the disk.
SubmitIo(d) ==
  /\ worker[d].pc = "next" /\ Run(d)
  /\ \E r \in list[d] :
       /\ list' = [list EXCEPT ![d] = @ \ {r}]
       /\ flying' = flying \cup {r}
       /\ io' = [io EXCEPT ![r].ccode = "ok"]
       /\ worker' = [worker EXCEPT ![d] = [pc |-> "store", io |-> r]]
  /\ KeepsCpu(d)
  /\ UNCHANGED <<disk_io_head, io_callback, callback_semaphore, signalVars, cb,
                 callerVars, semaphore, busy, faulted>>

\* Or it refuses the request: the worker calls the callback routine itself and
\* ignores what it returns.
RefuseIo(d) ==
  /\ worker[d].pc = "next" /\ Run(d) /\ Refusals
  /\ \E r \in list[d] :
       /\ list' = [list EXCEPT ![d] = @ \ {r}]
       /\ io' = [io EXCEPT ![r].return_code = FALSE, ![r].ccode = "io_error",
                           ![r].retry = WantsRetry(r, "io_error")]
       /\ CallbackRoutine(r, "io_error")
       /\ faulted' = faulted \cup {r}
       /\ worker' = [worker EXCEPT ![d] = [pc |-> "post", io |-> r]]
  /\ KeepsCpu(d)
  /\ UNCHANGED <<disk_io_head, flying, io_callback, callback_semaphore,
                 signalVars, cb, callerVars>>

\* Mutant: the return code is left as it was.
StoredNot(request) == request
\* What aReadDiskSectors returned
Stored(request) == [request EXCEPT !.return_code = TRUE]
\* The worker stores what aReadDiskSectors returned, and then the signature:
\* by then the request may be complete.
StoreReturnCode(d) ==
  /\ worker[d].pc = "store" /\ Run(d)
  /\ io' = [io EXCEPT ![worker[d].io] = Stored(@)]
  /\ Worker(d, "post")
  /\ KeepsCpu(d)
  /\ UNCHANGED <<queueVars, signalVars, cb, callerVars, semaphore, busy, faulted>>

PostSignature(d) ==
  /\ worker[d].pc = "post" /\ Run(d)
  /\ io' = [io EXCEPT ![worker[d].io].signature = "aio_post"]
  /\ worker' = [worker EXCEPT ![d] = [pc |-> "next", io |-> NoRequest]]
  /\ MayBlock
  /\ UNCHANGED <<queueVars, signalVars, cb, callerVars, semaphore, busy, faulted>>

\* The end of the list: the disk queue is run, which may block.
EndOfList(d) ==
  /\ worker[d].pc = "next" /\ list[d] = {} /\ Run(d)
  /\ Worker(d, "loop")
  /\ MayBlock
  /\ UNCHANGED <<io, queueVars, signalVars, cb, callerVars, semaphore, busy,
                 faulted>>

\* Back in the thread: asynch_active is cleared, and then asynch_signal.
ClearActive(d) ==
  /\ worker[d].pc = "inactive" /\ Run(d)
  /\ asynch_active' = [asynch_active EXCEPT ![d] = FALSE]
  /\ Worker(d, "unsignal")
  /\ KeepsCpu(d)
  /\ UNCHANGED <<io, queueVars, asynch_signal, sem_table, cb, callerVars,
                 semaphore, busy, faulted>>

\* Mutant: the worker forgets to clear its signal.
SignalKept(d) == asynch_signal
SignalCleared(d) == [asynch_signal EXCEPT ![d] = FALSE]
ClearSignal(d) ==
  /\ worker[d].pc = "unsignal" /\ Run(d)
  /\ asynch_signal' = SignalCleared(d)
  /\ Worker(d, "top")
  /\ KeepsCpu(d)
  /\ UNCHANGED <<io, queueVars, asynch_active, sem_table, cb, callerVars,
                 semaphore, busy, faulted>>

-----------------------------------------------------------------------------
(* nwfs-callback, with process_callback                                    *)

CallbackWakes ==
  /\ cb.pc = "down" /\ callback_semaphore > 0 /\ Run(Callback)
  /\ callback_semaphore' = callback_semaphore - 1
  /\ cb' = [cb EXCEPT !.pc = "get"]
  /\ KeepsCpu(Callback)
  /\ UNCHANGED <<io, disk_io_head, list, flying, io_callback, signalVars, worker,
                 callerVars, semaphore, busy, faulted>>

\* get_callback; a request without its signature is marked before it is run.
GetCallback ==
  /\ cb.pc = "get" /\ Run(Callback)
  /\ IF io_callback = <<>>
     THEN /\ cb' = [pc |-> "down", io |-> NoRequest]
          /\ UNCHANGED <<io, io_callback>>
     ELSE LET r == Head(io_callback)
          IN /\ io_callback' = Tail(io_callback)
             /\ cb' = [pc |-> "retry", io |-> r]
             /\ io' = IF io[r].signature = "callback_post" THEN io
                      ELSE [io EXCEPT ![r].ccode = "bad_signature"]
  /\ MayBlock
  /\ UNCHANGED <<disk_io_head, list, flying, callback_semaphore, signalVars,
                 worker, callerVars, semaphore, busy, faulted>>

\* The retry routine, a synchronous read through nwvp, is over.
RetryDone ==
  /\ cb.pc = "retry" /\ Run(Callback)
  /\ io' = [io EXCEPT ![cb.io].signature = "completed"]
  /\ busy' = busy \ {cb.io}
  /\ cb' = [pc |-> "get", io |-> NoRequest]
  /\ KeepsCpu(Callback)
  /\ UNCHANGED <<queueVars, signalVars, worker, callerVars, semaphore, faulted>>

-----------------------------------------------------------------------------
Caller(r) == TestSignal(r) \/ SignalWorker(r) \/ ReadDiskSectors(r)
Process(d) ==
  \/ WorkerTop(d) \/ WorkerWakes(d) \/ WorkerTest(d) \/ TakeQueue(d)
  \/ SubmitIo(d) \/ RefuseIo(d) \/ StoreReturnCode(d) \/ PostSignature(d)
  \/ EndOfList(d) \/ ClearActive(d) \/ ClearSignal(d)
ProcessCallback == CallbackWakes \/ GetCallback \/ RetryDone

\* The system may be at rest: all requests served, all threads asleep.
Next ==
  \/ \E r \in Requests : InsertIo(r) \/ Caller(r) \/ EndAsynchIo(r)
  \/ \E d \in Bins : Process(d)
  \/ ProcessCallback

Spec == Init /\ [][Next]_vars

\* Every thread that can run gets to run, and the disks serve every request;
\* nobody has to submit one.
Fairness ==
  /\ \A r \in Requests : WF_vars(Caller(r)) /\ WF_vars(EndAsynchIo(r))
  /\ \A d \in Bins : WF_vars(Process(d))
  /\ WF_vars(ProcessCallback)
FairSpec == Spec /\ Fairness

-----------------------------------------------------------------------------
(* Properties                                                              *)

TypeOK ==
  /\ io \in [Requests -> ASYNCH_IO]
  /\ disk_io_head \in [Bins -> SUBSET Requests]
  /\ list \in [Bins -> SUBSET Requests]
  /\ flying \subseteq Requests
  /\ io_callback \in Seq(Requests)
  /\ callback_semaphore \in Nat
  /\ asynch_signal \in [Bins -> BOOLEAN]
  /\ asynch_active \in [Bins -> BOOLEAN]
  /\ sem_table \in [Bins -> Nat]
  /\ worker \in [Bins -> [pc : WorkerPcs, io : Requests \cup {NoRequest}]]
  /\ cb \in [pc : {"down", "get", "retry"}, io : Requests \cup {NoRequest}]
  /\ pc \in [Requests -> CallerPcs]
  /\ semaphore \in [Requests -> Nat]
  /\ result \in [Requests -> {"none", "done", "zero"}]
  /\ busy \subseteq Requests
  /\ faulted \subseteq Requests
  /\ submits \in 0..MaxSubmits
  /\ cpu \in Threads \cup {NoThread}

\* Where a request is: its next and prior pointers serve all of these lists.
Places(r) ==
  Cardinality({d \in Bins : r \in disk_io_head[d]})
  + Cardinality({d \in Bins : r \in list[d]})
  + (IF r \in flying THEN 1 ELSE 0)
  + Cardinality({n \in DOMAIN io_callback : io_callback[n] = r})
  + (IF cb.io = r THEN 1 ELSE 0)

\* A request is never on two lists, nor twice on one, from insert_io over the
\* worker and the disk to the callback thread.
OnOneList == \A r \in Requests : Places(r) <= 1

\* A completion is signalled once, and only to a thread that still waits: the
\* semaphore is on its stack (release_aio).
SignalsFindWaiter ==
  \A r \in WaitRequests :
    /\ semaphore[r] <= 1
    /\ semaphore[r] + (IF r \in busy THEN 1 ELSE 0)
         = (IF pc[r] = "idle" THEN 0 ELSE 1)

\* No worker sleeps on a queue that nobody is about to signal.
NoSleepOnWork ==
  \A d \in Bins :
    worker[d].pc = "down" /\ sem_table[d] = 0 /\ disk_io_head[d] # {} =>
      \E r \in Requests : Bin[r] = d /\ pc[r] \in {"run", "signal"}

\* A read or write that the disk carried out is reported as done.
SuccessReported ==
  \A r \in WaitRequests : result[r] = "zero" => r \in faulted

\* Not so, see the README: a read or write that failed is reported as failed,
\* so that nwvp.c can turn to another mirror or to the hotfix area.
ErrorsReported ==
  \A r \in WaitRequests : result[r] = "done" => r \notin faulted

\* Every request completes: its waiter returns, or its buffer is finished.
RequestsComplete == \A r \in Requests : r \in busy ~> r \notin busy
=============================================================================

------------------------------ MODULE MpDecrypt ------------------------------
(***************************************************************************)
(* The multiprocessor decryption engine of the MFTAH UEFI loader:          *)
(*   - SpawnDecryptionWorker and the worker body `work` (util.c),          *)
(*   - UefiSpin, the bootstrap processor's spin-wait coordinator (util.c), *)
(*   - CreateThread / StartThread / FinishThread and the IsWorking bits of *)
(*     the processor registry (threading.c).                               *)
(* The MFTAH library's `decrypt` (not part of this repository) calls       *)
(* SpawnDecryptionWorker once per work order and then UefiSpin with the    *)
(* number of queued bytes; that driver is modelled from the spec.          *)
(*                                                                         *)
(* Actors: the bootstrap processor (BSP), which dispatches, then spins,   *)
(* and every application processor (AP), which runs `work` for the       *)
(* thread StartupThisAP handed to it.  Lengths are counted in cipher     *)
(* chunks: one AP step decrypts one chunk and reports it through          *)
(* SaveThreadProgress.                                                      *)
(***************************************************************************)
EXTENDS Naturals, Sequences, Functions

CONSTANTS
    NumProcs,          \* mSystemMultiprocessingContext.MpCount
    BspNumber,         \* mSystemMultiprocessingContext.BspProcessorNumber
    MaxThreadCount,    \* MFTAH_MAX_THREAD_COUNT: size of the Threads[] table
    WorkOrders,        \* the library's work orders, in the order it issues them
    ThreadingModes,    \* the values IsThreadingEnabled() may return
    CryptFaults        \* whether the crypt hook may fail on an AP

Procs == 0 .. (NumProcs - 1)
Slots == 0 .. (MaxThreadCount - 1)
Orders == 1 .. Len(WorkOrders)
NoContext == 0         \* Threads[i].Context == NULL

ASSUME /\ NumProcs \in Nat \ {0}
       /\ BspNumber \in Procs
       /\ MaxThreadCount \in Nat \ {0}
       /\ WorkOrders \in Seq([thread_index : Slots, length : Nat,
                               suppress_progress : BOOLEAN])
       /\ ThreadingModes \subseteq BOOLEAN /\ ThreadingModes # {}
       /\ CryptFaults \in BOOLEAN

VARIABLES
    bsp,           \* where the BSP is: dispatch, spin, scan, mark, poll, done, panic
    order,         \* next work order the library hands to SpawnDecryptionWorker
    slot,          \* UefiSpin's loop index i over Threads[]
    cand,          \* StartThread's loop index i over the processor list
    Completed,     \* UefiSpin local
    Progress,      \* UefiSpin local
    Printed,       \* percentage last shown by PrintProgress
    IsWorking,     \* mSystemMultiprocessingContext.MpList[i].IsWorking
    Threads,       \* the global MFTAH_THREAD table
    CurrentPlace,  \* DECRYPT_THREAD_CTX.CurrentPlace, one context per order
    Decrypted,     \* chunks of each order's range actually decrypted
    ap,            \* each processor's execution of `work`
    failed,        \* orders whose crypt hook returned an error on an AP
    ThreadingEnabled  \* IsThreadingEnabled(), fixed before the library is called

vars == <<bsp, order, slot, cand, Completed, Progress, Printed,
          IsWorking, Threads, CurrentPlace, Decrypted, ap, failed,
          ThreadingEnabled>>

Length(k) == WorkOrders[k].length

\* The bytes the library queues and passes to UefiSpin as *QueuedBytes.
QueuedBytes == SumFunctionOnSet([k \in Orders |-> Length(k)], Orders)

(* PrintProgress: MIN(100, (int)(100 * cur / out_of)); no output for 0.   *)
PercentDone(cur, outOf) ==
    IF (100 * cur) \div outOf > 100 THEN 100 ELSE (100 * cur) \div outOf

(* SaveThreadProgress stores the crypt hook's `*cur` into CurrentPlace:    *)
(* the offset reached within the order's own range.                        *)
OrderOffset(k) == SumFunctionOnSet([i \in Orders |-> Length(i)], 1 .. (k - 1))
ReportedPlaceAbsolute(k, d) == OrderOffset(k) + d
ReportedPlace(k, d) == d

(* UefiSpin's first loop: progress is suppressed when the work order of   *)
(* any thread with a context asks for it.  Contexts do not change while   *)
(* UefiSpin runs, so the value is the one computed on entry.               *)
SuppressProgress ==
    \E t \in Slots : /\ Threads[t].Context # NoContext
                     /\ WorkOrders[Threads[t].Context].suppress_progress

(* StartThread skips the BSP and any processor marked IsWorking.           *)
UnavailableInverted(i) == i = BspNumber \/ ~IsWorking[i]
Unavailable(i) == i = BspNumber \/ IsWorking[i]

(* UefiSpin adds each thread's CurrentPlace to Progress.                   *)
ThreadProgressActiveOnly(thr) ==
    IF thr.Finished THEN 0 ELSE CurrentPlace[thr.Context]
ThreadProgress(thr) == CurrentPlace[thr.Context]

ThreadRec == [Started : BOOLEAN, Finished : BOOLEAN,
              AssignedProcessorNumber : Procs, Context : {NoContext} \cup Orders]
ApRec == [pc : {"idle", "work", "finish", "exit", "panic"}, thread : Slots,
          ctx : {NoContext} \cup Orders, procNumber : Procs]

Init ==
    /\ bsp = "dispatch"
    /\ order = 1
    /\ slot = 0
    /\ cand = 0
    /\ Completed = TRUE
    /\ Progress = 0
    /\ Printed = 0
    /\ IsWorking = [p \in Procs |-> FALSE]
    \* Threads[] is a zero-initialised global.
    /\ Threads = [t \in Slots |-> [Started |-> FALSE, Finished |-> FALSE,
                                   AssignedProcessorNumber |-> 0,
                                   Context |-> NoContext]]
    /\ CurrentPlace = [k \in Orders |-> 0]
    /\ Decrypted = [k \in Orders |-> 0]
    /\ ap = [p \in Procs |-> [pc |-> "idle", thread |-> 0,
                              ctx |-> NoContext, procNumber |-> 0]]
    /\ failed = {}
    /\ ThreadingEnabled \in ThreadingModes

-----------------------------------------------------------------------------
(* SpawnDecryptionWorker(WorkOrders[order]), called by the library.        *)
(* A zero-length order returns at once.  Without threading the order is   *)
(* decrypted synchronously on the BSP.  With threading, an index whose    *)
(* thread is started and unfinished is refused (MFTAH_THREAD_BUSY);       *)
(* otherwise CreateThread overwrites Threads[index] with a new, unstarted *)
(* thread whose context is a fresh copy of the order (CurrentPlace = 0).  *)
(* The thread is not started here: UefiSpin starts it.                    *)
SpawnDecryptionWorker ==
    LET wo == WorkOrders[order]
        t  == wo.thread_index
    IN
    /\ bsp = "dispatch"
    /\ order \in Orders
    /\ order' = order + 1
    /\ CASE wo.length = 0 ->
              UNCHANGED <<Threads, CurrentPlace, Decrypted>>
         [] wo.length # 0 /\ ~ThreadingEnabled ->
              /\ Decrypted' = [Decrypted EXCEPT ![order] = wo.length]
              /\ UNCHANGED <<Threads, CurrentPlace>>
         [] wo.length # 0 /\ ThreadingEnabled
            /\ Threads[t].Started /\ ~Threads[t].Finished ->
              UNCHANGED <<Threads, CurrentPlace, Decrypted>>
         [] OTHER ->
              /\ Threads' = [Threads EXCEPT ![t] = [@ EXCEPT !.Started = FALSE,
                                 !.Finished = FALSE, !.Context = order]]
              /\ CurrentPlace' = [CurrentPlace EXCEPT ![order] = 0]
              /\ UNCHANGED Decrypted
    /\ UNCHANGED <<bsp, slot, cand, Completed, Progress, Printed, IsWorking, ap,
                   failed, ThreadingEnabled>>

(* The library calls UefiSpin(&QueuedBytes) after issuing every order.     *)
(* Without threading it returns at once; a total of 0 panics.             *)
UefiSpinEnter ==
    /\ bsp = "dispatch"
    /\ order \notin Orders
    /\ bsp' = CASE ~ThreadingEnabled -> "done"
                [] ThreadingEnabled /\ QueuedBytes = 0 -> "panic"
                [] OTHER             -> "spin"
    /\ slot' = 0
    /\ Completed' = TRUE
    /\ Progress' = 0
    /\ UNCHANGED <<order, cand, Printed, IsWorking, Threads, CurrentPlace,
                   Decrypted, ap, failed, ThreadingEnabled>>

(* The tail of one iteration of UefiSpin's for loop over Threads[]:        *)
(* Completed &= Threads[i].Finished; Progress += CurrentPlace; next i.     *)
AccumulateAndAdvance(thr) ==
    /\ Completed' = (Completed /\ thr.Finished)
    /\ Progress' = Progress + ThreadProgress(thr)
    /\ IF slot + 1 \in Slots
         THEN bsp' = "spin" /\ slot' = slot + 1
         ELSE bsp' = "poll" /\ UNCHANGED slot

(* One iteration of UefiSpin's for loop: skip a slot with no context;     *)
(* start a thread that is neither started nor finished (StartThread with  *)
(* Wait = FALSE, whose RefreshMPs leaves every IsWorking bit as it was);   *)
(* otherwise accumulate its state.                                         *)
SpinSlot ==
    LET thr == Threads[slot] IN
    /\ bsp = "spin"
    /\ CASE thr.Context = NoContext ->
              /\ IF slot + 1 \in Slots
                   THEN bsp' = "spin" /\ slot' = slot + 1
                   ELSE bsp' = "poll" /\ UNCHANGED slot
              /\ UNCHANGED <<Completed, Progress, cand>>
         [] thr.Context # NoContext /\ ~thr.Started /\ ~thr.Finished ->
              /\ bsp' = "scan"
              /\ cand' = 0
              /\ UNCHANGED <<slot, Completed, Progress>>
         [] OTHER ->
              /\ AccumulateAndAdvance(thr)
              /\ UNCHANGED cand
    /\ UNCHANGED <<order, Printed, IsWorking, Threads, CurrentPlace, Decrypted, ap, failed, ThreadingEnabled>>

(* One iteration of StartThread's scan of the processor list.  The BSP and *)
(* processors marked IsWorking are skipped.  For the first other one,      *)
(* StartupThisAP hands it the thread; the firmware refuses (EFI_NOT_READY) *)
(* a processor still running a procedure, and ERRCHECK_UEFI then returns   *)
(* from StartThread.  When the scan runs out, StartThread returns          *)
(* EFI_OUT_OF_RESOURCES; UefiSpin ignores both statuses.                    *)
StartThreadScan ==
    LET thr == Threads[slot] IN
    /\ bsp = "scan"
    /\ CASE cand \notin Procs ->
              /\ AccumulateAndAdvance(thr)
              /\ UNCHANGED <<cand, ap>>
         [] cand \in Procs /\ Unavailable(cand) ->
              /\ cand' = cand + 1
              /\ UNCHANGED <<bsp, slot, Completed, Progress, ap>>
         [] cand \in Procs /\ ~Unavailable(cand) /\ ap[cand].pc # "idle" ->
              /\ AccumulateAndAdvance(thr)
              /\ UNCHANGED <<cand, ap>>
         [] OTHER ->
              /\ ap' = [ap EXCEPT ![cand] = [pc |-> "work", thread |-> slot,
                                             ctx |-> thr.Context, procNumber |-> 0]]
              /\ bsp' = "mark"
              /\ UNCHANGED <<slot, cand, Completed, Progress>>
    /\ UNCHANGED <<order, Printed, IsWorking, Threads, CurrentPlace, Decrypted, failed, ThreadingEnabled>>

(* After StartupThisAP returns: IsWorking = TRUE under the lock, then      *)
(* Started = TRUE and AssignedProcessorNumber = i; back in UefiSpin the    *)
(* thread's state is accumulated.  The AP has been running since           *)
(* StartupThisAP, so it may already have finished.                         *)
StartThreadMark ==
    LET thr == [Threads[slot] EXCEPT !.Started = TRUE,
                                     !.AssignedProcessorNumber = cand] IN
    /\ bsp = "mark"
    /\ IsWorking' = [IsWorking EXCEPT ![cand] = TRUE]
    /\ Threads' = [Threads EXCEPT ![slot] = thr]
    /\ AccumulateAndAdvance(thr)
    /\ UNCHANGED <<order, cand, Printed, CurrentPlace, Decrypted, ap, failed, ThreadingEnabled>>

(* The end of one pass of UefiSpin's do-while: PrintProgress unless       *)
(* progress is suppressed, Stall, and the loop test                        *)
(* `while (!Completed && Progress < TotalProgress)`; on exit the final     *)
(* PrintProgress(TotalProgress, TotalProgress), again unless suppressed.   *)
SpinContinueOffByOne(completed, progress, total) ==
    ~completed /\ progress + 1 < total
SpinContinue(completed, progress, total) == ~completed /\ progress < total

UefiSpinPoll ==
    /\ bsp = "poll"
    /\ IF SpinContinue(Completed, Progress, QueuedBytes)
         THEN /\ Printed' = IF SuppressProgress THEN Printed
                                                ELSE PercentDone(Progress, QueuedBytes)
              /\ bsp' = "spin"
              /\ slot' = 0
              /\ Completed' = TRUE
              /\ Progress' = 0
         ELSE /\ Printed' = IF SuppressProgress THEN Printed
                                                ELSE PercentDone(QueuedBytes, QueuedBytes)
              /\ bsp' = "done"
              /\ UNCHANGED <<slot, Completed, Progress>>
    /\ UNCHANGED <<order, cand, IsWorking, Threads, CurrentPlace, Decrypted, ap, failed, ThreadingEnabled>>

-----------------------------------------------------------------------------
(* `work` on AP p: MFTAH_CRYPT_HOOK_DEFAULT decrypts the order's range in  *)
(* place, reporting each chunk through SaveThreadProgress into the         *)
(* context's CurrentPlace.  For an order with suppress_progress the        *)
(* progress hook is NULL (util.c:163-166) and nothing is reported.         *)
WorkDecryptChunk(p) ==
    LET k == ap[p].ctx IN
    /\ ap[p].pc = "work"
    /\ Decrypted[k] < Length(k)
    /\ Decrypted' = [Decrypted EXCEPT ![k] = @ + 1]
    /\ CurrentPlace' = IF WorkOrders[k].suppress_progress THEN CurrentPlace
                       ELSE [CurrentPlace EXCEPT ![k] = ReportedPlace(k, Decrypted[k] + 1)]
    /\ UNCHANGED <<bsp, order, slot, cand, Completed, Progress, Printed,
                   IsWorking, Threads, ap, failed, ThreadingEnabled>>

(* FinishThread(NULL, Context->Thread) on the AP: it returns at once if  *)
(* the thread is Finished, otherwise it reads AssignedProcessorNumber.     *)
FinishThreadEntered(a) ==
    IF Threads[a.thread].Finished
      THEN [a EXCEPT !.pc = "exit"]
      ELSE [a EXCEPT !.pc = "finish",
                     !.procNumber = Threads[a.thread].AssignedProcessorNumber]

(* `work` calls FinishThread once the crypt hook has returned success.    *)
FinishThreadEnter(p) ==
    LET k == ap[p].ctx IN
    /\ ap[p].pc = "work"
    /\ Decrypted[k] = Length(k)
    /\ ap' = [ap EXCEPT ![p] = FinishThreadEntered(@)]
    /\ UNCHANGED <<bsp, order, slot, cand, Completed, Progress, Printed,
                   IsWorking, Threads, CurrentPlace, Decrypted, failed,
                   ThreadingEnabled>>

(* `if (MFTAH_ERROR(Status)) PANIC(...)`: the AP prints and spins in      *)
(* `while (TRUE)`, so its procedure never returns.                         *)
PanicOnCryptErrorDropped == FALSE
PanicOnCryptError == TRUE

(* The crypt hook returns an error partway through the order's range:     *)
(* the chunk it was on is neither decrypted nor reported.  `work` then    *)
(* PANICs; the thread is never finished and the processor stays busy.     *)
(* Like a crash, this step has no fairness of its own.                     *)
WorkCryptFails(p) ==
    LET k == ap[p].ctx IN
    /\ CryptFaults
    /\ ap[p].pc = "work"
    /\ Decrypted[k] < Length(k)
    /\ failed' = failed \cup {k}
    /\ ap' = [ap EXCEPT ![p] = IF PanicOnCryptError
                                 THEN [@ EXCEPT !.pc = "panic"]
                                 ELSE FinishThreadEntered(@)]
    /\ UNCHANGED <<bsp, order, slot, cand, Completed, Progress, Printed,
                   IsWorking, Threads, CurrentPlace, Decrypted, ThreadingEnabled>>

(* FinishThread, continued: IsWorking[ProcNumber] = FALSE under the lock,  *)
(* Finished = TRUE, then RefreshMPs, whose GetProcessorInfo fails on an    *)
(* AP, so it returns EFI_ABORTED without touching the list.                *)
FinishThreadClear(p) ==
    /\ ap[p].pc = "finish"
    /\ IsWorking' = [IsWorking EXCEPT ![ap[p].procNumber] = FALSE]
    /\ Threads' = [Threads EXCEPT ![ap[p].thread].Finished = TRUE]
    /\ ap' = [ap EXCEPT ![p].pc = "exit"]
    /\ UNCHANGED <<bsp, order, slot, cand, Completed, Progress, Printed,
                   CurrentPlace, Decrypted, failed, ThreadingEnabled>>

(* `work` returns; the firmware signals CompletionEvent, whose notify      *)
(* function FinishThread finds the thread Finished and returns.            *)
WorkReturn(p) ==
    /\ ap[p].pc = "exit"
    /\ ap' = [ap EXCEPT ![p] = [pc |-> "idle", thread |-> 0,
                                ctx |-> NoContext, procNumber |-> 0]]
    /\ UNCHANGED <<bsp, order, slot, cand, Completed, Progress, Printed,
                   IsWorking, Threads, CurrentPlace, Decrypted, failed, ThreadingEnabled>>

-----------------------------------------------------------------------------
BspNext ==
    \/ SpawnDecryptionWorker
    \/ UefiSpinEnter
    \/ SpinSlot
    \/ StartThreadScan
    \/ StartThreadMark
    \/ UefiSpinPoll

ApNext(p) ==
    \/ WorkDecryptChunk(p)
    \/ FinishThreadEnter(p)
    \/ FinishThreadClear(p)
    \/ WorkReturn(p)

Next == BspNext \/ \E p \in Procs : ApNext(p) \/ WorkCryptFails(p)

(* The BSP runs the library call to completion and every AP runs the      *)
(* procedure it was handed: there is no scheduler to starve either.  A    *)
(* crypt failure is a fault, not a step anyone is obliged to take, so      *)
(* WorkCryptFails is outside the fairness conditions.                      *)
Fairness == WF_vars(BspNext) /\ \A p \in Procs : WF_vars(ApNext(p))

Spec == Init /\ [][Next]_vars
FairSpec == Spec /\ Fairness

-----------------------------------------------------------------------------
TypeOK ==
    /\ bsp \in {"dispatch", "spin", "scan", "mark", "poll", "done", "panic"}
    /\ order \in 1 .. (Len(WorkOrders) + 1)
    /\ slot \in Slots
    /\ cand \in 0 .. NumProcs
    /\ Completed \in BOOLEAN
    /\ Progress \in 0 .. QueuedBytes
    /\ Printed \in 0 .. 100
    /\ IsWorking \in [Procs -> BOOLEAN]
    /\ Threads \in [Slots -> ThreadRec]
    /\ CurrentPlace \in [Orders -> Nat]
    /\ Decrypted \in [Orders -> Nat]
    /\ ap \in [Procs -> ApRec]
    /\ failed \subseteq Orders
    /\ ThreadingEnabled \in BOOLEAN

(* The engine implements the job contract of DecryptJob: each non-empty   *)
(* order's range is decrypted once, and when the library's call to         *)
(* UefiSpin returns every range it queued has been decrypted (the loader   *)
(* reads the payload header from that buffer right after).                  *)
Job == INSTANCE DecryptJob WITH
    Jobs <- {k \in Orders : Length(k) > 0},
    phase <- CASE bsp = "dispatch" -> "issuing"
               [] bsp = "done"     -> "complete"
               [] OTHER            -> "awaiting",
    decrypted <- {k \in Orders : Length(k) > 0 /\ Decrypted[k] = Length(k)}

JobRefinement == Job!Spec

(* The percentage UefiSpin shows never goes down from one poll to the     *)
(* next, although it sums CurrentPlace values that the APs update while   *)
(* the BSP is reading them one by one.                                     *)
ProgressNeverRegresses == [][Printed' >= Printed]_vars

(* Spec 4.4 and 8, the coordinator's termination: it terminates only     *)
(* when every dispatched thread reports Finished and the summed progress  *)
(* has reached the total (neither alone is enough), and on completion the *)
(* 100% state has been reported, even if intermediate reporting was       *)
(* suppressed.  UefiSpin's loop test `while (!Completed && Progress <      *)
(* TotalProgress)` leaves the loop on either condition, and its final      *)
(* PrintProgress is skipped when SuppressProgress is set.                  *)
SpinTerminationPerSpec ==
    (bsp = "done" /\ ThreadingEnabled) =>
        /\ \A t \in Slots : Threads[t].Context # NoContext => Threads[t].Finished
        /\ Printed = 100

(* Spec 4.5: a fault during the committed decryption pass halts the boot  *)
(* instead of booting a possibly corrupt image.  An AP whose crypt hook    *)
(* fails PANICs in `work`; UefiSpin, on the BSP, must then never return   *)
(* (the library would go on to read the header from the buffer), however *)
(* far the other threads got.  A failure is offered while the failed     *)
(* thread still has chunks to decrypt; one after its last report is the  *)
(* util.c:111 ordering hazard.                                             *)
HaltsOnWorkerFailure == bsp = "done" => failed = {}

(* UefiSpin returns: once the work orders are dispatched, the BSP is not  *)
(* left spinning forever, unless a worker has failed and halted the boot. *)
Termination == <>(bsp = "done" \/ failed # {})

=============================================================================

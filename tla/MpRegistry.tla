----------------------------- MODULE MpRegistry -----------------------------
(***************************************************************************)
(* The processor registry of threading.c: InitializeThreading's           *)
(* enumeration of the processors the MP services protocol reports,        *)
(* IsThreadingEnabled, and the list's later life: the BSP's RefreshMPs     *)
(* (called by StartThread before each scan) rebuilds the list by copy and  *)
(* swap under ThreadMutex while the APs' FinishThread clears IsWorking     *)
(* under the same mutex.                                                    *)
(*                                                                         *)
(* Firmware describes each processor number as the protocol answers for   *)
(* it: whether GetProcessorInfo finds it, whether it is the BSP, and       *)
(* whether EnableDisableAP succeeds for it.  The MUTEX_* macros are in a  *)
(* header that is not in the repository; the mutex is taken as a lock     *)
(* that one processor holds at a time.  StartThread's use of the list is  *)
(* reduced to its effect on it: StartupThisAP on a processor the scan      *)
(* found available, then, in a later step, IsWorking = TRUE under the      *)
(* mutex.  FinishThread clears the entry of the thread's                   *)
(* AssignedProcessorNumber, which is stale when the AP finishes before     *)
(* StartThread wrote it (MpDecrypt follows that race thread by thread).    *)
(***************************************************************************)
EXTENDS Naturals, FiniteSets

CONSTANTS
    NumProcs,       \* the count GetNumberOfProcessors returns
    Firmware,       \* [0..NumProcs-1 -> [exists, bsp, enabled, enables]]
    Faults          \* whether LocateProtocol, GetNumberOfProcessors, WhoAmI,
                    \* AllocateZeroPool and GetProcessorInfo may fail

Numbers == 0 .. (NumProcs - 1)

\* A zeroed MFTAH_SYSTEM_MP (AllocateZeroPool).
ZeroEntry == [IsBSP |-> FALSE, IsEnabled |-> FALSE, IsWorking |-> FALSE,
              ProcessorNumber |-> 0]

Entry == [IsBSP : BOOLEAN, IsEnabled : BOOLEAN, IsWorking : BOOLEAN,
          ProcessorNumber : Numbers]

NoHolder == "none"

ASSUME /\ NumProcs \in Nat \ {0}
       /\ Firmware \in [Numbers -> [exists : BOOLEAN, bsp : BOOLEAN,
                                    enabled : BOOLEAN, enables : BOOLEAN]]
       /\ \E n \in Numbers : Firmware[n].bsp /\ Firmware[n].exists
       /\ Faults \in BOOLEAN

VARIABLES
    pc,                  \* the BSP: InitializeThreading's steps, then "run"
    initStatus,          \* InitializeThreading's result
    Protocol,            \* mEfiMpServicesProtocol # NULL
    NumberOfProcessors,  \* InitializeThreading local
    i,                   \* InitializeThreading's or RefreshMPs' loop index
    List,                \* the list being built (ListOfSystemMPs)
    MpCount,             \* mSystemMultiprocessingContext.MpCount
    MpList,              \* mSystemMultiprocessingContext.MpList
    enabled,             \* the firmware's enabled state of each processor
    busy,                \* processors running a procedure StartupThisAP gave
    assigned,            \* whose thread has AssignedProcessorNumber written
    marking,             \* the processor StartThread is about to mark
    ThreadMutex          \* the holder of ThreadMutex

vars == <<pc, initStatus, Protocol, NumberOfProcessors, i, List, MpCount,
          MpList, enabled, busy, assigned, marking, ThreadMutex>>

\* What StartThread and FinishThread change besides the list.
ThreadVars == <<busy, assigned, marking>>

Fails == IF Faults THEN BOOLEAN ELSE {FALSE}

\* A list of n zeroed entries.
ZeroList(n) == [k \in 0 .. (n - 1) |-> ZeroEntry]

Init ==
    /\ pc = "locate"
    /\ initStatus = "pending"
    /\ Protocol = FALSE
    /\ NumberOfProcessors = 0
    /\ i = 0
    /\ List = ZeroList(0)
    /\ MpCount = 0
    /\ MpList = ZeroList(0)
    /\ enabled = [n \in Numbers |-> Firmware[n].enabled]
    /\ busy = [n \in Numbers |-> FALSE]
    /\ assigned = [n \in Numbers |-> FALSE]
    /\ marking = 0
    /\ ThreadMutex = NoHolder

-----------------------------------------------------------------------------
(* InitializeThreading.                                                    *)

\* An error return: the status is kept, the globals stay as they are (in
\* particular mEfiMpServicesProtocol stays set once LocateProtocol found it).
InitReturnsError ==
    /\ initStatus' = "error"
    /\ pc' = "run"

\* LocateProtocol; on failure mEfiMpServicesProtocol = NULL.
InitLocate ==
    /\ pc = "locate"
    /\ \E fail \in Fails :
         IF fail THEN InitReturnsError /\ UNCHANGED Protocol
                 ELSE Protocol' = TRUE /\ pc' = "count" /\ UNCHANGED initStatus
    /\ UNCHANGED <<NumberOfProcessors, i, List, MpCount, MpList, enabled, ThreadVars,
                   ThreadMutex>>

\* GetNumberOfProcessors, WhoAmI and AllocateZeroPool of the list, each
\* an ERRCHECK_UEFI (or NULL check) that returns on failure.
InitQuery ==
    /\ pc = "count"
    /\ \E fail \in Fails :
         IF fail THEN InitReturnsError /\ UNCHANGED <<NumberOfProcessors, List>>
                 ELSE /\ NumberOfProcessors' = NumProcs
                      /\ List' = ZeroList(NumProcs)
                      /\ pc' = "enum"
                      /\ UNCHANGED initStatus
    /\ i' = 0
    /\ UNCHANGED <<Protocol, MpCount, MpList, enabled, ThreadVars, ThreadMutex>>

\* The entry GetProcessorInfo(n) yields: the status flags as they are now,
\* the given IsWorking, ProcessorNumber = the loop index.
InfoEntry(n, working) ==
    [IsBSP |-> Firmware[n].bsp, IsEnabled |-> enabled[n],
     IsWorking |-> working, ProcessorNumber |-> n]

\* One iteration of the enumeration loop.  EFI_NOT_FOUND decrements
\* NumberOfProcessors and continues, leaving ListOfSystemMPs[i] zeroed; any
\* other error frees the list and returns.  For an AP, EnableDisableAP is
\* called and its status only reported; the entry records the flags read
\* before it.
InitEnumerate ==
    /\ pc = "enum"
    /\ i < NumberOfProcessors
    /\ IF ~Firmware[i].exists
       THEN /\ NumberOfProcessors' = NumberOfProcessors - 1
            /\ UNCHANGED <<List, enabled, pc, initStatus>>
       ELSE \E fail \in Fails :
              IF fail
              THEN InitReturnsError /\ UNCHANGED <<NumberOfProcessors, List, enabled>>
              ELSE /\ enabled' = [enabled EXCEPT ![i] =
                                    @ \/ (~Firmware[i].bsp /\ Firmware[i].enables)]
                   /\ List' = [List EXCEPT ![i] = InfoEntry(i, FALSE)]
                   /\ UNCHANGED <<NumberOfProcessors, pc, initStatus>>
    /\ i' = i + 1
    /\ UNCHANGED <<Protocol, MpCount, MpList, ThreadVars, ThreadMutex>>

\* The loop is done: mSystemMultiprocessingContext takes the count and the
\* list.
InitPopulate ==
    /\ pc = "enum"
    /\ i >= NumberOfProcessors
    /\ MpCount' = NumberOfProcessors
    /\ MpList' = List
    /\ initStatus' = "success"
    /\ pc' = "run"
    /\ UNCHANGED <<Protocol, NumberOfProcessors, i, List, enabled, ThreadVars,
                   ThreadMutex>>

-----------------------------------------------------------------------------
(* After InitializeThreading: RefreshMPs on the BSP, StartThread's         *)
(* assignment, and FinishThread's clear.                                   *)

RefreshBeginUnlocked ==
    /\ pc = "run"
    /\ \E fail \in Fails :
         IF fail THEN UNCHANGED <<pc, List>>
                 ELSE /\ List' = ZeroList(MpCount)
                      /\ pc' = "refresh"
    /\ i' = 0
    /\ UNCHANGED <<initStatus, Protocol, NumberOfProcessors, MpCount, MpList,
                   enabled, ThreadVars, ThreadMutex>>

RefreshBeginShortList ==
    /\ pc = "run"
    /\ ThreadMutex = NoHolder
    /\ \E fail \in Fails :
         IF fail THEN UNCHANGED <<pc, List, ThreadMutex>>
                 ELSE /\ ThreadMutex' = "bsp"
                      /\ List' = ZeroList(MpCount - 1)
                      /\ pc' = "refresh"
    /\ i' = 0
    /\ UNCHANGED <<initStatus, Protocol, NumberOfProcessors, MpCount, MpList,
                   enabled, ThreadVars>>

\* RefreshMPs: MUTEX_LOCK, then AllocateZeroPool of MpCount entries; if the
\* allocation fails it unlocks and returns.
RefreshBegin ==
    /\ pc = "run"
    /\ ThreadMutex = NoHolder
    /\ \E fail \in Fails :
         IF fail THEN UNCHANGED <<pc, List, ThreadMutex>>
                 ELSE /\ ThreadMutex' = "bsp"
                      /\ List' = ZeroList(MpCount)
                      /\ pc' = "refresh"
    /\ i' = 0
    /\ UNCHANGED <<initStatus, Protocol, NumberOfProcessors, MpCount, MpList,
                   enabled, ThreadVars>>

RefreshedEntryResetsWorking(n) == InfoEntry(n, FALSE)

\* The entry RefreshMPs builds for index n: the flags read afresh,
\* IsWorking carried over from the current list.
RefreshedEntry(n) == InfoEntry(n, MpList[n].IsWorking)

\* One iteration of RefreshMPs' loop: GetProcessorInfo(i), whose failure
\* unlocks and returns EFI_ABORTED (the new list is not freed); otherwise
\* the entry is read afresh with IsWorking copied from the current list.
RefreshCopy ==
    /\ pc = "refresh"
    /\ i < MpCount
    /\ \E fail \in Fails :
         IF fail \/ ~Firmware[i].exists
         THEN /\ ThreadMutex' = NoHolder
              /\ pc' = "run"
              /\ UNCHANGED <<List, i>>
         ELSE /\ List' = [List EXCEPT ![i] = RefreshedEntry(i)]
              /\ i' = i + 1
              /\ UNCHANGED <<pc, ThreadMutex>>
    /\ UNCHANGED <<initStatus, Protocol, NumberOfProcessors, MpCount, MpList,
                   enabled, ThreadVars>>

\* The new list replaces the old one, then MUTEX_UNLOCK.
RefreshSwap ==
    /\ pc = "refresh"
    /\ i >= MpCount
    /\ MpList' = List
    /\ ThreadMutex' = NoHolder
    /\ pc' = "run"
    /\ UNCHANGED <<initStatus, Protocol, NumberOfProcessors, i, List, MpCount,
                   enabled, ThreadVars>>

\* StartThread's test of an entry: neither the BSP nor working.
Available(n) == ~MpList[n].IsBSP /\ ~MpList[n].IsWorking

\* Whether StartupThisAP accepts processor n: an existing, enabled AP that
\* is not already running a procedure.
Startable(n) ==
    /\ Firmware[n].exists
    /\ ~Firmware[n].bsp
    /\ enabled[n]
    /\ ~busy[n]

\* StartThread's scan takes the first available index and calls
\* StartupThisAP on it; a failure returns the error and changes nothing.
StartupThisAP ==
    /\ pc = "run"
    /\ \E n \in 0 .. (MpCount - 1) :
         /\ Available(n)
         /\ \A m \in 0 .. (n - 1) : ~Available(m)
         /\ Startable(n)
         /\ busy' = [busy EXCEPT ![n] = TRUE]
         /\ marking' = n
    /\ pc' = "mark"
    /\ UNCHANGED <<initStatus, Protocol, NumberOfProcessors, i, List, MpCount,
                   MpList, enabled, assigned, ThreadMutex>>

\* Back in StartThread: IsWorking = TRUE under the mutex, then Started and
\* AssignedProcessorNumber are written.
StartThreadMark ==
    /\ pc = "mark"
    /\ ThreadMutex = NoHolder
    /\ MpList' = [MpList EXCEPT ![marking].IsWorking = TRUE]
    /\ assigned' = [assigned EXCEPT ![marking] = busy[marking]]
    /\ pc' = "run"
    /\ UNCHANGED <<initStatus, Protocol, NumberOfProcessors, i, List, MpCount,
                   enabled, busy, marking, ThreadMutex>>

\* The AP's procedure ends and FinishThread runs: under the mutex it clears
\* IsWorking of the thread's AssignedProcessorNumber, its own number once
\* StartThread wrote it and otherwise whatever the thread record held.  Its
\* trailing RefreshMPs on the AP fails at GetProcessorInfo
\* (EFI_DEVICE_ERROR from an AP) and changes nothing.
FinishThread(n) ==
    /\ busy[n]
    /\ ThreadMutex = NoHolder
    /\ \E a \in IF assigned[n] THEN {n} ELSE 0 .. (MpCount - 1) :
         MpList' = [MpList EXCEPT ![a].IsWorking = FALSE]
    /\ busy' = [busy EXCEPT ![n] = FALSE]
    /\ assigned' = [assigned EXCEPT ![n] = FALSE]
    /\ UNCHANGED <<pc, initStatus, Protocol, NumberOfProcessors, i, List,
                   MpCount, enabled, marking, ThreadMutex>>

Next ==
    \/ InitLocate
    \/ InitQuery
    \/ InitEnumerate
    \/ InitPopulate
    \/ RefreshBegin
    \/ RefreshCopy
    \/ RefreshSwap
    \/ StartupThisAP
    \/ StartThreadMark
    \/ \E n \in Numbers : FinishThread(n)

Spec == Init /\ [][Next]_vars

-----------------------------------------------------------------------------
(* Properties.                                                             *)

\* mEfiMpServicesProtocol != NULL || MpCount >= 1.
IsThreadingEnabled == Protocol \/ MpCount >= 1

\* Every variable has its type, and the list covers MpCount entries.
TypeOK ==
    /\ pc \in {"locate", "count", "enum", "run", "refresh", "mark"}
    /\ initStatus \in {"pending", "success", "error"}
    /\ Protocol \in BOOLEAN
    /\ MpCount \in 0 .. NumProcs
    /\ 0 .. (MpCount - 1) \subseteq DOMAIN MpList
    /\ \A n \in DOMAIN MpList : MpList[n] \in Entry
    /\ pc = "refresh" => List \in [0 .. (MpCount - 1) -> Entry]
    /\ enabled \in [Numbers -> BOOLEAN]
    /\ busy \in [Numbers -> BOOLEAN]
    /\ assigned \in [Numbers -> BOOLEAN]
    /\ marking \in Numbers
    /\ ThreadMutex \in {NoHolder, "bsp"}

\* Spec 4.1 (refresh preserves each processor's is-working bit): while
\* RefreshMPs builds its new list, every entry copied so far carries the
\* IsWorking bit the installed list has now, so the swap loses neither a
\* FinishThread clear nor a StartThread mark made by another processor
\* during the copy; ThreadMutex, held from RefreshMPs' lock to its unlock,
\* is what keeps them out.
RefreshPreservesWorking ==
    pc = "refresh" =>
        \A n \in 0 .. (i - 1) : List[n].IsWorking = MpList[n].IsWorking
====

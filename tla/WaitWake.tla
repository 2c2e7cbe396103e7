------------------------------ MODULE WaitWake ------------------------------
(***************************************************************************)
(* The atomic wait/wake core of src/Source/Runtime/Threads.cpp: the        *)
(* address -> WaitList table and its reference counts (openWaitList,       *)
(* closeWaitList), waitOnAddress and wakeAddress, and the per-thread wake  *)
(* token (threadWakeEvent), which a spawned thread destroys as threadFunc  *)
(* exits.                                                                  *)
(*                                                                         *)
(* Each critical section of the code (the body of openWaitList under the   *)
(* table mutex, the work done under one WaitList mutex, the re-check of    *)
(* closeWaitList under the table mutex) is one atomic step; the code never *)
(* holds two of these mutexes at once.  The steps between them (the atomic *)
(* decrement of numReferences, blocking on the token) are steps of their   *)
(* own, so every interleaving of the code's lock-free windows is explored. *)
(*                                                                         *)
(* WaitList objects are the model values ListIds; a deleted object's id    *)
(* may be handed out again by a later `new WaitList`, as an allocator does,*)
(* even while a thread still keeps a (dangling) pointer to it.             *)
(***************************************************************************)
EXTENDS Naturals, Sequences, SequencesExt, FiniteSets, WaitTimeouts

CONSTANTS
  Threads,     \* the OS threads running Wasm code
  Addrs,       \* the (aligned, in-bounds) addresses waited and woken on
  Vals,        \* the values stored in a cell; 0 is the initial one
  ListIds,     \* the memory WaitList objects can be allocated at
  NoList,      \* nullptr / no table entry
  UINT32_MAX,  \* the wake count meaning "all"
  WakeCounts,  \* the counts atomic_wake is called with
  Timeouts,    \* the classes of F64 timeouts atomic_wait is called with
  MaxOps       \* bound: intrinsic calls (and stores) per thread

ASSUME /\ 0 \in Vals
       /\ NoList \notin ListIds
       /\ WakeCounts \subseteq 0..UINT32_MAX /\ UINT32_MAX \in WakeCounts
       /\ MaxOps \in Nat

ASSUME Timeouts \subseteq TimeoutClasses

VARIABLES
  memory,                \* the Wasm memory cells
  addressToWaitListMap,  \* address -> WaitList* (NoList when absent)
  allocated,             \* the WaitList objects not yet deleted
  numReferences,         \* WaitList::numReferences
  wakeEvents,            \* WaitList::wakeEvents, tokens named by their thread
  threadWakeEvent,       \* the thread-local token: "none", "created", "destroyed"
  signaled,              \* the state of each thread's auto-reset token
  pc, op,                \* each thread's position and current call
  waitList,              \* the WaitList* local of the current call
  endTimeInfinite,       \* the endTime local is UINT64_MAX
  result,                \* the value the current call returns
  opsDone,               \* calls completed per thread
  crashed,               \* the process has aborted
  dangling               \* history: threads whose waitList points to a deleted WaitList

vars == <<memory, addressToWaitListMap, allocated, numReferences, wakeEvents,
          threadWakeEvent, signaled, pc, op, waitList, endTimeInfinite,
          result, opsDone, crashed, dangling>>

WaitOps == [kind : {"wait"}, addr : Addrs, expected : Vals, timeout : Timeouts]
WakeOps == [kind : {"wake"}, addr : Addrs, count : WakeCounts]
NoOp == [kind |-> "none"]

Pcs == {"idle", "wCheck", "wPark", "wTimedOut", "kSignal", "close", "closeRecheck", "exited"}

-----------------------------------------------------------------------------

(* The memory a `new WaitList` may be placed at: any not held by a live   *)
(* list, including that of a deleted list some thread still points to.    *)
FreeListIds == ListIds \ allocated

(* Mutant: the increment hoisted out of the lookup, so a new list starts   *)
(* at 2 references.                                                        *)
OpenWaitListDoubleCount(t, a) ==
  LET l == addressToWaitListMap[a] IN
  IF l # NoList
    THEN /\ numReferences' = [numReferences EXCEPT ![l] = @ + 1]
         /\ waitList' = [waitList EXCEPT ![t] = l]
         /\ UNCHANGED <<addressToWaitListMap, allocated, wakeEvents>>
    ELSE \E new \in FreeListIds :
         /\ allocated' = allocated \cup {new}
         /\ numReferences' = [numReferences EXCEPT ![new] = 2]
         /\ wakeEvents' = [wakeEvents EXCEPT ![new] = <<>>]
         /\ addressToWaitListMap' = [addressToWaitListMap EXCEPT ![a] = new]
         /\ waitList' = [waitList EXCEPT ![t] = new]

(* openWaitList(address), under addressToWaitListMapMutex: take another    *)
(* reference to the address's WaitList, or create one with a count of 1.   *)
OpenWaitList(t, a) ==
  LET l == addressToWaitListMap[a] IN
  IF l # NoList
    THEN /\ numReferences' = [numReferences EXCEPT ![l] = @ + 1]
         /\ waitList' = [waitList EXCEPT ![t] = l]
         /\ UNCHANGED <<addressToWaitListMap, allocated, wakeEvents>>
    ELSE \E new \in FreeListIds :
         /\ allocated' = allocated \cup {new}
         /\ numReferences' = [numReferences EXCEPT ![new] = 1]
         /\ wakeEvents' = [wakeEvents EXCEPT ![new] = <<>>]
         /\ addressToWaitListMap' = [addressToWaitListMap EXCEPT ![a] = new]
         /\ waitList' = [waitList EXCEPT ![t] = new]

(* The intrinsic returns result to the Wasm caller. *)
Return(t) ==
  /\ pc' = [pc EXCEPT ![t] = "idle"]
  /\ waitList' = [waitList EXCEPT ![t] = NoList]
  /\ opsDone' = [opsDone EXCEPT ![t] = @ + 1]

-----------------------------------------------------------------------------
(* Wasm code: an i32.atomic.store to a cell (not runtime code). *)
Store(t, a, v) ==
  /\ pc[t] = "idle" /\ opsDone[t] < MaxOps
  /\ memory' = [memory EXCEPT ![a] = v]
  /\ opsDone' = [opsDone EXCEPT ![t] = @ + 1]
  /\ UNCHANGED <<addressToWaitListMap, allocated, numReferences, wakeEvents,
                 threadWakeEvent, signaled, pc, op, waitList, endTimeInfinite,
                 result, crashed, dangling>>

(* waitOnAddress, up to locking the list: decode the timeout (to no       *)
(* deadline, or one that passes, as its class allows), open the address's *)
(* wait list.                                                              *)
WaitOpen(t, o) ==
  /\ pc[t] = "idle" /\ opsDone[t] < MaxOps
  /\ op' = [op EXCEPT ![t] = o]
  /\ \E inf \in EndTimeIsInfinite(o.timeout) :
       endTimeInfinite' = [endTimeInfinite EXCEPT ![t] = inf]
  /\ OpenWaitList(t, o.addr)
  /\ pc' = [pc EXCEPT ![t] = "wCheck"]
  /\ UNCHANGED <<memory, threadWakeEvent, signaled, result, opsDone, crashed, dangling>>

(* Mutant: the cell is not reloaded under the lock; the thread parks. *)
WaitCheckNoReload(t) ==
  LET l == waitList[t] IN
  /\ pc[t] = "wCheck"
  /\ threadWakeEvent' = [threadWakeEvent EXCEPT ![t] = "created"]
  /\ wakeEvents' = [wakeEvents EXCEPT ![l] = Append(@, t)]
  /\ pc' = [pc EXCEPT ![t] = "wPark"]
  /\ UNCHANGED <<memory, addressToWaitListMap, allocated, numReferences, result,
                 signaled, op, waitList, endTimeInfinite, opsDone, crashed, dangling>>

(* Under the WaitList mutex: reload the cell; return 1 if it changed,      *)
(* otherwise create the token if need be and append it to wakeEvents.      *)
WaitCheck(t) ==
  LET l == waitList[t] IN
  /\ pc[t] = "wCheck"
  /\ IF memory[op[t].addr] # op[t].expected
       THEN /\ result' = [result EXCEPT ![t] = 1]
            /\ UNCHANGED <<threadWakeEvent, wakeEvents>>
            /\ pc' = [pc EXCEPT ![t] = "close"]
       ELSE /\ threadWakeEvent' = [threadWakeEvent EXCEPT ![t] = "created"]
            /\ wakeEvents' = [wakeEvents EXCEPT ![l] = Append(@, t)]
            /\ UNCHANGED result
            /\ pc' = [pc EXCEPT ![t] = "wPark"]
  /\ UNCHANGED <<memory, addressToWaitListMap, allocated, numReferences,
                 signaled, op, waitList, endTimeInfinite, opsDone, crashed, dangling>>

(* waitForEvent returns true: the token was signaled, and the wait resets  *)
(* it.                                                                     *)
WaitWoken(t) ==
  /\ pc[t] = "wPark"
  /\ signaled[t]
  /\ signaled' = [signaled EXCEPT ![t] = FALSE]
  /\ result' = [result EXCEPT ![t] = 0]
  /\ pc' = [pc EXCEPT ![t] = "close"]
  /\ UNCHANGED <<memory, addressToWaitListMap, allocated, numReferences,
                 wakeEvents, threadWakeEvent, op, waitList, endTimeInfinite,
                 opsDone, crashed, dangling>>

(* waitForEvent returns false: a finite endTime has passed.  A signal may  *)
(* land in the same instant, so this does not look at the token.          *)
WaitTimeout(t) ==
  /\ pc[t] = "wPark"
  /\ ~endTimeInfinite[t]
  /\ pc' = [pc EXCEPT ![t] = "wTimedOut"]
  /\ UNCHANGED <<memory, addressToWaitListMap, allocated, numReferences,
                 wakeEvents, threadWakeEvent, signaled, op, waitList,
                 endTimeInfinite, result, opsDone, crashed, dangling>>

(* Mutant: a waker's pending signal is not reset on the timeout path. *)
WaitTimedOutLockedNoReset(t) ==
  LET l == waitList[t] IN
  /\ pc[t] = "wTimedOut"
  /\ \/ /\ Contains(wakeEvents[l], t)
        /\ wakeEvents' = [wakeEvents EXCEPT ![l] = RemoveFirst(@, t)]
        /\ result' = [result EXCEPT ![t] = 2]
     \/ /\ ~Contains(wakeEvents[l], t)
        /\ result' = [result EXCEPT ![t] = 0]
        /\ UNCHANGED wakeEvents
  /\ pc' = [pc EXCEPT ![t] = "close"]
  /\ UNCHANGED <<memory, addressToWaitListMap, allocated, numReferences, signaled,
                 threadWakeEvent, op, waitList, endTimeInfinite, opsDone, crashed, dangling>>

(* Mutant: a timed-out waiter still on the list blocks again instead of    *)
(* taking its token off.                                                   *)
WaitTimedOutLockedRetry(t) ==
  LET l == waitList[t] IN
  /\ pc[t] = "wTimedOut"
  /\ \/ /\ Contains(wakeEvents[l], t)
        /\ pc' = [pc EXCEPT ![t] = "wPark"]
        /\ UNCHANGED <<signaled, result>>
     \/ /\ ~Contains(wakeEvents[l], t) /\ signaled[t]
        /\ signaled' = [signaled EXCEPT ![t] = FALSE]
        /\ result' = [result EXCEPT ![t] = 0]
        /\ pc' = [pc EXCEPT ![t] = "close"]
  /\ UNCHANGED <<memory, addressToWaitListMap, allocated, numReferences, wakeEvents,
                 threadWakeEvent, op, waitList, endTimeInfinite, opsDone, crashed, dangling>>

(* After a timeout, under the WaitList mutex: if the token is still queued *)
(* remove it and report a timeout; if a waker took it, it signaled the     *)
(* token, and an immediately expiring wait consumes the signal.  The code  *)
(* aborts (errorUnless) if no signal is pending; TokenAccounting shows     *)
(* that never happens, so that branch is left out.                         *)
WaitTimedOutLocked(t) ==
  LET l == waitList[t] IN
  /\ pc[t] = "wTimedOut"
  /\ \/ /\ Contains(wakeEvents[l], t)
        /\ wakeEvents' = [wakeEvents EXCEPT ![l] = RemoveFirst(@, t)]
        /\ result' = [result EXCEPT ![t] = 2]
        /\ pc' = [pc EXCEPT ![t] = "close"]
        /\ UNCHANGED <<signaled, crashed>>
     \/ /\ ~Contains(wakeEvents[l], t) /\ signaled[t]
        /\ signaled' = [signaled EXCEPT ![t] = FALSE]
        /\ result' = [result EXCEPT ![t] = 0]
        /\ pc' = [pc EXCEPT ![t] = "close"]
        /\ UNCHANGED wakeEvents
  /\ UNCHANGED <<memory, addressToWaitListMap, allocated, numReferences,
                 threadWakeEvent, op, waitList, endTimeInfinite, opsDone, crashed, dangling>>

-----------------------------------------------------------------------------
(* wakeAddress: a count of 0 returns 0 at once; otherwise open the list.   *)
WakeOpen(t, o) ==
  /\ pc[t] = "idle" /\ opsDone[t] < MaxOps
  /\ op' = [op EXCEPT ![t] = o]
  /\ \/ /\ o.count = 0
        /\ result' = [result EXCEPT ![t] = 0]
        /\ opsDone' = [opsDone EXCEPT ![t] = @ + 1]
        /\ UNCHANGED <<addressToWaitListMap, allocated, numReferences,
                       wakeEvents, pc, waitList>>
     \/ /\ o.count # 0
        /\ OpenWaitList(t, o.addr)
        /\ pc' = [pc EXCEPT ![t] = "kSignal"]
        /\ UNCHANGED <<result, opsDone>>
  /\ UNCHANGED <<memory, threadWakeEvent, signaled, endTimeInfinite, crashed, dangling>>

(* How many tokens a wake of numToWake signals, given len queued. *)
ActualNumToWake(numToWake, len) ==
  IF numToWake = UINT32_MAX \/ numToWake > len THEN len ELSE numToWake

(* Mutant: the newest waiters are signaled and erased. *)
WakeSignalNewest(t) ==
  LET l == waitList[t]
      len == Len(wakeEvents[l])
      n == ActualNumToWake(op[t].count, len)
      woken == ToSet(SubSeq(wakeEvents[l], len - n + 1, len))
  IN
  /\ pc[t] = "kSignal"
  /\ signaled' = [u \in Threads |-> signaled[u] \/ u \in woken]
  /\ wakeEvents' = [wakeEvents EXCEPT ![l] = SubSeq(@, 1, len - n)]
  /\ result' = [result EXCEPT ![t] = n]
  /\ pc' = [pc EXCEPT ![t] = "close"]
  /\ UNCHANGED <<memory, addressToWaitListMap, allocated, numReferences,
                 threadWakeEvent, op, waitList, endTimeInfinite, opsDone, crashed, dangling>>

(* Under the WaitList mutex: signal the oldest tokens and erase them. *)
WakeSignal(t) ==
  LET l == waitList[t]
      n == ActualNumToWake(op[t].count, Len(wakeEvents[l]))
      woken == ToSet(SubSeq(wakeEvents[l], 1, n))
  IN
  /\ pc[t] = "kSignal"
  /\ signaled' = [u \in Threads |-> signaled[u] \/ u \in woken]
  /\ wakeEvents' = [wakeEvents EXCEPT ![l] = SubSeq(@, n + 1, Len(@))]
  /\ result' = [result EXCEPT ![t] = n]
  /\ pc' = [pc EXCEPT ![t] = "close"]
  /\ UNCHANGED <<memory, addressToWaitListMap, allocated, numReferences,
                 threadWakeEvent, op, waitList, endTimeInfinite, opsDone, crashed, dangling>>

-----------------------------------------------------------------------------
(* closeWaitList, outside any lock: the atomic --numReferences; the call   *)
(* (and the intrinsic) returns unless it reached 0.                        *)
CloseDecrement(t) ==
  LET l == waitList[t] IN
  /\ pc[t] = "close"
  /\ numReferences' = [numReferences EXCEPT ![l] = @ - 1]
  /\ IF numReferences[l] - 1 = 0
       THEN /\ pc' = [pc EXCEPT ![t] = "closeRecheck"]
            /\ UNCHANGED <<waitList, opsDone>>
       ELSE Return(t)
  /\ UNCHANGED <<memory, addressToWaitListMap, allocated, wakeEvents,
                 threadWakeEvent, signaled, op, endTimeInfinite, result, crashed, dangling>>

(* delete waitList; addressToWaitListMap.erase(address): the list is      *)
(* gone, and any other thread still pointing to it now holds a dangling    *)
(* pointer.                                                                *)
DeleteWaitList(t, l) ==
  /\ allocated' = allocated \ {l}
  /\ addressToWaitListMap' = [addressToWaitListMap EXCEPT ![op[t].addr] = NoList]
  /\ dangling' = (dangling \ {t}) \cup {u \in Threads \ {t} : waitList[u] = l}

(* Mutant: no re-check; the list is deleted even if it was resurrected. *)
CloseRecheckNoRecheck(t) ==
  LET l == waitList[t] IN
  /\ pc[t] = "closeRecheck" /\ t \notin dangling
  /\ DeleteWaitList(t, l)
  /\ Return(t)
  /\ UNCHANGED <<memory, numReferences, wakeEvents, threadWakeEvent, signaled,
                 op, endTimeInfinite, result, crashed>>

(* closeWaitList under addressToWaitListMapMutex: re-read numReferences;   *)
(* if still 0 delete the list and erase the address's entry, otherwise a  *)
(* thread has resurrected the list in openWaitList and will close it.      *)
CloseRecheck(t) ==
  LET l == waitList[t] IN
  /\ pc[t] = "closeRecheck" /\ t \notin dangling
  /\ \/ numReferences[l] = 0 /\ DeleteWaitList(t, l)
     \/ numReferences[l] # 0 /\ UNCHANGED <<allocated, addressToWaitListMap, dangling>>
  /\ Return(t)
  /\ UNCHANGED <<memory, numReferences, wakeEvents, threadWakeEvent, signaled,
                 op, endTimeInfinite, result, crashed>>

(* The same re-check by a thread whose list another thread has resurrected,*)
(* closed and deleted meanwhile: waitList->numReferences is a read of      *)
(* freed memory, undefined behaviour.  If `new WaitList` has since placed  *)
(* another list there (for any address), the read sees that list's count, *)
(* and at 0 the thread deletes it and erases its own address's entry.      *)
(* Otherwise the freed memory reads 0 or not; on 0 the second delete is a  *)
(* double free, which the allocator aborts on.                             *)
CloseRecheckFreed(t) ==
  LET l == waitList[t] IN
  /\ pc[t] = "closeRecheck" /\ t \in dangling
  /\ \/ /\ l \in allocated /\ numReferences[l] = 0
        /\ DeleteWaitList(t, l) /\ Return(t)
        /\ UNCHANGED crashed
     \/ /\ l \in allocated /\ numReferences[l] # 0
        /\ dangling' = dangling \ {t} /\ Return(t)
        /\ UNCHANGED <<allocated, addressToWaitListMap, crashed>>
     \/ /\ l \notin allocated
        /\ \/ dangling' = dangling \ {t} /\ Return(t) /\ UNCHANGED crashed
           \/ crashed' = TRUE /\ UNCHANGED <<pc, waitList, opsDone, dangling>>
        /\ UNCHANGED <<allocated, addressToWaitListMap>>
  /\ UNCHANGED <<memory, numReferences, wakeEvents, threadWakeEvent, signaled,
                 op, endTimeInfinite, result>>

-----------------------------------------------------------------------------
(* threadFunc, once the thread's entry (or error) function has returned:   *)
(* destroy the wake token if the thread ever created one; the thread is   *)
(* gone.  Only a thread outside any intrinsic call gets here.  (The model's *)
(* call bound is spent: an exited thread makes no more calls.)             *)
ThreadExit(t) ==
  /\ pc[t] = "idle"
  /\ pc' = [pc EXCEPT ![t] = "exited"]
  /\ opsDone' = [opsDone EXCEPT ![t] = MaxOps]
  /\ threadWakeEvent' = [threadWakeEvent EXCEPT ![t] =
                          IF @ = "created" THEN "destroyed" ELSE @]
  /\ UNCHANGED <<memory, addressToWaitListMap, allocated, numReferences, wakeEvents,
                 signaled, op, waitList, endTimeInfinite, result, crashed, dangling>>

-----------------------------------------------------------------------------
Init ==
  /\ memory = [a \in Addrs |-> 0]
  /\ addressToWaitListMap = [a \in Addrs |-> NoList]
  /\ allocated = {}
  /\ numReferences = [l \in ListIds |-> 0]
  /\ wakeEvents = [l \in ListIds |-> <<>>]
  /\ threadWakeEvent = [t \in Threads |-> "none"]
  /\ signaled = [t \in Threads |-> FALSE]
  /\ pc = [t \in Threads |-> "idle"]
  /\ op = [t \in Threads |-> NoOp]
  /\ waitList = [t \in Threads |-> NoList]
  /\ endTimeInfinite = [t \in Threads |-> FALSE]
  /\ result = [t \in Threads |-> 0]
  /\ opsDone = [t \in Threads |-> 0]
  /\ crashed = FALSE
  /\ dangling = {}

(* The steps of the runtime code for thread t, once a call has been made,  *)
(* that the C++ defines.                                                   *)
DefinedStep(t) ==
  \/ WaitCheck(t) \/ WaitWoken(t) \/ WaitTimeout(t) \/ WaitTimedOutLocked(t)
  \/ WakeSignal(t) \/ CloseDecrement(t) \/ CloseRecheck(t)

Step(t) == DefinedStep(t) \/ CloseRecheckFreed(t)

(* The Wasm code of thread t makes a call or a store, or returns from the  *)
(* thread's entry function.                                                *)
Call(t) ==
  \/ \E o \in WaitOps : WaitOpen(t, o)
  \/ \E o \in WakeOps : WakeOpen(t, o)
  \/ \E a \in Addrs, v \in Vals : Store(t, a, v)
  \/ ThreadExit(t)

(* A thread is finished when it has exited, or when it is parked with no   *)
(* deadline and no signal: a wake may never come.                          *)
Finished(t) ==
  \/ pc[t] = "exited"
  \/ pc[t] = "wPark" /\ endTimeInfinite[t] /\ ~signaled[t]

Terminated ==
  /\ crashed \/ \A t \in Threads : Finished(t)
  /\ UNCHANGED vars

Next ==
  \/ ~crashed /\ \E t \in Threads : Call(t) \/ Step(t)
  \/ Terminated

(* Threads are preemptively scheduled OS threads: one that can take a step *)
(* eventually does.  A finite endTime eventually passes, so WaitTimeout is *)
(* covered too.  The Wasm code is not obliged to make calls.               *)
Fairness == \A t \in Threads : WF_vars(~crashed /\ Step(t))

Spec == Init /\ [][Next]_vars /\ Fairness

(* The behaviours up to the first undefined behaviour: the C++ promises    *)
(* nothing once a thread has read a deleted WaitList, so the properties of *)
(* the code are checked on these; NoUseAfterFree, on Spec, shows that the  *)
(* read is reachable.  A thread about to make the read stops there.        *)
DefinedTerminated ==
  /\ crashed \/ \A t \in Threads : Finished(t) \/ t \in dangling
  /\ UNCHANGED vars

DefinedNext ==
  \/ ~crashed /\ \E t \in Threads : Call(t) \/ DefinedStep(t)
  \/ DefinedTerminated

DefinedSpec ==
  Init /\ [][DefinedNext]_vars /\ \A t \in Threads : WF_vars(~crashed /\ DefinedStep(t))

-----------------------------------------------------------------------------
(* The calls a thread is inside of while it counts as a reference of its   *)
(* waitList: from openWaitList up to its own decrement.                    *)
HoldsReference(t) == pc[t] \in {"wCheck", "wPark", "wTimedOut", "kSignal", "close"}

TypeOK ==
  /\ memory \in [Addrs -> Vals]
  /\ addressToWaitListMap \in [Addrs -> ListIds \cup {NoList}]
  /\ allocated \subseteq ListIds
  /\ numReferences \in [ListIds -> 0..Cardinality(Threads)]
  /\ wakeEvents \in [ListIds -> Seq(Threads)]
  /\ threadWakeEvent \in [Threads -> {"none", "created", "destroyed"}]
  /\ signaled \in [Threads -> BOOLEAN]
  /\ pc \in [Threads -> Pcs]
  /\ op \in [Threads -> WaitOps \cup WakeOps \cup {NoOp}]
  /\ waitList \in [Threads -> ListIds \cup {NoList}]
  /\ endTimeInfinite \in [Threads -> BOOLEAN]
  /\ result \in [Threads -> 0..UINT32_MAX]
  /\ opsDone \in [Threads -> 0..MaxOps]
  /\ crashed \in BOOLEAN
  /\ dangling \subseteq Threads

(* The table and the reference counts agree (openWaitList, closeWaitList): *)
(* the live WaitLists are exactly the table's entries, one per address;    *)
(* each one's numReferences is the number of calls holding it; a list at   *)
(* 0 references always has a closer about to re-check it; and no call      *)
(* still holding its reference works on a deleted list.  Breaking it takes *)
(* a resurrecting openWaitList between another thread's decrement and its *)
(* re-check.                                                               *)
WaitListTableConsistent ==
  /\ allocated = {addressToWaitListMap[a] : a \in Addrs} \ {NoList}
  /\ \A a, b \in Addrs : addressToWaitListMap[a] = addressToWaitListMap[b]
                           /\ addressToWaitListMap[a] # NoList => a = b
  /\ \A l \in allocated :
       numReferences[l] = Cardinality({t \in Threads : HoldsReference(t) /\ waitList[t] = l})
  /\ \A l \in allocated :
       numReferences[l] = 0 => \E t \in Threads : pc[t] = "closeRecheck" /\ waitList[t] = l
  /\ \A t \in Threads : HoldsReference(t) => waitList[t] \in allocated

(* Each wake token is in exactly one of two places while its thread waits  *)
(* (waitOnAddress, wakeAddress): queued on the thread's own WaitList, or   *)
(* taken off by a waker and signaled; it is never queued twice, never      *)
(* queued or signaled outside a wait, and so is never left signaled for    *)
(* the thread's next wait, the timeout path always finds the signal it     *)
(* consumes with errorUnless, and the event threadFunc destroys at exit is *)
(* on no WaitList and never signaled afterwards.                           *)
TokenAccounting ==
  /\ \A l \in allocated : \A i \in 1..Len(wakeEvents[l]) :
       LET t == wakeEvents[l][i] IN
       /\ pc[t] \in {"wPark", "wTimedOut"} /\ waitList[t] = l
       /\ \A j \in 1..Len(wakeEvents[l]) : wakeEvents[l][j] = t => i = j
  /\ \A t \in Threads :
       IF pc[t] \in {"wPark", "wTimedOut"}
         THEN threadWakeEvent[t] = "created" /\ (signaled[t] # Contains(wakeEvents[waitList[t]], t))
         ELSE ~signaled[t]

(* No thread reads a WaitList after it has been deleted.  closeWaitList    *)
(* re-reads waitList->numReferences under the table mutex after dropping   *)
(* its own reference, when another thread may already have resurrected,   *)
(* closed and deleted the same list.                                       *)
NoUseAfterFree ==
  \A t \in Threads : pc[t] = "closeRecheck" => t \notin dangling

(* A wait whose token has been signaled, or whose decoded deadline is      *)
(* finite, eventually returns (or the process has aborted, or the thread's *)
(* close reaches a deleted list): no waiter is left blocked by a timeout   *)
(* racing a wake, or by a close racing another thread's open.              *)
WaitReturns ==
  \A t \in Threads :
    pc[t] = "wPark" /\ (signaled[t] \/ ~endTimeInfinite[t])
      ~> pc[t] = "idle" \/ crashed \/ t \in dangling

-----------------------------------------------------------------------------
(* Refinement: WaitWake implements WaitWakeSpec.  The abstract queue of an *)
(* address is the wakeEvents of its table entry.  A call is "calling" up   *)
(* to the step under the WaitList mutex that decides it; a waiting thread  *)
(* is then queued while its token is on the list and woken once a waker    *)
(* took it; once the waiter knows its outcome, result says which it is.    *)
ResultStatus == [r \in 0..2 |-> CASE r = 0 -> "woken" [] r = 1 -> "notEqual" [] r = 2 -> "timedOut"]

AbsStatus(t) ==
  CASE pc[t] \in {"wCheck", "kSignal"} -> "calling"
    [] pc[t] \in {"wPark", "wTimedOut"} ->
         IF Contains(wakeEvents[waitList[t]], t) THEN "queued" ELSE "woken"
    [] pc[t] \in {"close", "closeRecheck"} ->
         IF op[t].kind = "wait" THEN ResultStatus[result[t]] ELSE "done"
    [] OTHER -> "idle"

AbsQueue(a) ==
  IF addressToWaitListMap[a] = NoList THEN <<>> ELSE wakeEvents[addressToWaitListMap[a]]

AbsRet(t) ==
  IF op[t].kind = "wake" /\ pc[t] \in {"idle", "close", "closeRecheck", "exited"} THEN result[t] ELSE 0

Abstract == INSTANCE WaitWakeSpec
              WITH queue <- [a \in Addrs |-> AbsQueue(a)],
                   status <- [t \in Threads |-> AbsStatus(t)],
                   call <- op,
                   ret <- [t \in Threads |-> AbsRet(t)],
                   InfiniteTimeouts <- {c \in Timeouts : EndTimeIsInfinite(c) = {TRUE}}

(* Every behaviour of the code is one of the abstract FIFO queues: no      *)
(* waiter is lost between its check of the cell and a later wake, wakes    *)
(* take the oldest waiters and return how many they took, a wait that      *)
(* times out was never woken, and a wait with no deadline never times out. *)
AbstractSpec == Abstract!Spec

=============================================================================

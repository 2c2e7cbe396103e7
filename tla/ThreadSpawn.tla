----------------------------- MODULE ThreadSpawn -----------------------------
(***************************************************************************)
(* Wasm thread spawn in src/Source/Runtime/Threads.cpp: the launchThread   *)
(* intrinsic, getFunctionFromTable, and threadFunc run by the new host     *)
(* thread.  A Thread record holds GCPointers to a cloned Context and to    *)
(* the entry and error functions, so while it exists they are GC roots;    *)
(* the global threads vector, under threadsMutex, lists the records.       *)
(*                                                                         *)
(* The work a thread does without touching shared state (allocating the   *)
(* record, cloning the context, the two table lookups) is one step; each   *)
(* threadsMutex critical section is one step.                              *)
(***************************************************************************)
EXTENDS Naturals, Sequences, SequencesExt, FiniteSets

CONSTANTS
  Callers,       \* the Wasm threads that call launchThread
  Recs,          \* the memory Thread records can be allocated at
  NoRec,         \* no record
  ElementBytes,  \* sizeof(TableInstance::FunctionElement)
  EndOffset,     \* table->endOffset
  ElementType,   \* ElementType[i]: the signature stored at element i
  ExpectedType,  \* FunctionType::get(ResultType::none, {ValueType::i32})
  Indices,       \* the function indices launchThread is called with
  MaxLaunches    \* bound: launchThread calls per caller

ASSUME /\ NoRec \notin Recs
       /\ Cardinality(Recs) >= Cardinality(Callers) * MaxLaunches
       /\ \A i \in Indices : i * ElementBytes < EndOffset => i \in DOMAIN ElementType

VARIABLES
  records,     \* the Thread objects allocated and not deleted
  threads,     \* the global std::vector<Thread*>
  callerPc,    \* where each launchThread caller is
  callerRec,   \* the Thread* local of launchThread
  launches,    \* launchThread calls made per caller
  childPc,     \* where the host thread of each record is ("none": no thread)
  crashed      \* the process has aborted (double fault)

vars == <<records, threads, callerPc, callerRec, launches, childPc, crashed>>

ChildPcs == {"none", "entry", "error", "exit", "delete", "gone"}

-----------------------------------------------------------------------------
(* getFunctionFromTable: an element past endOffset is undefined; one whose *)
(* stored type is not the expected one is a signature mismatch.            *)
GetFunctionFromTable(i) ==
  IF i * ElementBytes >= EndOffset THEN "undefinedTableElement"
  ELSE IF ElementType[i] # ExpectedType THEN "indirectCallSignatureMismatch"
  ELSE "function"

(* The records `new Thread()` may return: not live, and not the record of *)
(* a host thread still running.                                           *)
FreeRecs == {r \in Recs : r \notin records /\ childPc[r] \in {"none", "gone"}}

(* launchThread, up to taking threadsMutex: allocate the record, clone the *)
(* context into it, resolve the entry and then the error function.  A      *)
(* failed lookup throws the trap out of the intrinsic to the Wasm caller.  *)
LaunchResolve(c, entryIndex, errorIndex) ==
  LET r == CHOOSE x \in FreeRecs : TRUE IN
  /\ callerPc[c] = "idle" /\ launches[c] < MaxLaunches /\ ~crashed
  /\ records' = records \cup {r}
  /\ launches' = [launches EXCEPT ![c] = @ + 1]
  /\ childPc' = [childPc EXCEPT ![r] = "none"]
  /\ IF GetFunctionFromTable(entryIndex) = "function"
          /\ GetFunctionFromTable(errorIndex) = "function"
       THEN /\ callerPc' = [callerPc EXCEPT ![c] = "register"]
            /\ callerRec' = [callerRec EXCEPT ![c] = r]
       ELSE UNCHANGED <<callerPc, callerRec>>
  /\ UNCHANGED <<threads, crashed>>

(* Under threadsMutex push the record; then start the detached host       *)
(* thread running threadFunc, and return.                                  *)
LaunchRegister(c) ==
  LET r == callerRec[c] IN
  /\ callerPc[c] = "register" /\ ~crashed
  /\ threads' = Append(threads, r)
  /\ childPc' = [childPc EXCEPT ![r] = "entry"]
  /\ callerPc' = [callerPc EXCEPT ![c] = "idle"]
  /\ callerRec' = [callerRec EXCEPT ![c] = NoRec]
  /\ UNCHANGED <<records, launches, crashed>>

-----------------------------------------------------------------------------
(* threadFunc: the entry function returns, or throws a runtime exception   *)
(* and the error function is called.                                       *)
EntryReturns(r) ==
  /\ childPc[r] = "entry" /\ ~crashed
  /\ childPc' = [childPc EXCEPT ![r] = "exit"]
  /\ UNCHANGED <<records, threads, callerPc, callerRec, launches, crashed>>

EntryThrows(r) ==
  /\ childPc[r] = "entry" /\ ~crashed
  /\ childPc' = [childPc EXCEPT ![r] = "error"]
  /\ UNCHANGED <<records, threads, callerPc, callerRec, launches, crashed>>

(* The error function returns, or throws: a fatal "double fault". *)
ErrorHandlerRuns(r) ==
  /\ childPc[r] = "error" /\ ~crashed
  /\ \/ childPc' = [childPc EXCEPT ![r] = "exit"] /\ UNCHANGED crashed
     \/ crashed' = TRUE /\ UNCHANGED childPc
  /\ UNCHANGED <<records, threads, callerPc, callerRec, launches>>

(* Mutant: the last record of the vector is erased, not the thread's own. *)
ThreadExitPopBack(r) ==
  /\ childPc[r] = "exit" /\ ~crashed
  /\ threads' = SubSeq(threads, 1, Len(threads) - 1)
  /\ childPc' = [childPc EXCEPT ![r] = "delete"]
  /\ UNCHANGED <<records, callerPc, callerRec, launches, crashed>>

(* Destroy the wake event, then under threadsMutex find the record in the *)
(* vector and erase it.                                                    *)
ThreadExit(r) ==
  /\ childPc[r] = "exit" /\ ~crashed
  /\ threads' = RemoveFirst(threads, r)
  /\ childPc' = [childPc EXCEPT ![r] = "delete"]
  /\ UNCHANGED <<records, callerPc, callerRec, launches, crashed>>

(* delete thread: its GCPointers release the context and functions. *)
ThreadDelete(r) ==
  /\ childPc[r] = "delete" /\ ~crashed
  /\ records' = records \ {r}
  /\ childPc' = [childPc EXCEPT ![r] = "gone"]
  /\ UNCHANGED <<threads, callerPc, callerRec, launches, crashed>>

-----------------------------------------------------------------------------
Init ==
  /\ records = {}
  /\ threads = <<>>
  /\ callerPc = [c \in Callers |-> "idle"]
  /\ callerRec = [c \in Callers |-> NoRec]
  /\ launches = [c \in Callers |-> 0]
  /\ childPc = [r \in Recs |-> "none"]
  /\ crashed = FALSE

(* The steps of the host thread running record r. *)
Child(r) ==
  EntryReturns(r) \/ EntryThrows(r) \/ ErrorHandlerRuns(r) \/ ThreadExit(r) \/ ThreadDelete(r)

(* The program stops once every call is made and every host thread is     *)
(* gone, or after a double fault.                                          *)
Terminated ==
  /\ \/ crashed
     \/ /\ \A c \in Callers : callerPc[c] = "idle" /\ launches[c] = MaxLaunches
        /\ \A r \in Recs : childPc[r] \in {"none", "gone"}
  /\ UNCHANGED vars

Next ==
  \/ \E c \in Callers, e, x \in Indices : LaunchResolve(c, e, x)
  \/ \E c \in Callers : LaunchRegister(c)
  \/ \E r \in Recs : Child(r)
  \/ Terminated

(* Host threads are preemptively scheduled; a launchThread call that has  *)
(* resolved its functions goes on to register them.  Wasm code is not      *)
(* obliged to call launchThread, and an entry or error function may run    *)
(* forever; both are left unfair.                                          *)
Fairness ==
  /\ \A c \in Callers : WF_vars(LaunchRegister(c))
  /\ \A r \in Recs : WF_vars(ThreadExit(r)) /\ WF_vars(ThreadDelete(r))

Spec == Init /\ [][Next]_vars /\ Fairness

-----------------------------------------------------------------------------
(* The records whose host thread is running threadFunc (launchThread has  *)
(* pushed them, threadFunc has not erased them yet).                      *)
Running == {r \in Recs : childPc[r] \in {"entry", "error", "exit"}}

(* With callers pushing and exiting threads erasing concurrently, the     *)
(* threads vector lists each running thread's record exactly once and     *)
(* nothing else, and no record is deleted while its thread still runs:    *)
(* its context and functions stay GC roots for as long as threadFunc uses *)
(* them.                                                                   *)
ThreadListAccounting ==
  /\ ToSet(threads) = Running
  /\ Len(threads) = Cardinality(Running)
  /\ \A r \in Recs : childPc[r] \in {"entry", "error", "exit", "delete"} => r \in records

(* Every Thread record is owned: by the launchThread call that is about   *)
(* to register it, or by its host thread until threadFunc deletes it.     *)
(* A trap from getFunctionFromTable leaves launchThread after `new Thread` *)
(* and cloneContext, with nobody to delete the record.                    *)
NoLeakedRecord ==
  records \subseteq {callerRec[c] : c \in Callers}
                      \cup {r \in Recs : childPc[r] \in {"entry", "error", "exit", "delete"}}

=============================================================================

---------------------------- MODULE WaitWakeSpec ----------------------------
(***************************************************************************)
(* What atomic.wait / atomic.wake promise, with no wait lists, reference   *)
(* counts, locks or wake tokens: each address has one FIFO queue of        *)
(* parked threads.  A wait compares the cell with its expected value and   *)
(* parks in one atomic step; a wake unparks the oldest min(count, queue    *)
(* length) threads, all of them when count = UINT32_MAX, and returns how   *)
(* many; a wake of 0 returns 0 at once.  A parked thread may time out only *)
(* while it is still queued and its timeout is not infinite.  Every wait   *)
(* reports exactly one outcome.  WaitWake.tla shows that waitOnAddress and *)
(* wakeAddress of src/Source/Runtime/Threads.cpp implement this module.    *)
(***************************************************************************)
EXTENDS Naturals, Sequences, SequencesExt

CONSTANTS
  Threads, Addrs, Vals,
  UINT32_MAX,        \* the count meaning "wake all"
  WakeCounts,        \* the counts wakes are issued with
  Timeouts,          \* the timeouts waits are issued with
  InfiniteTimeouts   \* those of them that mean "no deadline"

VARIABLES
  memory,   \* the Wasm memory cells
  queue,    \* queue[a]: threads parked on a, oldest first
  status,   \* where each thread's current call is
  call,     \* each thread's current (or last) call
  ret       \* what a thread's wake call returns

vars == <<memory, queue, status, call, ret>>

Calls == [kind : {"wait"}, addr : Addrs, expected : Vals, timeout : Timeouts]
           \cup [kind : {"wake"}, addr : Addrs, count : WakeCounts]

Status == {"idle", "calling", "queued", "woken", "timedOut", "notEqual", "done"}

Init ==
  /\ memory = [a \in Addrs |-> 0]
  /\ queue = [a \in Addrs |-> <<>>]
  /\ status = [t \in Threads |-> "idle"]
  /\ call = [t \in Threads |-> [kind |-> "none"]]
  /\ ret = [t \in Threads |-> 0]

\* A Wasm atomic store.
Store(a, v) ==
  /\ memory' = [memory EXCEPT ![a] = v]
  /\ UNCHANGED <<queue, status, call, ret>>

\* Thread t calls atomic_wait or atomic_wake; a wake of 0 returns at once.
Call(t, c) ==
  /\ status[t] = "idle"
  /\ call' = [call EXCEPT ![t] = c]
  /\ ret' = [ret EXCEPT ![t] = 0]
  /\ status' = [status EXCEPT ![t] = IF c.kind = "wake" /\ c.count = 0 THEN "idle" ELSE "calling"]
  /\ UNCHANGED <<memory, queue>>

\* Compare and park, atomically.
Wait(t) ==
  LET a == call[t].addr IN
  /\ status[t] = "calling" /\ call[t].kind = "wait"
  /\ IF memory[a] = call[t].expected
       THEN /\ queue' = [queue EXCEPT ![a] = Append(@, t)]
            /\ status' = [status EXCEPT ![t] = "queued"]
       ELSE /\ status' = [status EXCEPT ![t] = "notEqual"]
            /\ UNCHANGED queue
  /\ UNCHANGED <<memory, call, ret>>

\* How many of the len queued threads a wake of count c unparks.
NumToWake(c, len) == IF c = UINT32_MAX \/ c > len THEN len ELSE c

Wake(t) ==
  LET a == call[t].addr
      n == NumToWake(call[t].count, Len(queue[a]))
      woken == ToSet(SubSeq(queue[a], 1, n))
  IN  /\ status[t] = "calling" /\ call[t].kind = "wake"
      /\ queue' = [queue EXCEPT ![a] = SubSeq(@, n + 1, Len(@))]
      /\ status' = [u \in Threads |-> IF u \in woken THEN "woken"
                                      ELSE IF u = t THEN "done" ELSE status[u]]
      /\ ret' = [ret EXCEPT ![t] = n]
      /\ UNCHANGED <<memory, call>>

TimeOut(t) ==
  /\ status[t] = "queued"
  /\ call[t].timeout \notin InfiniteTimeouts
  /\ queue' = [a \in Addrs |-> Remove(queue[a], t)]
  /\ status' = [status EXCEPT ![t] = "timedOut"]
  /\ UNCHANGED <<memory, call, ret>>

Return(t) ==
  /\ status[t] \in {"woken", "timedOut", "notEqual", "done"}
  /\ status' = [status EXCEPT ![t] = "idle"]
  /\ UNCHANGED <<memory, queue, call, ret>>

Next ==
  \/ \E a \in Addrs, v \in Vals : Store(a, v)
  \/ \E t \in Threads, c \in Calls : Call(t, c)
  \/ \E t \in Threads : Wait(t) \/ Wake(t) \/ TimeOut(t) \/ Return(t)

Spec == Init /\ [][Next]_vars

=============================================================================

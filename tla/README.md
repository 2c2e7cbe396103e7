# TLA+ models of WAVM's atomic wait/wake, thread spawn and module emitter

This directory is a model-checking development beside `src/Source/Runtime/Threads.cpp`,
the runtime's Wasm threads support, and `src/Lib/LLVMJIT/LLVMEmitModule.cpp`, the
LLVM module emitter.
Every module is written from the C++ source. `PROJECT.json` maps each definition to
the lines it models, lists the runs, the mutants that show each property can fail, the
findings and the hazards.

## 1. The system

| Part | Source | State | Operations |
|---|---|---|---|
| Wait-list table | Threads.cpp 21-78 | `addressToWaitListMap` (address → `WaitList*`) under `addressToWaitListMapMutex`; per list an atomic `numReferences`, a mutex and the FIFO vector `wakeEvents` | `openWaitList` (find and increment, or create with 1), `closeWaitList` (atomic decrement, then a re-check under the table mutex that deletes the list and erases its entry) |
| Wake token | Threads.cpp 31-38 | a thread-local `Platform::Event* threadWakeEvent`, created on a thread's first wait, destroyed by `threadFunc` (294-297) as a spawned thread exits | create, `signal`, `wait(deadline)`, destroy (auto-reset event; the Platform code is not under src/) |
| Timeout decoding | Threads.cpp 100-118 | none | `getEndTimeFromTimeout`: NaN, ±inf and too-large values give `UINT64_MAX` (wait forever); otherwise now + timeout·1000 µs, with a fatal check against wrap-around |
| `waitOnAddress` | Threads.cpp 120-171 | caller's locals | open the list; under its mutex compare the cell with the expected value and, if equal, append the token; block; on timeout re-take the list mutex and either remove the token (timed out) or find it gone and reset the signal (woken); close the list |
| `wakeAddress` | Threads.cpp 173-206 | caller's locals | a count of 0 returns 0; otherwise open the list, under its mutex signal and erase the oldest `min(count, queued)` tokens (`UINT32_MAX` = all), close the list |
| Atomic intrinsics | Threads.cpp 208-248 | none | alignment and bounds checks, then the calls above |
| Thread spawn | Threads.cpp 12-19, 40-42, 250-337 | `Thread` records (GC roots for a cloned context and two functions), the `threads` vector under `threadsMutex` | `launchThread` (allocate, clone, resolve two table elements, push, start a detached host thread), `threadFunc` (run entry; on exception run the error function, a second exception is fatal; destroy the token; erase from the vector; delete) |
| Module emitter | LLVMEmitModule.cpp | LLVM module under construction | `emitModule` (sequential) |

How they interact: any number of host threads run Wasm code and call the intrinsics
concurrently. A waiter and a waker meet through the table entry for the address; they
share the `WaitList` only while both hold a reference. The waker signals the waiter's
thread-local event. Mutexes are never nested (the table mutex and a list mutex are
taken one after the other, never together; `threadsMutex` is separate). So each
critical section can be modelled as one atomic step. The atomic decrement of
`closeWaitList` and the blocking wait on the event stay separate steps.

Hard behaviours the code has to get right, and that a test would hardly reach:
- a list that hits 0 references is reopened ("resurrected") before its closer re-checks;
- a timeout races a wake that has already taken the token;
- a store and wake fall between the waiter's comparison and its blocking;
- a thread's token is reused by its next wait while a signal may be stale;
- a trap inside `launchThread` happens after allocation;
- exiting threads erase their own records while other threads push.

## 2. Modules

### `WaitWakeSpec` — what wait/wake promise (abstract)
It has one FIFO queue per address and statuses idle / calling / queued / woken /
timedOut / notEqual / done. A wait compares and parks in one step. A wake unparks
`NumToWake(count, len)` oldest threads and returns that number. A wait may time out
only while queued and with a finite timeout. It is the contract of spec.md §4.2.

### `WaitWake` — `waitOnAddress`, `wakeAddress`, `openWaitList`, `closeWaitList`
- State:
  - `memory`
  - `addressToWaitListMap`
  - `allocated` (live `WaitList` objects; ids are model values `ListIds`)
  - `numReferences`, `wakeEvents`
  - `threadWakeEvent` ("none", "created" or "destroyed"), `signaled` (event state)
  - per thread `pc`, `op`, `waitList`, `endTimeInfinite`, `result`, `opsDone`
  - `crashed` (the process aborted)
  - `dangling`, a history variable: the threads whose `waitList` local points to a
    deleted list
- Actions, one per critical section or blocking point:
  - `WaitOpen` (lines 120-127: deadline and `openWaitList`)
  - `WaitCheck` (129-146)
  - `WaitWoken` / `WaitTimeout` (148-150: the event wait returns signaled or at the deadline)
  - `WaitTimedOutLocked` (151-167)
  - `WakeOpen` (173-178)
  - `WakeSignal` (179-198)
  - `CloseDecrement` (65-68)
  - `CloseRecheck` (70-77) and `DeleteWaitList` (74-75)
  - `CloseRecheckFreed` (70-76): the same re-check by a thread in `dangling`
  - `Return`
  - `ThreadExit` (`threadFunc` 293-297: the thread's Wasm code has returned, and the
    token, if created, is destroyed; the thread is `exited`)
  - `Store`, the environment's Wasm store
- A timeout is kept as its class, and `WaitOpen` decodes it to "no deadline" or "a
  deadline that passes", chosen from what `getEndTimeFromTimeout` can give for that
  class (`EndTimeIsInfinite`; see `WaitTimeouts`).
- `new WaitList` may be placed at any id not held by a live list (`FreeListIds`),
  including the id of a deleted list that a closer still points to.
- Undefined behaviour: `CloseRecheckFreed` re-reads a deleted list. If its memory now
  holds another live list (for any address), the read sees that list's count, and at
  0 the thread deletes it and erases its own address's entry. Otherwise freed memory
  reads non-zero (return) or zero (delete again, which the allocator aborts on:
  `crashed`). `Spec` has these steps.
- `DefinedSpec` is `Spec` without `CloseRecheckFreed`: a thread about to read a
  deleted list stops there. The C++ promises nothing after that read, so the passing
  runs check the code's properties on `DefinedSpec`, and the `waitwake_uaf` run shows
  on `Spec` that the read is reachable.
- `Abstract == INSTANCE WaitWakeSpec WITH ...` maps the queues to the tokens in
  `wakeEvents` of the mapped list. It maps `pc`/`result` to the abstract status and
  `op` to `call`. `AbstractSpec` is checked as a property.

### `ThreadSpawn` — `launchThread`, `getFunctionFromTable`, `threadFunc`
- State: `records` (live `Thread` objects), `threads` (the vector), per caller
  `callerPc`/`callerRec`/`launches`, per record `childPc`, `crashed`.
- `LaunchResolve` is the allocation, clone and both lookups: a failed lookup traps
  back to Wasm.
- `LaunchRegister` is the push under `threadsMutex` and the thread start.
- `EntryReturns` / `EntryThrows` / `ErrorHandlerRuns` (the second throw is fatal),
  `ThreadExit` (erase under the mutex), `ThreadDelete`.

### `WaitTimeouts` — the timeout classes shared by `WaitWake` and `TimeoutDecode`
This module defines the six branches `getEndTimeFromTimeout` can take. For each
branch, `EndTimeIsInfinite` gives the deadlines it can produce. NaN and ±inf always
give `UINT64_MAX`. The other branches can also give it: a non-positive timeout at
clock `UINT64_MAX`, an in-range sum landing on `UINT64_MAX` (finding 6), or a
too-large product (always, except the undefined conversion at 2^64, which can give
`startTime`; finding 4).

### `TimeoutDecode` — `getEndTimeFromTimeout` and the timed wait
The arithmetic is modelled at a scaled width:
- U64 is W bits.
- F64 has a P-bit significand and an unbounded exponent. `RoundToF64` rounds to
  nearest, ties to even. With W = 6 and P = 3, `F64(UINT64_MAX - 1)` rounds up to 2^W,
  exactly as `F64(2^64 - 2)` rounds to 2^64 at 64/53 bits.
- `1000.0` is the multiplier K = 4.
- The out-of-range conversion `U64(2^W)` is undefined behaviour. The model takes what
  x86-64 builds produce: 0 from the SSE2 sequence, 2^64 - 1 from AVX-512
  `vcvttsd2usi`.
- A thread's call decodes its deadline from the clock `now`. An overflow is the
  `errorUnless` abort (`crashed`); the call's timeout and start are recorded either
  way. `Expire` is the OS returning at the deadline.

### `AtomicIntrinsics` — `atomic_wake`, `atomic_wait_i32/i64`, `misalignedAtomicTrap`
One action per intrinsic. Each runs the validation of lines 218-244 (`Validate`: the
bounds test, then the alignment test) over 5-bit offsets and the memory's `endOffset`,
and records the trap or the host call it reaches. `AccessWithinMemory` asks whether
every access that reaches the host call lies below `endOffset`.

### `Emitter` — `EmitModuleContext` and `emitModule`
- Emission is sequential: one action per constructor, per loop iteration and per
  loop exit. The IR module is an input chosen in `Init` from every valid module within
  the bounds, on both targets (SEH or not).
- The LLVM module is kept as:
  - the sequence of named objects created in it;
  - the five handle arrays;
  - the default offsets;
  - the function shells (name, signature, personality, prefix words, body emitted);
  - the debug basic types;
  - a count of `finalize` calls.
- `getExternalName` is not under src/. It is modelled as the pair (prefix, index),
  which is as injective as the decimal string, since no prefix is another followed
  by digits.
- The body emitter either succeeds or throws out of `emitModule`.

### MC modules
`MCWaitWake`, `MCThreadSpawn`, `MCTimeoutDecode`, `MCAtomicIntrinsics` and
`MCEmitter` give the constants TLC needs:
- `UINT32_MAX` is 3 (`MCUint32Max`). No run queues more than two waiters, so "wake
  all" behaves like any count larger than the queue; both give the queue's size, and
  the runs check that outcome, not which test of line 185 produced it;
- the wake-count sets;
- the table signature function;
- the finite timeouts, including negative ones, which a .cfg cannot write;
- symmetry over threads and over list ids (the allocator's choice among free ids
  is an `\E`, so the ids are interchangeable);
- `MCTimeoutsBelow2W`, the finite timeouts without the one whose product is 2^W.

## 3. Runs

| Run | cfg | Checks | Shows |
|---|---|---|---|
| waitwake_safety | WaitWake_safety.cfg | `TypeOK`, `WaitListTableConsistent`, `TokenAccounting` on `DefinedSpec` | 3 threads × 2 operations, 2 list ids, symmetry over threads and ids: the table holds exactly the allocated lists, one per address; each count equals its holders; a 0-count list always has a closer about to re-check it; every queued token belongs to a parked thread of that list exactly once; a parked thread's event is signaled iff its token was taken off a list; a thread that is not parked never has a pending signal (the timeout path's reset is what keeps this), so the token a thread destroys at exit is on no list and is never signaled again. About 2.3M states, 1.5 min. |
| waitwake_fifo | WaitWake_fifo.cfg | `WaitListTableConsistent`, `AbstractSpec` on `DefinedSpec` | 3 threads × 1 operation over two addresses, 2 list ids reused across addresses, counts {0, 1, UINT32_MAX}, threads exiting at any point (0.84M states, about 1.5 min): the table keeps one live list per address with exact counts, and the implementation refines the per-address FIFO abstract spec (the right waiters in the right order, the right return values, no lost wakeup between check and park). |
| waitwake_reuse | WaitWake_reuse.cfg | `AbstractSpec`, `WaitReturns` on `DefinedSpec` | 2 threads × 3 operations on one address (0.6M states, about 2 min): the refinement with tokens reused across waits and list ids reused by the allocator, and a signaled wait, or one with a finite decoded deadline, returns. |
| waitwake_uaf | WaitWake_uaf.cfg | `NoUseAfterFree` (violation) on `Spec` | the use-after-free in `closeWaitList` (finding 1). |
| threadspawn | ThreadSpawn.cfg | `ThreadListAccounting` | 2 callers × 2 launches, 4 records, indices {0 good, 1 wrong signature, 2 past the end}: the vector lists exactly the running threads, once each, and a running thread's record is never deleted. |
| threadspawn_leak | ThreadSpawn_leak.cfg | `NoLeakedRecord` (violation) | the leak in `launchThread` (finding 2). |
| emitter | Emitter.cfg | `EmittedModuleMatchesSpec` | every valid IR module with up to 2 types over 2 signatures, 1 import, 2 definitions and 1 table, memory, global and exception type, on both targets (64k states): when `emitModule` returns, the symbols are exactly spec.md §6's list with no name created twice; function index i is the shell named for it with the signature of its type; definition j has the personality and the prefix words (`functionDefInstance<j>`, `typeIds[type of j]`); the default offsets, handle kinds and debug types are as §3 says; and `finalize` ran once. |
| timeout_fatal | TimeoutDecode_fatal.cfg | `NoFatalTimeout` (violation) | finding 3, through the wrap below 2^W (timeout 14 at clock 8). |
| timeout_duration | TimeoutDecode_duration.cfg | `TimedWaitLastsItsTimeout` (violation) | finding 4: the product 2^W times out at once (timeout 16 at clock 1). |
| timeout_sentinel | TimeoutDecode_sentinel.cfg | `TimedWaitLastsItsTimeout` (violation) | finding 6: without the 2^W product, a deadline summing to `UINT64_MAX` never passes (timeout 14 at clock 7). |
| timeout_negative | TimeoutDecode_negative.cfg | `NegativeTimeoutReturnsAtOnce` (violation) | finding 5. |
| intrinsics | AtomicIntrinsics.cfg | `AccessWithinMemory` (violation) | finding 7: an aligned offset equal to `endOffset` reaches the host call. |

Bounds:
- Two waiters and one waker on one address are the smallest case that has a partial
  wake, FIFO order, a timeout racing a wake and a resurrection.
- Three operations per thread (reuse run) is the smallest case where a token is
  reused after a timed-out wait.
- Two list ids suffice: at most one list per address is live. With one address,
  a new list can land on the deleted list's id or on the other one. With two
  addresses, a deleted list's id can be reused for the other address.
- One address suffices for the table and the tokens of one address. The fifo run
  adds a second address, because reused memory is where lists of different addresses
  meet.
- Timeouts: `InRange` can decode to either kind of deadline, so the safety run uses
  it alone. The refinement runs add `PlusInf`, the class the abstract spec never
  lets time out.
- TimeoutDecode: W = 6 and P = 3 keep the one property that matters at 64/53 bits:
  `F64(UINT64_MAX - 1)` rounds to 2^W. The finite timeouts give products that are
  negative, 0, small, the largest float below 2^W (56), exactly 2^W (64, also reached by
  rounding a tie up), and beyond (80). `MCTimeoutsBelow2W` drops 16, so that the
  fatal and sentinel runs show the defined arithmetic rather than the undefined
  conversion. The clock ranges over 1..UINT64_MAX. One thread suffices: the decode
  involves no other thread.
- AtomicIntrinsics: `endOffset` in {16, 24}, multiples of 8 as a whole number of
  pages is, and offsets 0..31 cover at, below and past the end, aligned and not, for
  both widths.
- Emitter: 2 types make the type index differ from the definition's position. One
  import makes definition indices differ from function indices. One element of each
  other kind covers both arms of the default-offset tests.

Mutants (PROJECT.json) check that each property fails when one definition takes a
plausible bug:
- a new list counted twice;
- no re-check before delete;
- the timeout path not resetting a stale signal;
- the newest waiters woken first;
- the prefix's type word indexed by the definition's position;
- the comparison skipped;
- the timeout path re-parking;
- the vector's last element erased instead of the thread's own.

## 4. Fairness

Threads are preemptively scheduled host threads. Each runtime step of a thread (all
actions but the calls and stores) is weakly fair: once enabled it stays enabled until
taken. That includes the deadline of a finite wait, since the OS wakes a timed wait.
Wasm code is never obliged to make a call, so `WaitOpen`, `WakeOpen` and `Store` are
unfair, and so is `ThreadExit`: Wasm code need not return. `ThreadSpawn` is fair on
registration, exit and delete only: an entry or error function may run forever. In
`WaitWake` a stop (stuttering) is allowed only after a crash, or when every thread has
exited or is parked forever with no signal. `DefinedSpec` also stops when the only
threads left are about to read a deleted list; its fairness is on the defined steps.
So deadlock checking stays on and means something. In `TimeoutDecode` the clock and the
OS wake at the deadline are weakly fair, and calls are not. `Emitter` is sequential and
checks no liveness.

## 5. Findings

1. **Use-after-free in `closeWaitList`** (Threads.cpp:68-75).
   - T1 decrements to 0.
   - T2 opens the same list (1), closes it (0), re-checks and deletes it.
   - T1's re-check reads freed memory. If it reads 0, T1 deletes again and erases
     the address entry.
   - If `new WaitList` has meanwhile put a list for another address at the same
     memory, T1 reads that list's count. If that count is 0 (its own closer is
     between decrement and re-check), T1 deletes it and erases its own address's
     entry, so the other address's entry points to freed memory. TLC shows this
     (`WaitListTableConsistent` broken) under the bounds of `WaitWake_fifo.cfg` with
     `Spec` in place of `DefinedSpec`.
   - spec.md §4.2 says the double-check makes resurrection safe. It does not: the
     count is re-read through a pointer the closer no longer owns.
   - Two `atomic_wait` calls that return "not equal" are enough.
2. **Leak in `launchThread`** (Threads.cpp:320-323).
   - The `Thread` is allocated and its context cloned before the table lookups.
   - A trap leaks the record, and its GC roots keep the context alive.

3. **Guest-triggered abort in `getEndTimeFromTimeout`** (Threads.cpp:111-114).
   - Any product up to `F64(UINT64_MAX - 1)` = 2^64 is accepted.
   - For the largest double below 2^64, `startTime + U64(us)` wraps once the clock
     passes 2048 µs.
   - `errorUnless` then aborts the process. A Wasm guest can do this with
     `atomic_wait(..., timeout = 1.8e16)`.
4. **Undefined conversion at 2^64** (Threads.cpp:113).
   - A product of exactly 2^64 passes the `<=` test, and `U64(2^64)` is undefined.
   - On x86-64 SSE2 code it gives 0: a timeout of about 584,000 years returns "timed
     out" at once.
   - With AVX-512 it gives 2^64 - 1, and the process aborts.
   - spec.md §4.2 says such a timeout waits forever.
   - TLC: timeout 16 (product 2^W), called at clock 1, gets deadline 1 and times out
     at clock 1.
5. **-infinity waits forever** (Threads.cpp:105).
   - spec.md §8 says any negative timeout returns at once.
   - spec.md §4.2 ("NaN or infinite → infinite") agrees with the code, so the spec
     contradicts itself.
6. **Deadline equal to the "forever" sentinel** (Threads.cpp:104), a spec gap.
   - `startTime + U64(us)` can be exactly `UINT64_MAX`, which `waitForEvent` reads as
     "no deadline". At W = 6, timeout 14 (56) at clock 7 gives 63. Any non-positive
     timeout at clock `UINT64_MAX` gives 63 too.
   - Such a wait never times out. spec.md §4.2 prescribes the same arithmetic and is
     silent on the collision.
   - Run `timeout_sentinel` (timeouts without 16): timeout 14 at clock 7 is still
     waiting when the clock reaches its end. At 64 bits it is visible only after
     about 584,000 years.
   - `WaitWake` lets an in-range or non-positive timeout decode to "no deadline", so
     its `WaitReturns` is stated on the decoded deadline and does not assume this
     edge away.
7. **Access at `endOffset`** (Threads.cpp:220, 230, 243), a divergence from spec.md.
   - The strict `>` test admits an aligned offset equal to `endOffset`, so the 4- or
     8-byte cell starts at the end of the memory.
   - spec.md §8 gives that case the policy "out of bounds" and asks for
     `offset + width <= endOffset`; its open question asks whether the code relies
     on a guard region.
   - TLC: `atomic_wake` at offset 16 of a memory with `endOffset` 16 reaches
     `wakeAddress`. Whether the access is harmless depends on how `endOffset` is set,
     which is outside src/.

Observations without a run:
- **Units.** The code multiplies the timeout by 1000.0 into microseconds, so it reads
  milliseconds. spec.md calls the argument seconds, and its scenario 3 (0.010 s waits at
  least 10 ms) would wait 10 µs. spec.md's own formula matches the code.

## 6. Not modelled yet, and the plan

Done:
- sitting 1: `WaitWakeSpec`, `WaitWake`, `ThreadSpawn`;
- sitting 2: `Emitter`, `TimeoutDecode` (with `WaitTimeouts` factored out of
  `WaitWake`), `AtomicIntrinsics`;
- sitting 3: thread exit (`ThreadExit`, the token's destruction) composed into
  `WaitWake`; the table and the refinement checked over two addresses;
- sitting 4: `TimedWaitLastsItsTimeout` replaces the formula comparison
  `DecodeAgreesWithSpec` and covers the sentinel collision (finding 6). The emitter's
  failure path is checked by `FinalizeAfterAllBodies` with a swallowed-exception mutant;
- revision 5: the allocator may reuse a deleted list's memory while a closer still
  points to it (`dangling`, `CloseRecheckFreed`, `DefinedSpec`). The timeout classes
  now decode to every deadline kind the code can give. Findings 6 and 7 have runs of
  their own. `WaitWakeClassSound`, `TrapsAsSpecified` and `FinalizeAfterAllBodies`
  are gone: each restated the branches of the code it checked.

Every operation of `Threads.cpp` and `emitModule` that changes state is an action of a
module. What remains unmapped is includes, declarations and closing braces.

Possible next steps:
1. A larger reuse instance (3 threads × 2 calls) for `WaitReturns`. At present it
   exceeds the 5-minute budget.
2. No separate i32/i64 instance is planned. i32 and i64 waits on one address share a
   list, because the list is keyed by the host address alone. The width affects only the
   compare under the list mutex, which `WaitWake` already abstracts to "equal or not".

Left out:
- the LLVM IR and debug-info builders, `EmitFunctionContext`, and the `Platform`, GC
  and memory implementations. They are not in this repository or are pure I/O. Only
  their effects as used here are modelled.
- `Timing` and `Log` calls (lines 109 and 219 of the emitter, 288 of Threads.cpp):
  they have no effect on the state.

# A TLA+ model of coraza-node

coraza-node runs the Coraza web application firewall, compiled to WebAssembly, inside Node.js, and
puts it in front of Express, Fastify, Next.js and NestJS applications. This directory holds
specifications of its concurrent parts, of its WASM boundary and of its pure algorithms, the TLC
configurations that check them on small instances, and proofs, checked by TLAPS, of what matters most
for instances of every size.

| file | what it is |
| --- | --- |
| `WAFPool.tla` | the worker pool: `packages/core/src/pool.ts` and `pool-worker.ts` |
| `TxService.tla` | what the pool promises its users; `WAFPool` is shown to implement it |
| `MCWAFPool.tla`, `MCWAFPool_*.cfg` | small pools for TLC |
| `WAFPoolProofs.tla` | theorems about `WAFPool`: types, accounting, rotation; its slots and threads, and its first calls |
| `PoolTransactionProofs.tla` | ...: handles, queues and the workers' maps; it implements `TxService` |
| `PoolBoot.tla` | `WAFPool.create()` |
| `PoolRules.tla`, `PoolBootProofs.tla` | a pool that starts with its rules and its binary, and theorems about it and about both |
| `CoreRuleSet.tla` | the presets of the Core Rule Set, and what loading them leaves of it |
| `WasmPatch.tla` | the rewriting of a WASM binary's initial memory |
| `MCPoolBoot.tla`, `MCPoolBoot.cfg` | a small pool that starts, from small binaries, with any rules |
| `Adapters.tla`, `Adapters*.cfg` | a request under each of the four framework adapters |
| `AdaptersProofs.tla` | theorems about `Adapters` |
| `SyncAdapters.tla`, `MCSyncAdapters*` | a request over a synchronous WAF, with the inspection of its response |
| `NestedCalls.tla` | ...: the nested calls of a block page, one by one |
| `SyncAdaptersProofs.tla` | theorems about `SyncAdapters` and `NestedCalls` |
| `Ignore.tla`, `IgnoreVerdicts.tla` | `ignore.ts` and `skip.ts`: what the lists say, and how a verdict is made of them |
| `HostRx.tla`, `MCHostRx*` | regular expressions: loading and evaluating rules through the host |
| `NeedleSearch.tla` | the search of the prefilter: for one literal, and for several with a shift table |
| `HostRxProofs.tla` | theorems about `HostRx` and `NeedleSearch` |
| `RxPrefilter.tla`, `RegexSemantics.tla` | the prefilter, and what an expression matches |
| `WasmBridge.tla`, `BundleCodec.tla` | the WAF, its transactions and the WASM exports below them; the request bundle |
| `MCWasmBridge.tla`, `MCWasmBridge.cfg` | a small instance for TLC |
| `WasmBridgeProofs.tla` | theorems about `WasmBridge` and `BundleCodec` |
| `Recursion.tla` | lemmas for the proofs: induction and recursion over the natural numbers |
| `PROJECT.json` | components, runs, mutations, source lines of every definition, findings, hazards |

Operators whose name only differs from another's by what they do wrong (`ReleasedNever` beside
`Released`, `OpenOnFailure` beside `OnFailure`) are mutations: plausible bugs that are substituted
for the real definition to make sure that each property would notice them. No specification uses
them.

## The system

### Components

**Worker pool** (`packages/core/src/pool.ts`, main thread). State: `#slots`, `#rr`, `#draining`,
`#destroyed`; for each `WorkerSlot` its `pending` map of calls, `busy`, `requests`, `rotating`,
`drained`; for each `WorkerTransaction` its slot, id and `#closed`. Operations: `create`,
`newTransaction`, `destroy`, the methods of a transaction handle, and a background rotation that
replaces a worker after `maxRequestsPerWorker` requests: spawn, wait until ready, init, swap, drain,
shut down, terminate. *Hard:* every operation is an async function with one to six awaits, and
destroy, rotation, requests and thread deaths interleave at every one of them. *Correct when:* the
accounting is exact (`busy`), no rotation takes a worker away from a transaction, every slot always
holds an initialised worker, every thread is stopped in the end, and calls return.

**Pool worker** (`pool-worker.ts`, one thread each). State: `waf`, the map `txs`, its message port.
Operations: one handler per message. *Hard:* it answers in order, but its caller may have given up,
closed, or been told of the thread's death. *Correct when:* its map agrees with the handles.

**Adapters** (`packages/express|fastify|next|nestjs/src`). State per request: the transaction, which
await has been reached, the decision, what was sent. Operations: the middleware or guard; the
logging and close, at the end of the response (Express: `res.once('close')`; Fastify: `onResponse`)
or in a `finally` (Next, Nest); inspection of the response, for a synchronous WAF only. *Hard:*
failure at each await, the client leaving at each await, a failing `finally`. *Correct when:* they
fail closed, answer every request, and close every transaction.

**Synchronous WAF and Transaction** (`waf.ts`, `transaction.ts`, `abi.ts`) over the **WASM side**
(`wasm/main.go`, `host_wasm.go`). State: registries of WAFs and transactions, the id counters,
`alivePool` of buffers lent to the host, a 64 KiB scratch buffer, the last error; on the host a
cached view of the memory. *Hard:* buffers must be freed once on every path, ids wrap, the scratch
is shared by all outputs, the view goes stale when memory grows. *Correct when:* allocation and
release pair up, an error is reported by the call that failed, and ids are never reused.

**Codecs** (`encodeRequestBundle`, `encodeHeaders`; `bundle.go`, `encoding.go`). Pure. *Correct
when:* decoding gives back what was encoded, fields clipped to their width.

**Host regular expressions** (`hostRegex.ts`, `hostrx.go`) keep compiled patterns and a memo of
eight results each; **prefilter** (`rxprefilter.go`) extracts literals an expression requires.
*Correct when:* a memoised or prefiltered answer is the answer of the expression.

**Ignore and skip** (`ignore.ts`, `skip.ts`): pure functions from a request to a verdict.

**Core Rule Set presets** (`coreruleset/src/index.ts`): pure, from options to a sequence of directives
that the engine loads in order. *Hard:* the order, three notions of default, two axes of languages.
*Correct when:* what was excluded is gone, nothing else is, and the tuning reaches the rules.

**Patching** (`wasmPatch.ts`): pure, from binary to binary. *Correct when:* only the least number of
pages of the memory changes.

**Loading** (`wasm.ts`, `wasi.ts`, `wasmResolve.ts`), **Nest module**: configuration and I/O.

### How they interact

An adapter calls `newTransaction()` and then, in order and awaiting each, `isRuleEngineOff`,
`processRequestBundle`, `interruption`, `matchedRules`, `processLogging`, `close`. Under a pool each
call is a message to the one worker the handle is pinned to, and its answer, matched by `reqId`. The
worker makes the same call on a synchronous `Transaction`, which enters WASM. `rxprefilter.go` and
`hostrx.go` call back into the host for regular expressions. Shared state between requests is only
the pool's: slots, counters, and the queues of the workers.

## The pool: `WAFPool`

### State and steps

One action is one JavaScript macrotask: a call by the application, one worker event with all the
promise continuations it releases on the main thread, one 5 ms poll of `waitForDrain`, or one message
handled in a worker. Microtasks run to exhaustion between macrotasks, so this is the granularity of
Node, with one refinement left out: several replies released by one `exit` event are one step
(`RejectPending`), as in the code, where one loop rejects them all.

| specification | code |
| --- | --- |
| `slots`, `rr`, `draining`, `destroyed` | `#slots`, `#rr`, `#draining`, `#destroyed` |
| `busy`, `requests`, `rotating`, `pending` | the fields of `WorkerSlot`; `pending` holds the calls themselves instead of `reqId`s |
| `stage`, `stopping` | the await at which `#scheduleRotation` and `destroy` stand with a slot |
| `thread`, `inbox`, `outbox`, `txs` | the thread, its port in both directions, its map |
| `spent` | the transactions whose `tx.close()` has thrown in the worker: their `#closed` is set there |
| `status`, `home` | a `WorkerTransaction`: its `#closed` and how far its async calls are, its `#slot` |
| `NewTransaction`, `Opened`, `OpenFailed` | `newTransaction` up to and after its await, with `#pickSlot` (`PickSlot`) and `#scheduleRotation` (`RotationDue`) |
| `Operate`, `Operated` | the other methods of the handle: `reset` and `processLogging`, which test `#closed`, and the rest, which do not |
| `Close`, `Closed` | `close` and its `finally` |
| `Online`, `Swapped`, `TooLate`, `GiveUp`, `Drained`, `ShutDown` | the stations of `#scheduleRotation` |
| `Destroy`, `DestroyShutDown` | `destroy` |
| `Dropped`, `ErrorEvent`, `ExitEvent` | the listeners of `spawnSlot` |
| `HandleInit` ... `HandleShutdown` | the cases of the worker's switch |
| `Exit`, `Crash` | the thread ends after `parentPort.close()` or `terminate()`, by `process.exit`, or of an uncaught exception |

What a transaction computes is left out: a proc, pred or get call has an answer, an "unknown tx"
error, or (for newTx, close, init, shutdown) an error when `Faults` allows it. A `close` may fail in two
ways. When `processLogging()` throws, the `finally` of the handler closes the transaction and takes it out of
the map; when `tx.close()` throws, as it does when `tx_destroy` traps, `txs.delete()` behind it is skipped
(pool-worker.ts:158-159), so that the worker answers with an error and keeps a transaction nobody can close
again (`HandleClose`, `Forgotten`; faults `logging` and `destroyTx`). Replies carry the call
they answer. `#rr` is kept modulo the number of slots. Node's own part is taken to be: ports are
FIFO, what a thread posted is delivered before its `exit`, posting to an ended thread does nothing.

`TxService` is the pool without workers: a transaction exists (`held`) from before its handle is
given out until after `close()` is asked for, and disappears otherwise only through `destroy()` or
the death of a thread. One that its worker failed to close is left over (`left`) and goes with its
worker, also in a rotation. `WAFPool` implements it with `held` the union of the workers' maps and
`left` the set `spent`.

### Runs

| run | instance | question | size |
| --- | --- | --- | --- |
| `safety` | 2 slots, 3 transactions, rotation after 2 requests, one handle with all methods, no faults | all invariants, and that rotation alone never loses a transaction (`ImplementsService`) | 621k states |
| `faults` | 1 slot, 2 transactions, rotation after each request, every fault | the invariants that survive failing handlers and dying threads (`SurvivesFaults`) | 1.7M states |
| `live` | 1 slot, 2 transactions, rotation after each, no faults | everything that is begun ends | 29k states |
| `exit` | as `live`, threads may exit | `DestroyReturns` fails | |

*Bounds.* Transactions are the only source of steps, so `Tx` bounds the behaviours; `MaxWorkers` is
set so that it never stops a rotation (`WorkersAssumption`). Two slots are needed for a choice, for
two rotations at a time and for a swap to hit the wrong slot; three transactions for a worker to be
worn out, drained by an earlier handle and hit by a later one at once. One slot rotated after every
request chains two rotations. Handles are symmetric (`TxSymmetry`) where no liveness is checked.
`GuardedCallsFindTheirTx`, `PrewarmReachesEveryWorker` and `ImplementsService` are checked without
faults; the proofs cover them with faults too. Deadlock is not checked: the pool really stops, after `destroy`
or when its traffic has ended.

*Fairness.* `Main(w)` and `Thread(w)` are weakly fair for every worker: the event loop delivers every
queued event, polls repeat, and the operating system runs every thread. `Close(t)` is weakly fair:
whoever holds a handle closes it (`finally` blocks in the adapters). Nothing forces a new request, a
call of `destroy`, or a fault. In `live` the set `OpTx` is empty: a client that calls methods
for ever could otherwise keep a weakly fair worker busy with them, which says nothing of the pool.

### What the runs show

- `BusyCountsHandles`: `busy` never drifts, although one async function raises and another lowers it.
- `RotationDropsNothing`: "This must not drop any in-flight request", with a newTx in flight at the
  swap, failing handlers and dying threads included.
- `HandlesMatchWorkers`, `GuardedCallsFindTheirTx`: handles and the workers' maps agree; a closed handle
  has its transaction in the map only if `tx.close()` itself threw.
- `SlotsAreInitialised`, `OneReplacement`: the pool keeps its size, serves only from initialised
  workers, and the rotation latch neither sticks nor lets two rotations start.
- `NoOrphanThread`: somebody can still stop every thread that runs.
- `PrewarmReachesEveryWorker`: the concurrent prewarm calls of `create` hit each worker once.
- `SurvivesFaults`: all of these but the two about handles' calls, whatever fails and whoever dies.
- `CallsReturn`, `RotationsComplete`, `DestroyStopsEveryThread`: without faults, every
  `newTransaction()`, `close()` and `destroy()` returns, a worn-out worker is replaced and a draining
  one retired, and every thread ends.

Disagreements with the repository's own text:

1. `exit`: after a worker has exited, `destroy()` awaits a shutdown nobody answers and never resolves;
   `catch { /* worker may have already exited */ }` (pool.ts:294) expects a rejection.

Three more were met while modelling and are not runs. A `tx.close()` that throws leaves its transaction in
the worker's map until the worker ends, although the handle is closed and `busy` has fallen (pool-worker.ts:158);
`HandlesMatchWorkers`, `TransactionsAreClosed` and `TxService` except that. `destroy()` during a drain stops the worker under
the rotation, whose `drained` promise ("Resolves when this slot is fully drained and terminated",
pool.ts:92) never settles; `RotationsComplete` excepts that. "Pick the least-busy slot" (pool.ts:314)
does not count transactions being opened, so that a burst goes round-robin over the slots;
`PrewarmReachesEveryWorker` depends on it.

### What is proved

Every safety property of the runs `safety` and `faults` is proved, for any `Size`, `Tx` (finite),
`MaxRequests`, `OpTx` and `Faults`, and so is the refinement. The theorems stand in two modules, and each
row adds a layer to the inductive invariant:

| module | theorems | invariant |
| --- | --- | --- |
| `WAFPoolProofs` | `TypeCorrect`, `BusyIsExact`, `RotationIsSafe` | `IInv` |
| `WAFPoolProofs` | `SlotsAreAlwaysReady`, `RotationIsSingle`, `ThreadsAreAccounted`, `PrewarmIsComplete` | `MInv` adds `Membership`; `FirstCalls` |
| `PoolTransactionProofs` | `HandlesAndWorkersAgree`, `GuardedCallsAreServed`, `PoolSurvivesFaults` | `QInv` adds `Queues`, `AnswersMatchHandles`; `TInv` adds `SpentFits`, `Maps` |
| `PoolTransactionProofs` | `PoolImplementsService` | `SInv` adds `Endings` |

*Accounting and rotation.* `IInv` adds that the pending `newTx` and `close` calls are exactly
those of handles that are opening and closing on that worker (`CallsMatchHandles`), and that
the `stage` of a slot agrees with the rotation calls pending on it (`StagesMatchCalls`). The argument
for rotation: `Drained` fires only when `busy` is 0 and nothing is pending; `busy` counts exactly the
handles in use, and every handle being opened has a pending call, so there is neither; and none can
appear later, because `newTransaction` picks only workers in `slots`, whose stage is `active`.

*Membership.* A replacement enters a slot on the word of its reply to `init`, so `Membership` says what
a reply still in the queue and a stage tell of the thread (`ThreadsMatchStages`). The latch `rotating` is set by
the async function that ends in `newTransaction` and cleared by another, on whatever `replaces` names:
`RotationsHaveAnOld` says that it names a worker that has been in the pool. `FirstCalls` describes the
pool until the first `newTransaction()` is answered: its slots are untouched and `busy` is 0, so the
k-th call takes the k-th slot.

*Transactions.* A handle and its transaction meet only through two queues. A queued call is pending,
not answered, and queued once (`Queues`); an answer tells where its handle is (`AnswersMatchHandles`). Then
the maps can be read off the queues (`Maps`): a transaction is in the map from the answer to `newTx`
to the answer to `close`, and as a guarded call is posted only before `close`, it stands before it in
the queue (`ResetFirst`). A transaction that its worker has failed to close stays in the map behind that
answer: `SpentFits` says that such a handle has called `close()`, and that the call is no longer queued, as the
worker tries it once.

*Refinement.* Creation, grant and release need only the maps. What is left is that the pool itself
never ends a thread that serves a handle before `destroy()`: `Endings` follows `terminate()` and the
threads that ended. `MayCrash` of `TxService` is then used for the death of a thread and nothing else, and
`MayLeave` for a `tx.close()` that throws; what a retired worker takes with it is left over.

Assumptions: those named in `WAFPool` (at least one slot, finitely many transactions, enough workers).

## Starting the pool: `PoolBoot`

`create()` until it returns or rejects: compile the module, spawn a thread per slot, await
`slot.ready` and the `init` of each under one deadline, terminate all when that fails, and send one
request through each worker. Its last state with `phase` "prewarming" is an initial state of `WAFPool`,
whose `NewTransaction` then makes the prewarm calls.

| specification | code (pool.ts) |
| --- | --- |
| `phase` | the await `create()` stands at |
| `ready`, `inits`, `call` | `slot.ready`, the promise of `ready.then(init)`, `slot.pending` |
| `CompileFails`, `Compiled` | 162-192 |
| `Online`, `Answered`, `ErrorEvent`, `ExitEvent` | `spawnSlot` |
| `InitAnswered`, `InitFailed`, `TimeOut`, `GiveUp`, `TornDown` | 186-218, `withTimeout` |
| `PrewarmAnswered` with `After`, `Warm` | 226-256: the transaction, its bundle, its close, and the catch |
| `Handle` | the worker's handler of `init`, `newTx`, `bundle` and `close` |

Rotation is off, as the prewarm sends one request per worker, and the call for slot `s` is placed on
`s`, which `PrewarmReachesEveryWorker` of `WAFPool` justifies. The run `boot` has three slots and all
faults: compilation fails, a thread stays silent (never online, nothing emitted), comes online after the
deadline, exits or dies, and any handler throws (83k states). Three slots let one fail, one succeed and
one be undecided. *Fairness*: threads that are not silent run, `terminate()` ends any thread, a due timer
fires (the timer is unref'd, pool.ts:570, but the threads it waits for keep the process alive); no fault is
forced.

- `RejectedLeavesNoThread`: a rejected `create()` leaves no thread, also not one that answers late.
- `ReturnedPoolIsReady`: the pool has in each slot a worker whose init succeeded and that nobody has
  told to stop, and the prewarm leaves no call behind.
- `CreateSettles`: with a deadline `create()` returns or rejects, unless a worker ends between the answer
  to its init and the end of its prewarm: the deadline covers the init only, and nobody answers then.

*Proved* in `PoolBootProofs` for any finite set of slots, any faults, with and without a deadline:
`BootTypeCorrect`, `RejectionTearsDown`, `HandoverIsReady`. None is inductive. `BootInv` adds that
the promises, the queues and the thread of a slot agree how far it is (`SlotInv`): a slot whose init is
resolved has a thread that serves or has ended, and at most one of its inbox, outbox and call is in
use; and that the phase agrees with all slots (`PhaseInv`): every slot was terminated when `create()`
tears down, and none before.

## What a pool starts from: `WasmPatch` and `CoreRuleSet`

Two pure parts that run before the first request. `PoolRules` puts them beside `PoolBoot`: what the
run `boot` compiles is patched, and the pool that it returns has been given its rules.

*The binary.* `ensureInitialPages()` raises the least number of pages of a binary's memory when it is too
small. A binary is a sequence of bytes; `Encode` is the binary format, with sizes padded as linkers leave
them. In the run, `Base` 4 stands for the 128 values of a digit, so that sizes and pages need one digit or
two. Its 1852 binaries have one or two sections, limits with and without a maximum, a memory section of no
memory or of two, and contents with bytes that look like a memory section.

- `PatchIsExact`: the result is the binary with the minimum raised, its size written anew, and everything
  else as it was; both readers of the memory section agree on it, and making it ready again changes nothing.

*Proved* in `PoolBootProofs`, `BinariesAreExact` and `BinariesAreAlwaysExact`: for any base and number of
pages, and any number of sections with contents of any bytes, limits of any size and any padding.
`ModulesAssumption` says what a binary is: a sequence of sections, of which at most one is of memories. The
digits that `WriteULEB` emits are those of the format; a number is read back wherever it lies in the bytes
(`NumberReadBack`), so the position after each section is where the next one begins (`SectionsLie`), the walk
comes upon all of them in turn and upon nothing inside them, and it finds the section of memories
(`WalkFinds`). What is then spliced together is the encoding of the same sections, one of them raised
(`PatchedIsRaised`). A byte that looks like the id of a memory section is thus never taken for one, which
is what the mutation `FirstByteOf` does.

The reader's limit of six digits (wasmPatch.ts:159) is left out, and so are 32 bits: the numbers of a valid
binary have at most five digits and 32 bits. A maximum below the raised minimum is kept
(wasmPatch.ts:95), and such a binary is refused when it is compiled.

*The rules.* `recommended()` and the profiles turn options into directives; the engine, which is external,
loads them in order (`Load`). A file of the rule set is its number, which is also how the ids of its rules
begin, so that `SecRuleRemoveById` over a range of ids is a range of files. A removal drops only what is
loaded already; file 901 gives its defaults to the variables nobody has set, which are `Undefined` until
then. `MCPoolBoot` has four
profiles and 397 sets of options: absent, `undefined` or given, levels with blocking, languages with
categories. No table of the code is scaled down.

`RulesAreAsAsked` is the conjunction of three statements about the rules that are active in the end:

- `LanguagesAreDropped`: `exclude` drops files of request rules, `outboundExclude` files of response
  rules, and without categories nothing else is dropped.
- `CategoriesAreDropped`: no rule of an excluded category is active, in whatever order they are named.
- `TuningReachesTheRules`: the initialisation finds the levels and thresholds of the caller or the profile.

*Proved* in `PoolBootProofs`, `RulesAreExact` and `RulesAreAlwaysAsAsked`: for each profile and any options:
any sets of languages, categories in any order and number, repeated ones too, any levels and thresholds.
`OverridesAssumption` gives their types and `UndefinedAssumption` says that `undefined` is no value of an
option. Directives are loaded one after the other, and they come in groups: the tuning, the files, the
removals. A group of any length that keeps a fact at each of its directives keeps it as a whole
(`GoesThrough`, by induction over the directives). So the tuning sets its variables and no file is there
before them, the files then find what was set, and each removal drops its range from all files at once,
which is why the order of the categories does not matter. `WhatIsLoaded` is the resulting state of the
engine, and the three statements follow from it.

Two disagreements that no run shows. "Ranges follow upstream CRS" (coreruleset index.ts:14), but the range
of `scanner-detection` also holds the rules of method enforcement, and that of `protocol-attacks` all of
protocol enforcement, both of them categories of their own: excluding one drops the other. And an option
passed as `undefined` replaces the profile's value and then takes the default of `recommended()`, so that
`strict({ paranoia: undefined })` has level 1; the types forbid it only to callers compiled as this
repository is (`exactOptionalPropertyTypes`).

## The adapters: `Adapters`

Each request runs two chains of calls on its transaction: the middleware (`mw` is the call it awaits)
and the logging and close (`fin`). `queue` holds the calls under way, in order; the worker answers
them or has exited (`alive`). What `WAFPool` says of a transaction is taken as given here: calls are
answered in order, an exit rejects the calls under way and later ones are never answered. Requests
share nothing but the worker.

| specification | Express | Fastify | Next | Nest |
| --- | --- | --- | --- | --- |
| `Ignored`, `WafRejected` | index.ts:144-168 | 116-119 (the WAF is awaited at registration) | 171-176 | 111-112 (injected) |
| `Ask`, `Refused`, `Opened` | 171-193 | 121-140 | 179-193 | 114-130 |
| `EngineOff/On`, `Passed`, `Interrupted` | 195-215 | 142-158 | 195-219 | 134-153 |
| `BodyFails` | body already read | body already read | 202-207 | body already read |
| `Judged`, `RulesRead`, `RulesFailed` | 217, 340-383 | 159-162, 276-310 | 220-251 | 154-163, 190-205 |
| `Caught` | 244-259 | 164-178 | 255-265 | 164-181 |
| `ConnCloses`, `Logged`, `LogFailed`, `Closed` | 188-193 | 236-244 | 266-272 | 164-188 |

`onWAFError` is `policy`, `verboseLog` is `verbose`; what the WAF finds is a choice. The second
`processLogging`/`close` of Nest returns at once, for the handle is closed, and is no step. Fault
`leave` lets the client of Express disconnect at any moment; `body` lets reading the body fail; `error`
answers a call with an error, a `close` among them whose logging failed; `trap` lets the `tx.close()` of the
worker throw, and the worker keeps the transaction (`wtx` is "kept"). The branch for an `interruption()`
that returns null after a block (express 350, fastify 160, next 221, nest 156) is left out: the engine
answers null only when there is no interruption (main.go:393-415), and the code calls it a bug.

| run | question | size |
| --- | --- | --- |
| `adapters` | all four adapters, all settings, all faults: the properties below | 1952 states |
| `leave` | `LifecycleEndsInClose` fails under Express | |

*Bounds.* One request is enough: requests do not read each other's state, and the exit of the worker
they share can fall at any await of the one. *Fairness.* Each reply that can be delivered is; a
response that was decided ends. The client is never forced to leave and no fault is forced.

- `FailClosed`: with 'block', only a request that is ignored, whose engine is off or that passed
  reaches the application, whatever fails.
- `LoggedAfterInspection`: the log is written while the request is being inspected only when the client left.
- `AnsweredAfterClose`: Next and Nest answer after the worker has forgotten the transaction, and with no
  other answer than an error when it keeps it.
- `TransactionsAreClosed`: every transaction, while the worker lives, unless `tx.close()` threw there.
- `RequestsAreAnswered`: every request while the worker lives; under Express, and Fastify without
  `verboseLog`, a request being inspected also after the worker's exit.

Disagreement:

2. `leave`: a client that disconnects during `await waf.newTransaction()` leaves a transaction that is
   never closed, as the 'close' listener comes too late (express index.ts:188).

Two more, not runs: when the worker exits mid-request, the `finally` of Next (index.ts:268), and
likewise of Nest, awaits a reply that never comes, so that the 503 already computed is never sent; and
`return emitBlock(...)` (express index.ts:217) leaves the `try` before `matchedRules()` fails, so that
this failure reaches Express as a rejection and not the `catch`.

*Proved* in `AdaptersProofs`, for any requests, adapters, settings and faults: `AdaptersTypeCorrect`,
`AdaptersFailClosed`, `AdaptersLogLast` and `AdaptersAnswerLast`. `FailClosed` is not inductive: the
verdict could change after the decision. The invariant adds that a queue holds at most one call of the
middleware, the one it awaits, and that in Next and Nest the logging comes after all others
(`CallsFit`), and that a decision to let through is only taken with the verdict, and ends the middleware
(`DecisionsStand`). The last two theorems rest on a second invariant over the queues (`EndInv`): a
logging or close is under way only when `fin` says so, `fin` does not while the middleware inspects
unless the Express client has left, and Next and Nest have at most one call under way and none when
they answer.

## The WASM boundary: `WasmBridge` and `BundleCodec`

One WASM instance and the objects above it, as in a worker of the pool or in a process without one.
JavaScript and WASM share a thread, so `call` is the one method being executed, and its steps are the
places where something can fail or memory can move: each `host_malloc`, the export, the reading of
the result, the `finally`.

| specification | code |
| --- | --- |
| `wafs`, `txs`, `txOwner`, `wafNextID`, `txNextID`, `lastErr` | the variables of `main.go`; a transaction records for which handle and by which WAF it was made, and whether it interrupted or was closed |
| `scratch`, `onHeap` | `scratchBacking`: whose output it holds; `scratchBuf` has been moved off it by `append` |
| `alive`, `viewLive` | `alivePool`; the cached view of `Abi` still shows the memory |
| `waf`, `tx` | the `WAF` and `Transaction` objects with `#id`, `#destroyed`, `#closed` |
| `FromAbi` ... `Ask` | the beginning of each method: its guard, and its inputs encoded |
| `SkipEmpty`, `Allocate`, `AllocateFails` | `#writeMalloc`, `host_malloc`, `writeAt` |
| `WafCreate` ... `TxGet` | the exports |
| `CheckThrows`, `ReadResult`, `Settle` | `Abi.check` with `last_error`, the reading of JSON, the `finally` |

`BundleCodec` has the packet formats as operators: `EncodeBundle` (transaction.ts, abi.ts) and
`DecodeBundle`, `DecodeHeaders` (bundle.go, encoding.go), and `Clipped`, what the engine is meant to
be given. A string is the sequence of the widths of its characters, a byte says whether it starts or
continues one; a number takes one byte, and the u8 and u16 ones wrap at `MaxShort` and `MaxAddr`.
`WasmBridge` sends its packets through the memory. The codec alone is proved to be exact, see below.
`CodecIsFaithful`, an assumption of `MCWasmBridge` that TLC evaluates, says the same of the inputs of the
instance and of 14k requests with fields of every length around the widths and around the scratch
buffer (`Varied`), so that the theorem is seen to be about cases that occur.

What the engine finds is a choice: a phase may interrupt, fail, or trap; an interruption stays. A trap
(`-panic=trap`, Makefile:33) ends the method with a `RuntimeError` and leaves the instance in use.
Left out: traps in the getters, the predicates and `waf_destroy`, which run no engine phase; the
texts themselves; `tx_process_uri`, `tx_process_request_headers`, `tx_process_request_body`, which no
JavaScript calls. The append, finish and predicate methods exist for request and response; one
of each form stands for all.

| run | question | size |
| --- | --- | --- |
| `bridge` | all calls in any order: the properties below | 2.3M states |

*Bounds.* One WAF suffices for destroy against reset, as the owner of a slot never changes; two
transactions to mix up slots, ids, errors and results. `Ptr` has two addresses, what one method needs,
and an address leaked or reused at once shows; when a leak has taken one, `processResponse` can only
fail, and no behaviour depends on a third. `IdHalf` stands for 2^31 and is more than two handles use. `MaxTraps` counts
the handles whose `close()` or `reset()` traps, after which they are excepted from `SlotsMatchHandles`. The requests of `MCWasmBridge` have fields that are cut
between, before and inside characters, empty ones, an address and a URL that do not fit a scratch buffer
of 24 bytes beside the others, and a body above `MaxAlloc`. Deadlock is not checked: objects are used
up, and then the system stops. No liveness is stated: a method is a finite sequence of steps.

- `BuffersAreFreed`: every buffer is freed, however a method ends, but for the header packet of
  `processResponse()`, whose second allocation is made before the `try` (transaction.ts:134-136) and
  leaks the first when it fails, although host_wasm.go:111-114 says that every malloc is in one.
- `SlotsMatchHandles`: an open handle has its slot to itself, a live transaction of its own WAF in it,
  and no slot is taken without an open handle. Excepted are handles that met a trap in
  `close()` (it sets `#closed` first, so the slot can never be released) or `reset()` (which may have
  closed the engine's transaction and not replaced it), and those whose `reset()` found the WAF destroyed.
- `EngineGetsWhatWasSent`: what an export reads at its arguments, through a view that may have gone
  stale at any step, decodes to the request, clipped between characters.
- `AnswersAreOwn`: a method throws its own export's message: `last_error` is never cleared, contrary
  to wasm/ABI.md:224 and abi.ts:129, but every negative result sets it. And results come from the
  handle's own transaction, or the read throws (a text above 64 KiB is cut, and `JSON.parse` fails), and
  a handle told of an interruption finds it.
- `OffIsGenuine`: "engine off" is not the answer of a missing slot, but after the failed `reset()`.

A disagreement that no run shows: `tx_create` "Returns a positive `tx_id`, or `-1` on error"
(wasm/ABI.md:68), but the int32 counter (main.go:61) wraps after 2^31 transactions; the transaction
stored under a negative id is then taken for an error and never closed.

*Proved* in `WasmBridgeProofs`, for any objects, inputs and allocators: `TypesHold`,
`BuffersAreAlwaysFreed`, `EngineGetsTheRequest`, `SlotsAlwaysMatch`, `AnswersAreAlwaysOwn`,
`OffIsAlwaysGenuine`. All five safety properties of the run are so proved; none is inductive. Of the
codec, for every request and every list of headers, with fields, widths and a scratch buffer of any
size: `HeadersReadBack`, `RequestsReadBack` and, for the inputs of an instance, `CodecIsExact`.

| theorem | invariant, on top of the types (`TInv`) |
| --- | --- |
| `BuffersAreAlwaysFreed` | `BInv`: during a method its pointers name every buffer that is not a leaked header packet, in the order of its inputs, and a method with two inputs has the header packet first, so that the failure of the second allocation leaves nothing else |
| `EngineGetsTheRequest` | `DInv`: what is copied into a buffer is the encoding of the input of that rank, through the view that is valid then, and stays there until it is freed |
| `SlotsAlwaysMatch` | `NInv`: ids in use lie between 0 and the counters, so that a fresh one is fresh. `SInv`: open handles have different ids, a slot has the handle it was made for, and what a method under way still owes |
| `AnswersAreAlwaysOwn` | `AInv`: the error buffer and the scratch area belong to the export of the method under way from its return until its answer is read |
| `OffIsAlwaysGenuine` | `TInv`, `NInv`, `SInv` |

*The codec.* What lies at an offset of a packet (`Lies`) is what the cursor of Go reads there, and a
packet that is put together of parts has each of them at the sum of the lengths before it. A header
packet is read by a loop: after k rounds the cursor stands behind the k-th entry with the first k
headers read, by induction over k. A bundle is read by eight reads, and what has to be shown is that
the fields which JavaScript wrote into the shared `scratchBuf` are still there when the packet is put
together: `writeScratch` advances by the bytes it has written, so that a field is not written over by the
next (`FieldWritten`), also beside one that did not fit. `truncateUtf8` steps back over continuation bytes, and so finds the end of
the last character that fits, because a character starts at every place where some prefix of the
characters ends (`LaidOut`); that makes the length fit its u8 or u16, which would wrap otherwise.

One assumption is named in theorems: `EnoughIds` says that there are fewer objects and resets than
`IdHalf`: beyond it `SlotsMatchHandles`, `AnswersAreOwn` and `OffIsGenuine` cannot be true. The others
need no bound on the ids.

## The inspection of responses: `SyncAdapters` and `Ignore`

A synchronous WAF can also inspect the response. Express patches `writeHead` and `end` of the response
(`hookResponse`); Fastify has an `onSend` hook. Nothing there waits for longer than a microtask, so
an action is a macrotask: the arrival of a request, its request phase, one call of the application on
its response with all nested calls, or the end of the connection. The difficulty is the nesting: `end`
calls the original `end`, which calls the patched `writeHead`, which may block and so send a
page of its own through the patched `end`. These calls are operators from a record to a record
(`WriteHead`, `End`, `OnInterrupt`, `OnSend`). `OnInterrupt` says in one step what the nested calls come to:
the page is sent, and nothing is thrown, whether the stack fills up on the way or not. `NestedCalls`
has the calls as they are written (`EndBy`, `WriteHeadBy`, and `PageAt[d]`, the call of `onBlock` when the
JavaScript stack has room for d more), and `NestedCallsSettle` says that both agree in every state. Likewise
`SyncAdapters` takes the lists of the ignore matcher as operators (`ListsSay`, `LeavesAt`), for which the
run puts those of `Ignore`, and `Listed`, `Expressed` and `TooLong`, for which it puts
what the comments of `ignore.ts` declare. `ListsAreAsDeclared`, an assumption of `MCSyncAdapters` that
TLC evaluates for every list, path and state of a RegExp of the instance, is that the two agree:
`ListedByText` is a definition of its own, where globs are matched on the characters and not by
translation. A RegExp with the flag `g` may only miss.

Two comments disagree about the star of a route: "zero-or-more characters" at `compileRoute`
(ignore.ts:127), "one or more path segments" in the public documentation of `IgnoreSpec.routes`
(ignore.ts:69-70). The code does the former and `ListedByText` follows it, so `VerdictIsAsDeclared` is no
statement of conformance to `IgnoreSpec.routes`. How the code compares with that is an assumption of its own
that TLC evaluates, `RoutesAreWiderThanDocumented`: on the routes and paths of the instance every
path that the segment reading lists bypasses, and some path bypasses that it does not list, such as
`/abc` under `/a?*c`, or `/static/` itself under `/static/*`.

| specification | code |
| --- | --- |
| `Declarative`, `SkipToIgnore` (`Ignore`), `Decide` (`IgnoreVerdicts`) | `buildIgnoreMatcher`, `skipToIgnore` |
| `Matcher`, `NextIndex` | a call of the matcher, `lastIndex` of its RegExp |
| `Arrive`, `Handle` | express index.ts:144-260, fastify index.ts:116-179 |
| `InspectHeaders`, `WriteHead` | express index.ts:433-452 |
| `InspectBody`, `End` | express index.ts:455-470 |
| `OnInterrupt` | `defaultBlock`, `emitBlockSync` |
| `OnSend`, `Replaced` | fastify index.ts:196-232 |
| `ConnCloses`, `Logged` | the 'close' listener, the `onResponse` hook |
| `r` | the response (head, chunks, ended), its transaction and what the engine finds |

Node's `ServerResponse` and Fastify's reply are external: `writeHead` throws after the head was sent,
`write` and `end` send it first. Only `defaultBlock` is modelled, as `onBlock` of an application is
its own code (Fastify's `onSend` overwrites what a custom one sends). Paths are short sequences of
letters, dots and slashes; settings and requests are a sample with every list of `IgnoreSpec`, alone and
with a function.

| run | question | size |
| --- | --- | --- |
| `sync` | two requests in turn, eight settings, every finding, any order of calls: the properties below | 66k states |
| `body` | `BlockedBodyIsWithheld` fails under Express | |

*Bounds.* Two requests, as they share only the matcher, whose RegExp keeps `lastIndex` from one to
the next. `StackDepth` 3 stands for the JavaScript stack in `NestedCallsSettle`; the only recursion is `end` in a header-phase
block whose body is processable, which recurses until the stack is full whatever its size.
*Fairness.* The adapter runs, the application ends its response, an ended response is closed.

- `VerdictIsAsDeclared`: a request bypasses the WAF only if it is listed, by the comments of `ignore.ts`
  as said above, or its function alone says so; the most restrictive wins, and a function that throws
  skips nothing.
- `NestedCallsSettle`: see above.
- `BlockedResponseIsWithheld`: no byte of the application's response is sent when the rules on its
  headers block it, nor under Fastify when those on its body do.
- `ThrowsOnlyWhenAnswered`: a call of the application on its response throws only when the block
  was already sent or the client has left. A trap in `isResponseBodyProcessable()`, which the patched `end()`
  calls outside its `try` (express index.ts:457), is not modelled; it would reach the application.
- `TransactionEnds`: every transaction is closed, except under Express when `processLogging()` throws: as
  the argument of `Promise.resolve(...)` it escapes before `.finally` (express index.ts:190).

*Proved* in `SyncAdaptersProofs`, for any settings, contexts, lists, rules and number of requests:
`TypesHold`, `BlockedIsAlwaysWithheld`, `ThrowsAreAlwaysAnswered`, `NestedCallsAlwaysSettle` and
`VerdictsAreAlwaysDeclared`. Blocking is
not inductive: a page of the application could already be on its way. `RInv` adds that Express
has its response patched before the application can run (`HookedByExpress`), that the transaction is open
while the client is connected (`OpenWhileConnected`), that under Fastify the reply is sent once
(`RepliedOnce`), and, for the response between any two calls (`Calm`), that the head is the one of the
block page as soon as the rules on it have interrupted, that nothing was sent without a head and that
nothing is being thrown. Each of the nested calls then has a lemma from `Calm` to `Calm`. For
`NestedCallsAlwaysSettle` the stack may have any depth from two on: by induction over the depth, the call of
`onBlock` leaves what `OnInterrupt` says from every response that the calls can leave it with. The verdict
needs `Decided`, which remembers how the lists and the function were joined. `VerdictsAreAlwaysDeclared`
assumes `DeclaredLists`, that the lists say what is declared of them: the lists translate
globs to expressions, by recursion over data, and TLC evaluates it as `ListsAreAsDeclared`.

Disagreement:

3. `body`: "Inspect the response phase (headers + body)" (express index.ts:60), but `res.end(body)` asks
   `isResponseBodyProcessable()` before the headers were processed, and a block found in the body after
   `writeHead()` is not enforced.

Also met, and allowed for in the properties: after a header-phase block the original `writeHead` runs a
second time and throws `ERR_HTTP_HEADERS_SENT` at the application; `isResponseBodyProcessable()` stands
outside the `try` and throws out of `res.end()` after a disconnect; a failing `interruption()` lets
the response through; a stream is not inspected by Fastify; and the routes' "one or more path
segments" for `*` is "zero or more characters" in the code.

## Regular expressions: `HostRx`, `RxPrefilter`, `RegexSemantics`

The Go operator `@rx` asks the host's RegExp, and first a prefilter made of the literals an
expression requires. `RegexSemantics` says what an expression matches (all the ends a match can have),
for both engines: it is the authority. `RxPrefilter` and `NeedleSearch` translate `rxprefilter.go`: the
first `MinLen`, `ExtractLiterals` with its tries, short and best literals, anchors and `PrefilterFunc`,
the second the search with a shift table. `HostRx` is the state: rules are loaded one by one, the host first and Go when it rejects
an expression; a rule is evaluated through the length, the prefilter, the memo of its handle and the
engine. It takes what an expression finds (`Finds`) and its prefilter (`Shortest`, `FilterOf`,
`LetsThrough`) as operators, for which `MCHostRx` puts those of the other two modules.

| specification | code |
| --- | --- |
| `todo`, `ops` | the rules of a WAF to load, the `hostRx` objects |
| `patterns`, `memos`, `nextHandle` | the variables of `createHostRegex` |
| `NewHostRX` | `newHostRX`, `compile`, `translatePattern` |
| `Evaluate` | `Evaluate`, `match` |
| `last` | history: what the last step did |

The run `rx` loads 830 expressions of every shape the extraction distinguishes (nested choices,
options, repeats, captures, anchors, folded case, runes outside ASCII, the replacement character)
and judges each on every word of up to five letters and on short inputs with capitals, line
feeds and bytes that are no UTF-8. Letters 1 to 3 are enough for a needle to overlap itself and
another; `ShiftWidth` 3 stands for the 256 values of a `uint8` and `MemoCapacity` 2 for 8, and both are
exceeded. The host accepts an expression iff it has no inline flag after the `(?sm)` that newHostRX
puts in front. V8 reads `\A` and `\z` as letters, so that anchored expressions are only checked where Go
judges them, under `(?i)`.

- `TypeOK`: handles belong to their expressions; a memo keeps its capacity and no input twice.
- `NeverFalseNegative`: no input that matches is turned away, outside the two forms below.
- `IndexedSearchIsExact`: the shift table skips no occurrence.
- `EvaluateIsMatch`: a rule's verdict is that of its expression, through prefilter, memo and engine.

*Proved* in `HostRxProofs`, for any rules, values, engines, prefilters and capacity: `MemosAreTrue`,
`TypesHold`, `SearchIsExact`, `SearchesAreExact`, `VerdictsAreMatches`. `EvaluateIsMatch` speaks of one step and is not inductive; `HInv` says
what lasts: each operator of the host holds the handle of its own expression (`Loaded`), and each memo
consists of true statements about the expression of its handle, with no input twice (`Memos`). From the
latter follows that the first entry found is the only one. `SearchIsExact` is about `indexedMatcher` alone,
for needles and bytes of any length and any width of the table. The window is as long as the shortest
needle, and its right edge only moves forward. When an occurrence has that part of it end behind an edge, it
does not end before the next one, as the shift of a byte is at most its distance from there in any needle
(`Prepared`); so the edges come upon every occurrence (`NoOccurrenceIsPassed`). `SearchesAreExact` says it of
the filters that loading makes. `VerdictsAreMatches` assumes
`PrefilterIsSound`, which is `NeverFalseNegative` for every rule: it is a fact about recursive
definitions, checked by the run `rx` for each rule it loads, and false for the rules of `trie`.
`EngineAssumption` says that the text of a value that is no UTF-8 is to the host what its bytes are to Go.

Disagreement:

4. `trie`: "never cause a false negative" (rxprefilter.go:38-41), but `a(?:x|\dcde)` is given the literals
   `ax`, `acde`, and `a5cde` matches with neither; and a literal behind something optional is taken for
   the beginning, as in `(?i)\A\s*select`.

Not modelled: the capture of groups (on the host's path nothing is captured, hostrx.go:100-102),
`free()` of a handle and `extractExactMatch`, which nothing calls. `RegexSemantics` and `RxPrefilter`
use `RECURSIVE` operators, as the code is recursive over expressions, and so hold no theorem.

## What is only model-checked, and what is not modelled

Checked by TLC and not proved:

- liveness (`CallsReturn`, `RotationsComplete`, `DestroyStopsEveryThread`, `CreateSettles`,
  `TransactionsAreClosed`, `RequestsAreAnswered`, `TransactionEnds`): the provers have no rules for
  fairness and `ENABLED`;
- what the `RECURSIVE` operators of `RxPrefilter`, `RegexSemantics` and `Ignore` compute, as the provers
  reject such operators: `NeverFalseNegative` and the assumption `ListsAreAsDeclared`. Where a theorem needs one of these facts, it is a named hypothesis of it
  (`PrefilterIsSound`, `DeclaredLists`). `NeverFalseNegative` is false for some expressions (`trie`), so that
  there is nothing to prove of all of them.

What functions over the natural numbers compute is proved: `Recursion` states induction for sets of
numbers instead of operators, from the well-foundedness of their order, and that a function defined
by a recursion over them exists and is given by its equation.

The other way round, the type invariants of `Adapters` and `SyncAdapters` are proved and in no run.

Not modelled: the engine itself; loading (`wasm.ts` but for `ensureInitialPages`, `wasi.ts`,
`wasmResolve.ts`) and the wiring of the Nest module, which read files and build values and have no
protocol; the Go test doubles; examples, benchmarks, the documentation site and the
release scripts, which are not part of the program. A thread that hangs without dying is modelled in
`PoolBoot` only: elsewhere, under the fairness above, every thread runs. `WasmBridge` and `WAFPool`
are not composed: a worker makes one synchronous call per message, and `WAFPool` abstracts it to an
answer or an error.

## How the modules build on each other

`PoolBoot` ends where `WAFPool` begins; `WAFPool` implements `TxService`; `Adapters` takes what
`WAFPool` says of one transaction as given; `WasmBridge` is the synchronous WAF below a worker or an
application, and encodes with `BundleCodec`; `SyncAdapters` is an application over it and joins its
verdicts with `IgnoreVerdicts`, from lists that `MCSyncAdapters` takes from `Ignore`; `HostRx` is what the
engine calls back for `@rx`, over the expressions and prefilters that `MCHostRx` takes from the other two.
`PoolRules` puts `CoreRuleSet` and `WasmPatch` beside `PoolBoot`, before the first request.

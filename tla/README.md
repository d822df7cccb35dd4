# TLA+ models of the AVM core (`src/unnamed/part_002`, vm.go) and its node process

This directory holds TLA+ specifications of the transaction-processing core of
the AVM virtual machine and of the process that hosts it (`runner.go` and its
systemd unit), TLC configurations that model-check them on small
instances, and TLAPS proofs of the safety properties and refinements of the batch
scheduler, the transaction lifecycle, the asset-capability cache and the node
process.

## The system and its parts

`vm.go` is the VM a consensus engine drives. Its parts, and how they meet:

* **Batch Scheduler**: `issueTx`, `FlushTxs`, `PendingTxs`, `issueStopVertex`,
  the `timer` built in `Initialize` and `Shutdown`.
  * A verified transaction is appended to `vm.txs`.
  * The first one arms a one-second timer. The 30th (`batchSize`) flushes at once.
  * A flush sends `PendingTxs` on the `toEngine` channel without blocking. When the
    channel is full the signal is dropped and the timer re-armed.
  * The engine answers a signal by calling `PendingTxs`, which drains `vm.txs`.
  * The timer callback runs on its own goroutine and takes the engine's `ctx.Lock`.
  * `Shutdown` is called with that lock held. It releases the lock, stops the timer,
    and takes the lock again.
* **Transaction Validator**: `ParseTx`/`parseTx`, `IssueTx`, `GetTx`, `getUTXO`,
  `verifyTransfer`, `SetState`, `initGenesis`/`initState`.
  * Bytes that parse are stored. A transaction seen for the first time is committed
    as Processing.
  * Verification resolves each input from the committed UTXO set. Failing that, it
    re-verifies the input's source transaction and reads its output at the input's
    index, but only if that source is undecided.
  * The engine later accepts or rejects the transaction. `UniqueTx`, outside
    `src/`, then updates the UTXO set and the status.
* **Asset-Capability Cache**: `verifyFxUsage` and the 1024-entry LRU
  `assetToFxCache`. Before an extension checks an input or operation, the VM asks
  whether the asset declares that extension, from the cache or from the asset's
  creation transaction.
* **Coin Selector**: `Spend`, `SpendAll`, `Mint`, `SpendNFT`, `MintNFT`, fed by
  `LoadUser`. The wallet API builds transactions with them. They scan the user's
  UTXOs, pick inputs or operations, and sort them canonically.
* **Node runner and service unit**: `runner.Run` (`src/app/runner/runner.go`) and
  the systemd unit (`part_000`) that starts the node.
  * `Run` either serves the node to the daemon as a plugin and returns when the
    daemon is done, or prints a header, runs the app and calls `os.Exit` with its
    code.
  * systemd restarts the service after every exit (`Restart=always`), with its
    start-rate limit turned off (`StartLimitIntervalSec=0`).
  * Each exit ends the VM's memory (`vm.txs`, `vm.bootstrapped`). What the VM
    committed survives.
* **Not modelled**, for the reasons in `PROJECT.json`:
  * The Unique Transaction Cache. Only a one-line `DeduplicateTx` is under `src/`.
  * The HTTP handlers, the App* no-ops, `selectChangeAddr`, `lookupAssetID` and
    the engine-facing metadata calls.
  * `part_001`, a codec registration.

## Modules

| module | models | state |
|---|---|---|
| `BatchScheduler` | issueTx, FlushTxs, PendingTxs, issueStopVertex, timer, Shutdown | `txs` (vm.txs, as issue numbers), `toEngine`, the timer's `armed`/`firing`/`stopped`, the engine's `engPull`, `lockHeld`, the Shutdown stage `shut` |
| `TxHandoff` | the abstract hand-off `BatchScheduler` implements | `pending`, `delivered`, the issue `count` |
| `BatchSchedulerProofs` | TLAPS proofs about `BatchScheduler` | |
| `Validator` | parseTx, IssueTx, SetState, getUTXO, verifyTransfer, genesis, engine accept/reject, restart | persisted `status` and `utxos`, `bootstrapped`, `txs` (vm.txs) |
| `Ledger` | the abstract ledger `Validator` implements | `status` only; the live outputs are a function of it |
| `ValidatorProofs` | TLAPS proofs about `Validator` | |
| `VerifyProofs` | TLAPS proofs about `Validator`'s recursive verification: its fixed point, its depth bound, `VerifySpendsLive` | |
| `AssetFxCache` | verifyFxUsage and its LRU | `cache` (entries in recency order), `known` (creation tx Fetched), `last` answer |
| `AssetFxCacheProofs` | TLAPS proofs about `AssetFxCache` | |
| `NodeProcess` | runner.Run, the systemd unit, and the Validator running inside the process | the Validator's variables, `proc`, `plugin`, `starts`, the engine's `handed` |
| `NodeProcessProofs` | TLAPS proofs about `NodeProcess` | |
| `CoinSelector` | Spend, SpendAll, Mint, SpendNFT, MintNFT | `utxos` (LoadUser's list), `last` call and result |
| `MC*` | small constants for TLC | |

### Correspondence with the code

* **BatchScheduler.**
  * Every call the engine makes into the VM holds `ctx.Lock` and is one atomic step:
    `IssueTx` (`issueTx`, including its trailing `FlushTxs` or `SetTimeoutIn`),
    `PendingTxs`, `IssueStopVertex` and `ShutdownEnter`.
  * Transactions are named by issue number. That is all the properties need to tell
    them apart.
  * The timer is three flags:
    * `armed`: a timeout is scheduled;
    * `firing`: the callback has started and waits for the lock;
    * `stopped`: `timer.Stop` ran.
  * `TimerExpire` is the timer goroutine deciding to fire. `TimerHandler` is the
    callback once it holds the lock, and runs `FlushTxs`.
  * `Shutdown` is four steps, because it releases the lock in the middle:
    * `ShutdownEnter` (the call, under the lock);
    * `ShutdownUnlock` (line 283);
    * `ShutdownStopTimer` (line 284), which waits for a running callback;
    * `ShutdownRelock` (line 285).
  * `EngineReceive` is the engine taking a message off `toEngine`. After a
    `PendingTxs` message it calls `PendingTxs`, unless shut down.
* **Validator.**
  * A transaction is a model value. The UTXOs it consumes (`Ins`), its number of
    outputs (`NumOuts`) and the verdict of its extension checks (`FxValid`) are
    constants.
  * `VerifyAt(st)` is `verifyWithoutCacheWrites` under the statuses `st`:
    * Unknown and Rejected fail;
    * Accepted passes;
    * Processing needs every input to resolve by `GetUTXOOk`, which is `getUTXO`.
  * It is built from three definitions:
    * `VerifyLevel(st, v, n)` is one level of verification, given the verdicts `v`
      one level down for the parents that `getUTXO` verifies;
    * `VerifyDepth(st)` is the recursive function `V[n] = VerifyLevel(st, V[n-1], n)`;
    * `VerifyAt(st)` cuts it at depth `Cardinality(TxIds)`.
  * That depth is the code's unbounded recursion through `getUTXO`. `DepthSuffices`
    proves that looking deeper changes no verdict. `ValidatorAssumption` therefore
    also says that `TxIds` is finite.
  * `IssueTx` verifies under the statuses `parseTx` has just written. That write
    stays even when verification fails.
  * `Accept` is `UniqueTx.Accept` under the engine's rules:
    * the transaction is Processing;
    * every source transaction is accepted;
    * its inputs are unspent;
    * it verifies.
  * `IssueTx` ends with `issueTx`'s append to `txs`, whatever `txs` holds. The flush
    and timer it may start are `BatchScheduler`'s. `PendingTxs` empties `txs`.
  * `Restart` keeps what was committed and loses `vm.bootstrapped` and `vm.txs`.
    `initGenesis` writes nothing because the state is initialised.
* **Ledger and the refinement.** `Ledger` has only the statuses:
  * `Admit` is Unknown → Processing;
  * `Accept` needs every input to be `Live`, that is, an output of an accepted
    transaction that no accepted transaction spends;
  * `Reject` is Processing → Rejected.

  `Validator` instantiates it with the same statuses (`L == INSTANCE Ledger`).
  `LedgerSpec == L!Spec` then says that the UTXO index the code keeps never lets
  the engine accept a spend of an output that is not live.
* **NodeProcess.** It composes `runner.Run`, the unit and the Validator
  (`V == INSTANCE Validator`).
  * `BootStart` and `ServiceRestart` are systemd's `ExecStart`. `RestartAllowed`
    is the unit's policy.
  * `ServePlugin`/`ServeReturns` are lines 25-37. `RunApp`/`AppExits` are lines
    40-43.
  * `Killed` is the process dying anywhere. Every exit is `V!Restart`.
  * `VMStep` is any Validator step while the app is up. `EnginePull` is the engine
    calling `PendingTxs`, recorded in `handed`.
* **TxHandoff and the scheduler's refinement.** `TxHandoff` is what spec 4.4
  promises the engine, and nothing more:
  * `Issue` adds the next issue number to `pending`;
  * `Pull` moves all of `pending` to `delivered` at once.

  `BatchScheduler` instantiates it with a real mapping:
  `H == INSTANCE TxHandoff WITH pending <- Pending, delivered <- pulled, count <- issued`,
  where `Pending` is the set of entries of `vm.txs`. `HandoffSpec == H!Spec` then
  says that the timer, a flush, a dropped signal or a shutdown step never takes a
  transaction out of `vm.txs`, and that `PendingTxs` never hands over part of it.
* **AssetFxCache.** An asset is the model value of its creation transaction.
  `DeclaredFxs` holds the extension indices of its `States`.
  * `VerifyFxUsage` is the function, with three branches:
    * a cache hit;
    * a miss whose transaction is not Fetched or not a `CreateAssetTx`, which caches
      nothing;
    * a miss that derives and caches `DerivedBits`.
  * `DerivedBits` is what the loop at lines 577-583 builds: the queried index if the
    asset declares it, else nothing.
* **CoinSelector.**
  * A UTXO is a record: sort rank `id`, `asset`, output kind, amount, NFT group, and
    whether the keychain can sign for it now.
  * `SpendableIn` and `MintableIn` are the outcomes of `kc.Spend` and of the type
    assertions that follow it.
  * Each selector is a `FoldLeft` of a step operator that keeps the loop's
    `continue`, `break` and early `return`.
  * After the fold comes the final check, then the sort:
    * inputs by UTXOID;
    * operations by their bytes, which begin with the asset ID and the UTXOID.
  * Amounts have `Width` bits. `safemath.Add64` fails past `2^Width - 1`.

## Runs

| run | cfg | expect | what it shows |
|---|---|---|---|
| `batch_sched` | `MCBatchScheduler.cfg` | pass | `TxConservation`, `NotStranded` (invariants), `AllPulled`, `ShutdownCompletes` (liveness), `HandoffSpec` (the refinement) |
| `batch_bound` | `MCBatchSchedulerBound.cfg` | violation | `PendingBounded`: vm.txs exceeds batchSize |
| `validator` | `MCValidator.cfg` | pass | `VerifySpendsLive`, `StatusForward` |
| `fx_cache` | `MCAssetFxCache.cfg` | pass | `NoFalseSupport` (its type invariant is proved, `CacheTypeCorrect`) |
| `fx_cache_stale` | `MCAssetFxCacheStale.cfg` | violation | `AnswerMatchesDerivation`: the cached answer differs from re-derivation |
| `coin_select` | `MCCoinSelector.cfg` | pass | each selector equals its reference |
| `validator_ledger` | `MCValidatorLedger.cfg` | pass | `NoDoubleSpend`, `LedgerSpec` (the refinement) |
| `validator_dup` | `MCValidatorDup.cfg` | violation | `PendingUnique`: the same transaction twice in vm.txs |
| `node` | `MCNodeProcess.cfg` | pass | `NodeComesBack` (liveness) |
| `node_lost` | `MCNodeProcessLost.cfg` | violation | `IssuedReachesEngine`: an exit loses vm.txs |

What the properties say:

* **`TxConservation`.** The pending transactions and the pulled ones are disjoint,
  and together they are exactly the issued ones. No transaction is pending twice.
  Dropping the drain, or draining twice, breaks it.
* **`NotStranded`.** Before shutdown, a non-empty `vm.txs` always has one of:
  * an armed timer;
  * a callback waiting for the lock;
  * a pull under way;
  * a `PendingTxs` message in the channel.

  Without the re-arm at line 405 a dropped signal would strand the batch.
* **`HandoffSpec`.** The scheduler implements `TxHandoff`. If `PendingTxs` handed
  over only one batch of `batchSize` and kept the rest, a pull would deliver part of
  `vm.txs`, and TLC finds it.
* **`AllPulled`.** Every issued transaction is eventually pulled, or the VM shuts down.
* **`ShutdownCompletes`.** Once `Shutdown` is called it returns. Keeping the lock
  across `timer.Stop` violates it.
* **`PendingBounded`.** This is spec invariant 4: the pending batch never exceeds the
  configured size. Spec 4.4 adds that "the 31st starts a fresh window".
  * TLC finds `vm.txs` of length 3 with `batchSize` 2.
  * The flush at exactly `batchSize` only signals.
  * Later issues append to the same slice until the engine pulls, and no timer is
    armed for them.
* **`VerifySpendsLive`.** If a Processing transaction verifies, every input is an
  existing output (index below the count) of a Processing or Accepted transaction,
  and no accepted transaction has consumed it. Without the `status.Decided()` check
  at line 538, `getUTXO` re-derives a spent output of an accepted parent: a double
  spend.
* **`StatusForward`.** Statuses only move Unknown → Processing → Accepted or
  Rejected. It breaks if `parseTx` dropped its Unknown check and a decided
  transaction's bytes were parsed again.
* **`NoFalseSupport`.** A TRUE answer of `verifyFxUsage` is always right, through
  hits, misses and evictions.
* **`AnswerMatchesDerivation`.** It fails on the code:
  1. asset x declares secp256k1fx (0) and nftfx (1);
  2. checking fx 0 caches `{0}`;
  3. checking fx 1 then hits the cache and answers FALSE, so a valid NFT operation
     would get `errIncompatibleFx` until the entry is evicted.
* **`*MatchesReference`.** The reference definitions are stated over list positions,
  not as a scan. For example, Spend takes a spendable UTXO of asset a exactly when
  the spendable amount of a before it is still below the request. They also cover:
  * the whole-call failures: overflow, shortfall, no mintable output, no match;
  * the sort.

  Mutants break each property:
  * `>` for `>=` in Spend;
  * a wrapping `+` for `Add64` in SpendAll;
  * no `delete` in Mint, which mints twice;
  * no group check in SpendNFT.

* **`LedgerSpec`** and **`NoDoubleSpend`.** The VM implements the abstract ledger,
  and no output is spent by two accepted transactions. If `initGenesis` dropped its
  `stateInitialized` check, a restart would put the spent genesis UTXOs back, and a
  conflicting spend would be accepted.
* **`PendingUnique`.** It fails on the code: `IssueTx` of bytes already stored (a
  Processing or accepted transaction) appends the transaction again. TLC's shortest
  trace re-issues the genesis transaction, which the model lets parse
  (`Malformed` excludes `Genesis`). Real genesis bytes would likely fail
  `SyntacticVerify`, but any other re-issued transaction shows the same append. The engine's
  next batch then holds it twice. Spec 8 says `pending_txs()` observes no
  transaction twice.
* **`NodeComesBack`.** However often the node exits or is killed, it is up again.
  With systemd's default start limit in place of `StartLimitIntervalSec=0` the unit
  gives up.
* **`IssuedReachesEngine`.** It fails on the code:
  1. `IssueTx` appends t to `vm.txs` and returns its ID;
  2. the app exits, or is killed, before the engine pulls;
  3. after the restart t is Processing on disk, and nothing hands it to the engine.

  `Shutdown` does not flush `vm.txs` either. Spec 4.2 says a crash after acceptance
  cannot lose the transaction. Spec 5 says shutdown never discards accumulated
  transactions.

`PROJECT.json` lists, for each property of a passing run, a mutant of the mapped
code under which TLC finds the property violated.

### Bounds

* **Batch scheduler.** `BatchSize = 2`, `MaxIssued = 4`, `ChanCap = 1`,
  `MaxStopVertex = 1`.
  * Four issues reach a flush at the size, issues past it, and a second batch.
  * A channel of one filled by a `StopVertex` makes the dropped-signal path happen.
* **Validator.** Seven transactions:
  * a genesis asset with two outputs;
  * a spender of its output 0 with one output, and a conflicting spender of the
    same output;
  * a child of the first spender;
  * a spender of a non-existent output 1;
  * one failing its extension checks;
  * one malformed.

  Together they reach every branch of `getUTXO` and `verifyWithoutCacheWrites`.
  `MaxPending = 2` lets one transaction be appended twice.
* **Node process.** Four transactions and `MaxPending = 1`:
  * a genesis transaction;
  * two transactions spending its output, in conflict;
  * a child of the first of them.

  The conflict is what a restart that re-created spent outputs would let through. Both modes are explored (`plugin` is chosen at `Init`).
  `StartLimitBurst = 2` stands for systemd's default of 5: it is enough for a
  limited unit to give up.
* **Capability cache.** Three assets:
  * x declares both extensions;
  * y declares one;
  * z is not an asset.

  A one-entry cache forces eviction.
* **Coin selectors.** Every list of up to three of eight UTXOs, in every order, with
  3-bit amounts. The two spendable transfers of asset 1 (4 and 5) overflow together;
  sort ranks differ from list order; asset 2 has two mint outputs.

### Fairness

`FairSpec` assumes the following:

* **Weak fairness** on:
  * the timer firing and its callback;
  * the engine reading its channel and calling `PendingTxs`;
  * the lock steps of `Shutdown`.

  The Go runtime schedules each of these goroutines, and the engine always drains
  `toEngine`.
* **Strong fairness** on `ShutdownStopTimer`.
  * `timer.Stop` waits for a running callback.
  * While the channel is full, the callback keeps re-arming the timer, so Stop is
    enabled only between firings.
  * Weak fairness would allow a run where Stop never gets in, and TLC finds that run.
  * Strong fairness assumes that the Go scheduler does not keep Stop out forever while
    it is enabled again and again. Without that assumption `Shutdown` could indeed hang.

`NodeProcess` assumes the following:

* **Weak fairness** on systemd's `ExecStart` and restart timer.
* **Weak fairness** on the engine pulling a non-empty `vm.txs`. `AllPulled` shows
  that pull under the scheduler's own fairness.
* **Strong fairness** on `ServePlugin` and `RunApp`. A kill may cut any one start
  short. Strong fairness says that a start tried again and again eventually gets
  through. A node that crashes on every single start is outside what
  `NodeComesBack` claims. Kills, exits and issues have no fairness.

No fairness is assumed for issuing, stop vertices or Shutdown being called: those
are the environment's choices. After `Shutdown` returns the VM takes no further
step, so deadlock checking is off for the batch runs. The Validator's `Restart` is
always enabled, so it never deadlocks.

## Proofs (TLAPS)

`BatchSchedulerProofs` proves, for every value of the constants satisfying
`ConstantsAssumption` (`BatchSize`, `MaxIssued` and `ChanCap` positive naturals;
`MaxStopVertex` a natural):

* `InvariantsHold`: `Spec => [](TypeOK /\ TxConservation /\ NotStranded)`.
* `TypeCorrect`, `TxConservationHolds`, `NotStrandedHolds`: the three invariants one
  by one.

None of the three invariants is inductive alone:

* `TxConservation` needs the types to reason about `Append` and `txs[i]`.
* `NotStranded` needs the channel bound of `TypeOK` to know which branch `FlushTxs`
  takes. It needs `TxConservation`'s injectivity only through the types.

The inductive invariant is their conjunction, `IInv`. TLC checks `TxConservation`
and `NotStranded` in `batch_sched`. `TypeOK` is only proved, not a run property:
its one non-trivial part, the channel bound, holds for any code, because a Go
buffered channel never holds more than its capacity.

The proof has three lemmas:

* `InitIInv`: the initial state satisfies `IInv`.
* `TypeNext`: the types are kept. It is split into Boolean and data parts (`BoolsOK`
  and `DataOK`), proved with Zenon and with SMT.
* `SafetyNext`: one step per action. Under each step, a step per conjunct the action
  can disturb.

Helper lemmas state what `FlushTxs` leaves (`FlushTxsFacts`) and that a message other
than the head survives `Tail` (`TailHasOthers`). The temporal steps are closed by PTL.

The same module proves `HandoffRefinement`: `Spec => HandoffSpec`. It needs no
invariant beyond `TypeOK`. The step mapping (`NextHandoff`) has these cases:

* `IssueTx` is `Issue`. In each of its three branches `vm.txs` becomes
  `Append(txs, issued + 1)` (`IssueAppends`), so `Pending` gains exactly the new
  number (`AppendFacts`).
* `PendingTxs` is `Pull`.
* The timer's `FlushTxs(txs)` leaves `vm.txs` as it is. Every other step leaves
  `txs`, `pulled` and `issued` alone. Both are stutters of the hand-off.

The theorem is about `Spec`, the safety part. The run checks it under `FairSpec`,
which implies `Spec`.

`AssetFxCacheProofs` proves, for every set of assets and extensions and every
positive `CacheSize` (`AssetFxCacheAssumption`):

* `NoFalseSupportHolds`: `Spec => []NoFalseSupport`. `verifyFxUsage` never answers
  TRUE for an extension the asset's CreateAssetTx does not declare.
* `CacheTypeCorrect`: `Spec => []TypeOK`. The LRU never holds more than `CacheSize`
  entries.

`NoFalseSupport` is not inductive: a hit answers from bits an earlier miss cached,
so the step needs to know what the cache holds. The strengthening `CacheSound` says
that every cached entry belongs to a known CreateAssetTx and holds only extensions it
declares. A miss caches only such bits. `LearnAsset` only makes assets known. Eviction
and the move-to-front of `LRUPut` only drop or reorder old entries. The lemmas are:

* `WithoutFacts`: removing an entry leaves old entries only.
* `PutFacts`: `LRUPut` keeps the bound and adds only the new entry.
* `PutSound`: a sound entry put into a sound cache leaves it sound.

`Without` is written with `SubSeq` and `\o` rather than `SelectSeq`, because
`SequenceTheorems` has lemmas for the former.

`ValidatorProofs` proves, for every transaction graph satisfying
`ValidatorAssumption`:

* `TypeCorrect`: `Spec => []TypeOK`. `OutputsTyped` shows that the outputs `Accept`
  adds are UTXO IDs, which needs `NumOuts[t] <= MaxIndex + 1`.
* `StatusForwardHolds`: `Spec => StatusForward`. Every step of `Next` is a
  `StatusStep`, given only the types. The reason is that `ParseStatus` writes
  Processing only over Unknown, and the engine decides only Processing
  transactions. The proof never needs the value of the recursive `VerifyAt`,
  because `IssueTx` uses it only to decide whether to append to `txs`.
* `Refinement`: `Spec => LedgerSpec`. The Validator implements the abstract ledger.
* `NoDoubleSpendHolds`: `Spec => []NoDoubleSpend`.

`Refinement` and `NoDoubleSpendHolds` rest on the inductive invariant `RInv`, which has four conjuncts:

* `TypeOK`.
* `UtxoExact`: `utxos` is the outputs of accepted transactions minus their inputs.
* `SourcesAccepted`: an accepted transaction spends only outputs of accepted ones.
* `NoDoubleSpend`.

`UtxoExact` alone is not inductive. When t is accepted, its new outputs must not
already be spent. `SourcesAccepted` gives that, since t was not accepted yet, and
ranks keep t from spending its own outputs (`OutputsNotIns`). The step mapping
(`NextRefines`) then has four cases:

* a first parse is `Admit`;
* a re-parse is a stutter;
* `Accept`'s `Ins[t] \subseteq utxos` is `Ins[t] \subseteq Live`, by `UtxoExact`
  (`LiveIsExact`);
* the remaining steps leave the statuses alone.

`VerifyProofs` proves, under the same `ValidatorAssumption`:

* `VerifySpendsLiveHolds`: `Spec => []VerifySpendsLive`. A Processing transaction
  that verifies spends only existing outputs of accepted or processing transactions,
  and no accepted transaction has consumed them.
* `DepthSuffices`: for every `n >= Cardinality(TxIds)`, `VerifyDepth(st)[n]` equals
  `VerifyAt(st)`.

To the provers, a recursive function definition is only
`CHOOSE V : V = [n \in Nat |-> ...]`. Nothing follows from it until some such `V`
is shown to exist. The library's theorem for that (`NatInductiveDef`) has an
operator parameter that the provers cannot instantiate. So the existence proof uses
a closed form instead:

* A "depth labelling" gives each claimed transaction a height. A claimed
  transaction is Processing and passes its extension checks. Each of its inputs is
  in `utxos`, or is an output of an undecided claimed parent of smaller height.
  `Good` is this condition.
* `Least(st)` gives each transaction the least height that any good labelling gives
  it. The least element exists because `<` is well founded on `Nat` (`WFMin`,
  `NatLessThanWellFounded`, packed as `NatHasLeast`).
* `LeastGood`: `Least(st)` is itself good.
* `Closed(st)[n]` holds for the accepted transactions and those of least height at
  most `n`.
* `ClosedUnfolds`: `Closed(st)` satisfies the recursion. The hard direction
  puts t at height n on top of the heights of `Least(st)` below n.
* `VerifyDepthUnfolds` follows. `VerifyDepthIsClosed` shows the solution is unique,
  by taking the least depth where two solutions differ. That is induction written
  without an operator parameter.
* `LeastBounded` ranks each used height among the used heights. The result is again
  a good labelling, with heights at most `Cardinality(TxIds)` (`FS_Subset`,
  `FS_Surjection`). That gives `DepthSuffices`.
* `VerifySpendsLive` then follows from `RInv`, unfolding the recursion twice:
  * an input in `utxos` is an unspent output of an accepted transaction, by
    `UtxoExact`;
  * an input re-derived from its parent comes from a parent that verifies one level
    down and is undecided, so it is Processing. No accepted transaction spends it,
    because accepted transactions spend only outputs of accepted ones
    (`SourcesAccepted`).

`NodeProcessProofs` proves, for every value of the constants satisfying
`NodeAssumption`:

* `NodeRefinesVM`: `Spec => V!Spec`. Every step of the node is a step of the VM's
  specification or leaves the VM's variables alone (`NextVM`):
  * systemd's and `Run`'s own steps change no VM variable;
  * every exit is `V!Restart`;
  * `VMStep` is a VM operation, and `EnginePull` is `V!PendingTxs`.
* `NodeNoDoubleSpend`: `Spec => []V!NoDoubleSpend`.
* `NodeTypeCorrect`: `Spec => []TypeOK`.

These proofs reuse the VM's theorems rather than proving them again:

* The module instantiates `ValidatorProofs` as `VP`.
* An instantiated theorem holds under the instantiated assumption. `NodeAssumption`
  therefore includes `V!ValidatorAssumption`, and `VMAssumption` carries it over to
  `VP`.
* `VP` and `V` are two instances of the same definitions. `SameVM` shows that
  their initial predicates, next-state relations and `NoDoubleSpend`
  agree. `SameSpec` lifts that agreement to the specifications.
* The results then follow from `NodeRefinesVM` and `VP!NoDoubleSpendHolds` (or
  `VP!TypeCorrect`) by PTL.
* `NodeTypeCorrect` adds the node's own variables (`ProcOK`) to the VM's types. It
  needs the VM's types, because what `EnginePull` adds to `handed` comes from
  `vm.txs`.

Beyond TLAPS's reach, and only model-checked:

* The liveness properties (`AllPulled`, `ShutdownCompletes`, `NodeComesBack`) and
  the violated `IssuedReachesEngine`. They need fairness and ENABLED.
* The coin selectors. They use `FoldLeft`, a RECURSIVE operator, which cuts TLAPS off
  from its SMT backend.

## Not modelled, and why

* **`UniqueTx` and the deduplicating cache.** They lie outside `src/`. The lifecycle
  they implement is modelled from the spec as `Accept` and `Reject`.
* **`verifyOperation`'s multi-UTXO loop and `getFx`.** They are not modelled. The
  Validator abstracts a transaction's extension checks as one verdict, and the cache
  module models what `verifyFxUsage` answers.
* **What the node process does besides hosting the VM.** `process.NewApp`,
  `app.Run` and the plugin handshake are outside `src/`. They are single steps of
  `NodeProcess`. The header text, the logger and the `ExecStart` flags are left
  out, since no property depends on them.
* **The engine's own recovery after a restart.** The consensus engine is a black
  box. `NodeProcess` assumes that it learns of a transaction only through
  `PendingTxs`, which is the only hand-off in this code.
* **The keystore, JSON handlers and logging.** These are I/O, with no state
  transitions the properties depend on.

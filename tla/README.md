# A verification of the lottery, the transaction pool and the block clock

The repository holds Solidity exercises and, with them, the sources of
foundry-zksync, the tool chain they are built and tested with. This directory
models the parts of both in which the order of events matters, checks them with
TLC on small instances and proves the main invariants with TLAPS.

## The system

| Part | State | Operations | What is hard about it |
| --- | --- | --- | --- |
| Lottery (`Raffle.sol`) | players, pot, state, time of the last draw | enter, pick a winner, callback with the random word | the answer comes later, the payout hands control to the winner, the callback can revert |
| Transaction pool (`anvil/src/eth/pool`) | waiting and ready queue, four indexes between them | add, promote, replace, prune, remove, drop, clear, iterate | cascades that move transactions between the queues, order of a hash set, stale links |
| Block clock (`anvil/src/eth/backend/time.rs`) | offset, last timestamp, exact timestamp, interval | next timestamp, set, increase, reset | one lock per field, methods that touch several, u64 arithmetic |
| RPC handlers, miner, node service, backend, executor (anvil) | nonces, mining mode, backlog, chain | send, mine, snapshot, revert, reorg | values read before an await and used after it, lost notifications |
| FundMe, bank, wallets, tokens, registries | balances and owners | deposit, withdraw, transfer | calls that re-enter, price conversion, integer edges |
| Forks and scripts (`evm/core`, `script`) | request queues, saved sequences | fork, broadcast, resume | a crash between sending and saving |
| forge, cast, chisel, EVM, formatter, linter | files and bytecode | | input and output, or out of the reach of a finite model |

The API handlers put transactions into the pool; the miner takes them from the
ready iterator; the backend asks the clock for a timestamp while it holds the
mining lock; the node service prunes the pool when the block is there.

`PROJECT.json` lists every part with its status, the hazards at their lines and
the properties that cover them.

## Modules

### `Raffle`
Storage variables keep their names. `EnterRaffle` and `PickWinner` are the two
public functions; a revert is a disabled action. `fulfillRandomWords` is split at
its external call: `FulfillRandomWords` runs up to the call, then the winner may
call into the contract (`MayCall`), then `PayoutReturns` or `PayoutFails` ends it;
`frame` holds what a revert restores. `FulfillWithoutPlayers` is the panic of the
remainder by zero. The VRF coordinator is external: it answers a request once and
uses it up even if the callback reverts. The model also lets a winner call
`pickWinner` during the payout, which a coordinator with a reentrancy lock would
refuse; with a positive interval the time check refuses it anyway. Line 164 of the
contract does not compile as written and is read as `(bool success, )`.

### `TxPool`, `TxPoolOrder`, `MCTxPool`
`TxPool` has the fields of `PendingTransactions` and `ReadyTransactions`. Its
callers give a transaction one marker, (sender, nonce), and at most the one before
it as requirement, so `requires` is a set of hashes. `unlocks` counts occurrences,
since the code's list may hold a hash twice. Ids only serve to compare, so they
are the relation `older`. A call that loops under the lock takes one step per
iteration (`AddNext`, `PruneNext`, `PruneTag`, `ImportNext`) and `pc` says where
it is. `Orderings` are the orders in which a hash set can be iterated.
`remove_with_markers` is one step, the closure of the given hashes under
`unlocks`. Its clean-up of the provider's list compares with the wrong hash and
changes nothing; the model keeps that.

Whether a new transaction needs its predecessor is a free choice (`needs`): the
handler decides it from a nonce read earlier.

`TxPoolOrder` runs the ready iterator step by step; `MCTxPool` gives the accounts,
nonces and prices of the instances.

### `TimeManager`
One step per lock: `ReadLast` to `WriteLast` are `next_timestamp`, beside which
the handlers run. In the 2024 edition of Rust the guard of an `if let` is released
before its `else`, so the reads of the exact timestamp, the interval and the
offset are separate steps. There is one miner, since `next_timestamp` is only
called under the mining lock, and at most one `set_next_block_timestamp` and one
`reset` at a time. `block`, `moved` and `promised` are history variables.
`current_call_timestamp` only reads and is left out.

## Runs

| Run | Result |
| --- | --- |
| `raffle_safety` | The pot covers the fees of the players, and is empty without players, with reentry and refused payouts. |
| `raffle_live` | With players who accept the pot a draw has an answer coming, and ends. |
| `raffle_interval` | *Violated.* Two `pickWinner` calls in one round: the second answer ends the next round early. |
| `raffle_draw` | *Violated.* A draw without players never reopens the raffle. |
| `txpool_safety` | Queues and indexes agree; none of the assertions and `expect`s can fail; the iterator reaches all ready transactions; replacements pay more. |
| `txpool_senders` | Removal by account is exact; every call gives the lock back. |
| `txpool_order` | The iteration is complete, and a requirement that was there first comes first. |
| `txpool_status` | *Violated.* A stale link makes the iterator yield, and `txpool_status` count, a transaction twice. |
| `txpool_markers` | *Violated.* Removing a waiting transaction drops the marker entry of another. |
| `time_safety` | Block timestamps never go back, with one exception that the property names: `last_timestamp + 1` wraps to zero in a release build after a block at the largest u64. |
| `time_exact` | *Violated.* A timestamp set during `next_timestamp` is taken and not used. |
| `time_equal` | *Violated.* The check accepts the last timestamp; a test relies on it, the comment denies it. |

Each violated property is a sentence of the repository's comments; the findings
quote it. Every property of a passing run is refuted for a mutated operator, named
in `PROJECT.json` and defined just before the operator it replaces.

### Bounds
- Raffle: two players, up to three entries, two requests in flight, a clock of two
  ticks with an interval of one. That allows a second draw, a re-entered round and
  a request left over from the round before. Amounts lie below, at and above the
  fee. The counterexamples need no more.
- Pool: five transactions over three nonces of one account, two of them contested,
  give chains, replacement in the middle of a chain and promotion of competitors.
  One pair of competitors ties in price, the other does not. For removal by account
  one account has three nonces, so that some of its transactions are ready while
  another waits, and a second account has one. A block has up to two markers
  (`MaxIncluded`), and a hash occurs up to twice in one list (`MaxUnlocks`): the
  guard of `Addable` refuses only what would exceed that.
- Clock: u64 up to 5, two timestamps, one step size, one tick. Sums above and
  below the range occur. `MaxOffset` caps `increase_time`.

Deadlock checking is off for the raffle only, where the bounded clock and list
really stop.

### Fairness
`raffle_live` and `raffle_draw` assume that the coordinator answers and that a call
returns; nobody is forced to enter, to draw or to wait. `txpool_senders` assumes
that the thread that holds the lock goes on.

## Proofs

- `RaffleProofs`: types, `PotCoversFees`, `NoStrandedPot` and `DrawPending` for any players, fee,
  interval and bounds. The pot needs the snapshot in `frame` to satisfy the same
  relation, since a revert brings it back.
- `TxPoolProofs`: all invariants of `txpool_safety`, `ReplacedByHigherPrice` and
  `RemovesAccount`, for any finite set of transactions and any number of accounts.
  The inductive invariant adds to them what a call in progress holds (`CallOK`,
  `NoDuplicates`, `QueueAscends`), that links lead to the next nonce of the same
  account (`UnlocksSuccessors`), that a requirement implies a predecessor
  (`RequiresPrevious`), and that a dependent transaction has counted nothing yet
  (`DependentOffsets`). One lemma per operation shows it preserved. Completeness of
  the iterator takes a ready transaction of least nonce that is not reached. Its
  requirement is linked to it and has a smaller nonce, a contradiction. There is no
  cycle because nonces ascend along the queue.
- `TimeManagerProofs`: types and `NeverBack` for any width of u64. The invariant
  says that, without a reset since the last block, the value read is that block's
  timestamp and the value computed is not less.

The proofs rest on the named assumptions on the constants, which TLC evaluates in
the runs. Only model-checked: the liveness properties and what
the recursive iteration of `TxPoolOrder` yields.

## Not modelled, and the plan

1. Node: RPC handlers with their awaits, listeners and their bounded channel,
   miner, node service and block producer, composed with `TxPool`. Questions: is a
   ready transaction mined in the end, does one wait for a nonce already mined,
   which transactions a dropped notification leaves behind. An abstract pool, a set
   of transactions per account, is to be refined by `TxPool`.
2. FundMe with its price converter and mock feed; bank and savings; SafeWallet,
   SimpleNFT, MyToken, StudentRegistry, ToDo. Theorems: the books balance.
3. Chain: snapshots, revert, rollback and reorg, composed with `TimeManager`.
4. Forks (`MultiFork`) and script broadcasting with crash and resume.

Left out for good: EVM execution, cheatcodes, compilers, formatter, linter, command
lines and configuration, and the contracts that do not compile.

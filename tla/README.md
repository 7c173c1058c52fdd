# Formal models of comit-rs (hbit/herc20 swap, trading service, rates, rfc003 helpers)

This directory holds TLA+ models of the code under `src/`, the TLC configurations that
check them on small instances, and TLAPS proofs of the type and lifecycle invariants, the
refinement of the swap driver to the abstract atomic swap, an action property, and the
correctness of the Dai chain tables and the ethereum queries for every input.
`PROJECT.json` lists the components, the runs, the mutants that show each property can
fail, the map from every definition to the source lines it models, the findings, the
hazards and the theorems.

## The system and its parts

| Part | Source | Module(s) | Status |
|---|---|---|---|
| hbit/herc20 swap driver | `src/src/swap.rs` (`hbit_herc20`, lines 20-112; the two-node test, 344-402) | `HbitHerc20`, `MCHbitHerc20`, `HbitHerc20Proofs`, `HbitHerc20Refinement`; abstract spec `AtomicSwap` | modelled |
| Do / Execute / Refund actors | not under `src/` (spec 4.3-4.5) | inside `HbitHerc20`, spec-modelled | partly |
| Trading-service event store | `src/trading_service/src/event_store.rs` | `EventStore`, `MCEventStore`, `EventStoreProofs` | modelled |
| Rate and spread arithmetic | `src/src/rate.rs` | `Rate`, `MCHelpers` | modelled |
| Dai chain and amount helpers | `src/src/ethereum/dai.rs` | `Dai`, `MCChainHelpers`, `DaiProofs`, `MCChainHelpersProofs` | partly |
| rfc003 bitcoin funding validation | `src/application/comit_node/.../rfc003/validation.rs` | none: the function panics at its first line | not modelled |
| rfc003 ethereum btsieve queries | `src/application/comit_node/.../rfc003/ethereum/queries.rs` | `EthQueries`, `MCChainHelpers`, `EthQueriesProofs`, `MCChainHelpersProofs` | modelled |
| cnd Alice action view, halight/herc20 | `src/cnd/src/http_api/halight_herc20/alice.rs` | `AliceHalightHerc20` | modelled |
| libp2p test helper `connect` | `src/comit/src/network/test.rs` | none | not modelled |
| finalize message, `main` | see `PROJECT.json` | none | not modelled |

How the parts interact:
- **The swap driver.** The heart of the system is `hbit_herc20`, which both nodes of a swap run.
  - On Alice's node, `alice` is her wallet actor and `bob` is a watch-only actor. On Bob's node it is the other way round.
  - The function goes through four `Do` steps: fund hbit (alpha), deploy herc20, fund herc20 (beta), and redeem herc20.
  - Each step either continues once the awaited event is on the ledger, or aborts once `beta_expiry` is reached.
  - An abort runs the refunds of what was already locked.
  - After Alice's redeem, Bob's redeem of alpha races Alice's refund of alpha (`try_select`).
- **The cnd HTTP view** (`alice.rs`) offers Alice the next action of a halight/herc20 swap.
- **The trading service** records a trade's events in the event store.
- **`rate.rs`** prices trades, and **`dai.rs`** converts and displays amounts.
- **The rfc003 helpers** of the older comit_node: `queries.rs` builds the btsieve queries that watch an ethereum HTLC being deployed, funded, redeemed or refunded. `validation.rs` was meant to decide whether a bitcoin transaction funds the swap's HTLC, but its body starts with `unimplemented!()`.

## The modules

### HbitHerc20: the swap driver, two nodes and two ledgers

State:
- `pc[p]`: the step of the `hbit_herc20` call on node p.
- `sent[p]`: whether p's wallet already broadcast the step's transaction.
- `pending`: broadcast transactions, each with its broadcast time.
- `ledger[h]`: the events that happened to HTLC h.
- `now`: the ledger clock.
- `online[p]` and `outages[p]`.

The code's structure appears in two tables:
- `DoStep` gives, for each of the four `Do` steps, who acts, on which HTLC, the awaited event, the abort target and the continue target (swap.rs:42-87).
- `RefundStep` gives the refunds of the abort paths, including the `alice.refund` then `bob.refund` sequence of swap.rs:82-83.

Actions:
- `DoExecute`, `DoContinue` and `DoAbort` model `Do::r#do`, whose code is not under `src/` and is modelled from the spec.
  - A wallet actor broadcasts before `beta_expiry`.
  - Both nodes continue once the event is on the ledger, and abort from `beta_expiry` on.
- `RefundExecute` and `RefundComplete` model the refunds.
- `RaceRedeem`, `RaceRefund` and `RaceComplete` model the final `try_select`.
- `Confirm` applies a pending transaction, if the HTLC still allows it.
- `Tick` advances the clock.
- `Disconnect` and `Reconnect` take a node away and back, at most `MaxOutages` times.
- `ReturnErr` models the `?` on every awaited call (swap.rs:43-109): when `TransientErrors` holds, a wallet or connector error ends `hbit_herc20` with `Err` at any step before it returns. The node's `pc` becomes `Failed`, and nothing else changes. This action is not fair, since an error is never forced to happen.

Timing model:
- Local computation is taken to be fast compared with the ledgers: `Tick` is enabled only when no online node can step (`~ENABLED Step(p)` for both nodes). This is an assumption about the environment, not code. It only removes behaviours, where a slow node lets the clock pass. So every violation found under it is also a behaviour of slower nodes. The two passing safety properties are proved without using this guard: in the proofs, `Tick` changes only `now`.
- A pending transaction is confirmed at most `Delta` ticks after its broadcast.
- The clock stops at `MaxTime`, so the runs say `CHECK_DEADLOCK FALSE`: the end of the explored time is not a deadlock of the code.

Fairness (`FairFor(Back)`):
- Every node's steps, the ledgers and the clock are weakly fair. A running process and a live chain justify this.
- Only the nodes in `Back` are guaranteed to come back online.
- `AliceSpec` assumes only Alice comes back; `BobSpec` assumes only Bob does.

The instance (`MCHbitHerc20`): `BetaExpiry = 2`, `AlphaExpiry = 3`, `MaxTime = 4`.
- This is the smallest instance where every step can happen before beta expiry, an abort can happen at it, and alpha expires later.
- `swap_safety` lets a confirmation take up to two ticks (`Delta = 2`), each node go offline twice, and wallet errors happen, so that late confirmations, outages and errors meet every step (42,549 states).
- The violation runs use one outage per node. `swap_late_redeem` needs only `Delta = 1`; the others need no latency at all (`Delta = 0`).

### AtomicSwap: what the swap promises

`AtomicSwap` is the abstract specification. Its only state is the clock and the two ledgers.
- `Happen(h, e)` adds event e to HTLC h when the HTLC contract allows it (`ContractAllows`: funded once deployed, spent once, refund from expiry on).
- The swap must also allow it (`SwapAllows`): nothing happens to herc20 before hbit is funded, and hbit is redeemed only after herc20 was redeemed, because the secret comes from there.

`HbitHerc20` implements it with `now` and `ledger` mapped to themselves (`Swap == INSTANCE AtomicSwap`, `ImplementsAtomicSwap == Swap!Spec`).

### EventStore

State:
- `store[k][id]`: which caller's event of kind k is stored for trade id.
- Per caller: `pc`, `op`, `uid`, and `seen`, the progress of `current_state`.

Actions:
- `Call`: one of the four `store_*` functions starts.
- `ReadMap`: one `_get` of `current_state` under its own read lock.
- `Write`: the `_store` decision and insert under the write lock.

Instance: 2 ids and 2 callers, with symmetry over both sets (about 940k states).

### Rate, Dai, EthQueries: pure algorithms over bounded inputs

All three are checked by one module, `MCHelpers`. Its single variable `input` ranges over the bounded inputs of every helper, and each property compares a helper's result on its input with a reference definition. The inputs and properties of the Dai and EthQueries helpers are defined in `MCChainHelpers`, which `MCHelpers` extends together with `Rate`. This keeps them clear of `Rate`'s RECURSIVE `Reduce`, so that theorems can be stated about them over `ChainSpec`, the specification whose inputs are only the chain inputs.

`Rate`:
- An `f64` enters as its decimal text: the integer part and the fraction digits, the last digit non-zero. This is what `to_string` produces.
- `Reduce` is RECURSIVE, as in the code. `RateNew`, `FromF64`, `SpreadNew` and `SpreadApply` follow the code branch by branch. Their string operations are modelled by what they compute: length, trailing zero, concatenation, and point insertion.
- `ApplyExact` checks `Spread::apply` against `Canonical`, the least-exponent representation of the exact value.
- `FromF64` is modelled but no run checks it. On the texts `to_string` produces, `reduce` strips nothing, so its result is fixed by its two guards.

`Dai`:
- `ChainNew`, `FromPublicChainId`, `DaiContractAddress` and `ChainIdOf` are the four tables of `Chain`.
- `as_dai_rounded` is modelled on its text. A text is a sequence of one-character strings.
  - `DecimalString` is `to_string`, with `DecimalLen` a recursive function over `Nat`.
  - `SubSeq` is `truncate`.
  - `DaiText` is the `match` on the length: `"0.0"` before one digit, `"0."` before two, or the point inserted before the last two.
  - `FromStr` is `f64::from_str`: it finds the point, drops it, and folds the digits into a value, with the number of places after the point. The values parsed here have at most two places, which an `f64` reads back exactly as hundredths.
  - `Truncates` compares the result with the amount. `AsDaiRoundsToNearest` is what the doc comment says.

The properties of the Dai and EthQueries helpers are operators of their own
modules, over the helper's arguments (`NewRoundTrip`, `PublicRoundTrip`, `Truncates`,
`RoundsToNearest`, `SeesOwnSwap`). `MCChainHelpers` applies them to its `input`, and the
proof modules prove the chain and query ones for every argument. `MCChainAssumption` states what the instance must be: its address sets are subsets of `Address` and `EthAddress`, and its three swaps have distinct HTLCs and parameters, with tokens and parties that are no HTLC.

Two bounds are scaled because TLC integers are 32-bit:
- u32 becomes `U32Max = 65535`.
- `ATTOS_IN_DAI_EXP` becomes 5. `as_dai_rounded` depends on it only through the number of digits cut. The amounts 0..300000 give cut texts of no digit, one, two and three.

`EthQueries` builds the queries as records. Topics are address or message topics, and `None` is the wildcard. How btsieve matches a query, and what the contracts log, are not under `src/`; they come from the spec:
- A Transfer logs (message, from, to) at the token contract.
- An HTLC logs its redeem and refund messages at its own address, and moves the tokens out of itself.
- A deployment is a contract creation carrying the HTLC bytecode of the swap's parameters.

The inputs are three swaps (two of them on the same token), each step of each swap, and two actors.
`EthQueriesAssumption` says what the model values give TLC for free and the provers need
stated: `None` is neither an address nor a topic, and the three log messages differ (they
are hashes of different event signatures).

### AliceHalightHerc20

Alice's offered actions:
- `AliceFund` is offered when halight is Opened and herc20 is None.
- `AliceRedeem` is offered when herc20 is Funded (`RedeemOffered`), with no expiry check.
- Nothing else is offered (`Next` has no init, deploy or refund actions for Alice).

Bob's node and the ledgers are modelled from spec 4.4.2 and 4.2:
- Bob opens the hold invoice, deploys the HTLC, and funds it (correctly or with dust).
- Bob settles the invoice on seeing the secret, and refunds after expiry.
- A redeem reveals the secret when it is broadcast, and is mined within `Delta`.

Instance: BetaExpiry 3, AlphaExpiry 5, Delta 1, MaxTime 6. The module has only a violation run. Its guards offer nothing a passing property could check beyond restating `RedeemOffered`.

## Runs and what they show

Passing runs (each property has a mutant in `PROJECT.json` that TLC finds violated):

| Run | Properties | What it shows |
|---|---|---|
| swap_safety | `ImplementsAtomicSwap`, `BroadcastsInOrder` | With confirmations taking up to two ticks, two outages of either node and wallet errors, every step of the two nodes is a step of `AtomicSwap` or leaves the ledgers alone. No step puts a herc20 transaction in the pool before alpha's funding is on the ledger, or alpha's redeem before beta's redeem is (`BroadcastsInOrder`, an action property). |
| eventstore_lifecycle | `LifecycleOrder` | However concurrent stores interleave their reads and writes, no trade has an event without the events of every earlier kind. |
| helpers_exact | `ApplyExact`, `ChainRoundTrip`, `AsDaiTruncates`, `QueriesSeeOwnSwap` | `Spread::apply` is exact, reduced, and fails exactly on u32 overflow; zero keeps its exponent, because `reduce` leaves "0" alone. `Chain::new` round-trips. `as_dai_rounded`'s three text branches and the parse place the hundredths correctly, so the amount is truncated to the hundredth. A query of a swap matches what a step of any of the three swaps puts on the ledger exactly when it is that swap's step of the query's kind. So the funded query is fooled neither by the transfer out of the HTLC at a redeem or refund, nor by a funding of another swap on the same token. |

Violation runs (findings):

| Run | Property | Finding |
|---|---|---|
| swap_stranded | `NoFundsStranded` | swap.rs:45: an abort of the alpha-funding `Do` returns `Ok` with alpha funded or about to be, and never refunds it. |
| swap_alice_gone | `BobRecovers` | swap.rs:82: Bob's node refunds herc20 only after Alice's node refunded hbit. |
| swap_transient_error | `AliceRecovers` | swap.rs:52 (and every other `?`): an error after alpha is funded ends `hbit_herc20` with `Err`, and alpha is never spent. Spec section 7 asks for retries. |
| swap_late_redeem | `BobNotRobbed` | swap.rs:73: no safety margin before `beta_expiry`. A late redeem plus Alice's refund robs Bob. |
| eventstore_overwrite | `NoOverwrite` | event_store.rs:116: check-then-insert under different locks lets concurrent stores overwrite. |
| spread_percent | `SpreadNewIsPercent` | rate.rs:126: 0.5 gives 5 basis points, and 100.x is accepted. |
| dai_rounding | `AsDaiRoundsToNearest` | dai.rs:155: `as_dai_rounded` truncates where its doc comment says it rounds: half a hundredth shows as 0.0, and 1.235 DAI as 1.23. The test `given_amount_has_3_digits_after_decimal_return_rounded_up_amount` expects 1.24, yet it passes, because its assertion `dai - 1.24 < 1e-10` is one-sided. |
| alice_view_late | `AliceNotRobbed` | alice.rs:159: redeem is offered up to expiry, with no margin. |

No passing run checks Bob's safety (`BobNotRobbed`) or Alice's recovery (`AliceRecovers`). Both hold only when confirmation is immediate, and the spec bounds no latency (spec.md:78). With latency, `swap_late_redeem` and `swap_stranded` show the code losing them.

## What is proved

Six modules hold TLAPS proofs. Each proof is for every value of the constants, under the assumptions named below.

`HbitHerc20Proofs`, under `ConstantsAssumption` (five naturals and the Boolean `TransientErrors`):
- `TypeCorrect`: `Spec => []TypeOK`.
  - It rests on `InitType` and `TypeStep`, which has one step per action.
  - It also rests on the lemmas `BroadcastType`, `GotoType` and `StepTables`.

`HbitHerc20Refinement`: `Refinement`, `Spec => ImplementsAtomicSwap`.
- The inductive invariant `RInv` says four things:
  - a node that is neither at `FundHbit` nor returned has seen alpha funded;
  - a node in the final race has seen herc20 redeemed;
  - every pending herc20 transaction was sent after alpha was funded;
  - every pending hbit redeem was sent after herc20 was redeemed.
- `RInvStep` proves that every action keeps `RInv`, one step per action, with `RefinementTables` collecting the facts about the step tables. The ledger only grows (`ConfirmMonotone`).
- `RefinementStep` then maps each step to an `AtomicSwap` step:
  - A confirmation that changes a ledger is a `Happen`. `TxValid` is the contract rule, and `RInv` gives the swap order.
  - `Tick` is `Tick`; its guard is not used.
  - Every other action leaves `now` and `ledger` unchanged.
- The theorem holds whether or not wallet errors occur, and for every latency, outage bound and expiry. TLC checks the same property on the `swap_safety` instance.

The same module proves the action property `BroadcastOrder`, `Spec => BroadcastsInOrder`.
- `BroadcastOK` is the condition on a single step. `BroadcastKeepsLedger` shows that a step which adds to `pending` leaves `ledger` alone.
- The new transaction is in `pending'`, so `RInv'` bounds it by `ledger'`, which is `ledger`.

`EventStoreProofs`: `LifecycleRespected`, `Spec => []LifecycleOrder`, for any number of ids and callers, under `EventStoreAssumption`.
- `SInv` adds that every caller inside a store call still finds its id in the maps `1..seen[c]` it has read.
- This holds because no step removes an event (`StoreKeeps`): a write replaces an entry by a caller, never by `None`.
- So the write of kind k, made after reading k-1 maps, keeps the order.

`DaiProofs`, under `DaiAssumption`: `ChainNewRoundTrip` and `PublicChainRoundTrip` prove the two halves of `ChainRoundTrip` for every chain id and address, one case per branch of `Chain::new`.

`EthQueriesProofs`: `QueriesSeeOnlyOwnSwap` proves `SeesOwnSwap` for every set of swaps whose addresses are kept apart (`Apart`).
- Each swap has its own HTLC and parameters.
- No token contract is an HTLC, and the party acting is not one either.
- The three swaps of `MCChainHelpers` satisfy `Apart` (lemma `MCSwapsApart` of `MCChainHelpersProofs`).
- The proof first computes what `Matches` gives for each shape of query and log (`KindsApart`, `DeployedMatch`, `MessageMatch`), then goes through the 16 pairs of step and query.
- The hypotheses are needed. With `None` as an HTLC address, the redeemed and refunded queries of that swap would match such logs at every address; with a party address equal to an HTLC, the funded query would see the redeem's transfer.

`MCChainHelpersProofs` proves two invariants of the `helpers_exact` run, as stated there, for its chain inputs: `ChainRoundTripHolds` and `QueriesSeeOwnSwapHolds`, each `ChainSpec => []P`.
- They rest on `MCChainAssumption`, which TLC evaluates on that run.
- Each initial input is one of the theorems' arguments (`InputKinds`: the kind of an input tells which set it comes from).
- No step changes `input`.

Only model-checked, and out of TLAPS's reach:
- The liveness properties (`AliceRecovers`, `BobRecovers`), all of which fail.
- `ApplyExact`. `Rate` uses RECURSIVE operators, which keep tlapm from its SMT backend in every module that reaches them. What `Reduce` computes for every input would also need induction over data.
- `AsDaiTruncates`. It is about the digits of `to_string` and the fold of `from_str`. A proof for every amount needs induction over the digit sequence, which the installed provers cannot instantiate.

## Not modelled, and why

- `validation.rs`: `is_contained_in_transaction` starts with `let transaction: Transaction = unimplemented!()` (line 37), so every call panics. The output search after it is dead code.
- `finalize.rs`: a serialisable message, with no state.
- `main.rs`: configuration I/O.
- `from_dai_trunc` and the `Display` of `Amount`: they use `float_maths`, which is not under `src/`.
- `worth_in`: it relies on a `Rate::PRECISION` that the `Rate` of `rate.rs` does not have.
- Persistence (`db::Load`/`Save`): only the no-op stub of the test is under `src/`.
- The test helper `connect` (`comit/src/network/test.rs`), for now.
  - Its loop `while !alice_connected && !bob_connected` stops at the first `ConnectionEstablished`. Bob's first event after the dial is `IncomingConnection`, so the loop always stops before Bob's swarm has reported the connection.
  - A model of this loop has nine states, too few for a run of its own.

## Open directions

1. Bob's and Alice's safety under latency: a passing configuration with `Delta > 0` once the code has a safety margin before `beta_expiry` (spec 4.4.1) and a redeem of alpha on Bob's abort path.
2. Expiry ordering: swap.rs never compares the expiries. With `AlphaExpiry < BetaExpiry`, Alice can refund alpha while beta is still redeemable.
3. A non-recursive `Reduce`, written as a recursive function, so that the value it preserves can be proved.

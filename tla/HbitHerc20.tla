----------------------------- MODULE HbitHerc20 -----------------------------
(***************************************************************************)
(* The swap execution of src/src/swap.rs, `hbit_herc20`: Alice locks      *)
(* bitcoin in an hbit HTLC (alpha), Bob deploys and funds an herc20 HTLC   *)
(* (beta), Alice redeems beta revealing the secret, and Bob redeems alpha  *)
(* with it, racing Alice's refund of alpha.                                *)
(*                                                                         *)
(* Both nodes run the same function: on Alice's node the `alice` actor is  *)
(* her wallet and `bob` is a watch-only actor, on Bob's node the reverse.  *)
(* A wallet actor broadcasts a transaction and then waits to see its       *)
(* event on the ledger; a watch-only actor only waits for the event.       *)
(*                                                                         *)
(* The two ledgers hold the HTLCs; a broadcast transaction is confirmed    *)
(* (or rejected) later, at most Delta clock ticks after its broadcast.     *)
(* Local computation is fast against the ledger clock: the clock only      *)
(* advances when no online node can take a step.  A node may go offline    *)
(* (at most MaxOutages times) and come back.  When TransientErrors holds, *)
(* any call awaited with `?` may fail, and hbit_herc20 returns the error.  *)
(***************************************************************************)
EXTENDS Naturals, FiniteSets

CONSTANTS
    AlphaExpiry,   \* hbit_params.expiry: Alice may refund alpha from then on
    BetaExpiry,    \* herc20_params.expiry, the `beta_expiry` of swap.rs:41
    Delta,         \* bound on the confirmation latency of a transaction
    MaxTime,       \* the model's clock stops here
    MaxOutages,    \* bound on how often a node goes offline
    TransientErrors \* whether an awaited call may return an error

ASSUME ConstantsAssumption ==
    /\ AlphaExpiry \in Nat /\ BetaExpiry \in Nat
    /\ Delta \in Nat /\ MaxTime \in Nat /\ MaxOutages \in Nat
    /\ TransientErrors \in BOOLEAN

VARIABLES
    now,       \* the ledger clock
    pc,        \* pc[p]: where the hbit_herc20 call on p's node is
    sent,      \* sent[p]: p's wallet has broadcast the transaction of the current step
    pending,   \* broadcast, not yet confirmed transactions
    ledger,    \* ledger[h]: the events that happened to HTLC h
    online,    \* online[p]: p's node is running and connected
    outages    \* outages[p]: how often p's node went offline

vars == <<now, pc, sent, pending, ledger, online, outages>>

Party == {"Alice", "Bob"}
Htlc == {"hbit", "herc20"}
Event == {"Deployed", "Funded", "Redeemed", "Refunded"}
Time == 0..MaxTime
Tx == [htlc : Htlc, ev : Event, at : Time]

Expiry == [h \in Htlc |-> IF h = "hbit" THEN AlphaExpiry ELSE BetaExpiry]

(***************************************************************************)
(* The HTLC contracts.  An HTLC is spendable once funded and until it is   *)
(* redeemed or refunded; redeem needs the secret and no time, refund needs *)
(* the expiry to be reached.  Funding an herc20 HTLC needs it deployed;    *)
(* an hbit HTLC is deployed by funding it.                                 *)
(***************************************************************************)
Unspent(h) == "Funded" \in ledger[h] /\ ledger[h] \cap {"Redeemed", "Refunded"} = {}

TxValid(tx) ==
    /\ tx.ev = "Funded" => (tx.htlc = "hbit" \/ "Deployed" \in ledger[tx.htlc])
    /\ tx.ev \in {"Redeemed", "Refunded"} => Unspent(tx.htlc)
    /\ tx.ev = "Refunded" => now >= Expiry[tx.htlc]

(***************************************************************************)
(* The four `Do` steps of hbit_herc20, in order: who acts, on which HTLC,  *)
(* the event awaited, where the code goes on Next::Abort and on            *)
(* Next::Continue.                                                         *)
(***************************************************************************)
(* A slip: the first two awaits swapped, herc20 deployed before alpha. *)
DoStepDeployFirst ==
    [FundHbit     |-> [actor |-> "Bob",   htlc |-> "herc20", ev |-> "Deployed",
                       abort |-> "Done",        next |-> "DeployHerc20"],
     DeployHerc20 |-> [actor |-> "Alice", htlc |-> "hbit",   ev |-> "Funded",
                       abort |-> "RefundHbit",  next |-> "FundHerc20"],
     FundHerc20   |-> [actor |-> "Bob",   htlc |-> "herc20", ev |-> "Funded",
                       abort |-> "RefundHbit",  next |-> "RedeemHerc20"],
     RedeemHerc20 |-> [actor |-> "Alice", htlc |-> "herc20", ev |-> "Redeemed",
                       abort |-> "RefundHbitThenHerc20", next |-> "Race"]]

DoStep ==
    [FundHbit     |-> [actor |-> "Alice", htlc |-> "hbit",   ev |-> "Funded",
                       abort |-> "Done",        next |-> "DeployHerc20"],
     DeployHerc20 |-> [actor |-> "Bob",   htlc |-> "herc20", ev |-> "Deployed",
                       abort |-> "RefundHbit",  next |-> "FundHerc20"],
     FundHerc20   |-> [actor |-> "Bob",   htlc |-> "herc20", ev |-> "Funded",
                       abort |-> "RefundHbit",  next |-> "RedeemHerc20"],
     RedeemHerc20 |-> [actor |-> "Alice", htlc |-> "herc20", ev |-> "Redeemed",
                       abort |-> "RefundHbitThenHerc20", next |-> "Race"]]

(* The refunds of the abort paths, `alice.refund` and `bob.refund`. *)
RefundStep ==
    [RefundHbit           |-> [actor |-> "Alice", htlc |-> "hbit",   next |-> "Done"],
     RefundHbitThenHerc20 |-> [actor |-> "Alice", htlc |-> "hbit",   next |-> "RefundHerc20"],
     RefundHerc20         |-> [actor |-> "Bob",   htlc |-> "herc20", next |-> "Done"]]

(* "Done": hbit_herc20 returned Ok(()); "Failed": it returned an Err. *)
Pc == DOMAIN DoStep \cup DOMAIN RefundStep \cup {"Race", "Done", "Failed"}

TypeOK ==
    /\ now \in Time
    /\ pc \in [Party -> Pc]
    /\ sent \in [Party -> BOOLEAN]
    /\ pending \subseteq Tx
    /\ ledger \in [Htlc -> SUBSET Event]
    /\ online \in [Party -> BOOLEAN]
    /\ outages \in [Party -> 0..MaxOutages]

Init ==
    /\ now = 0
    /\ pc = [p \in Party |-> "FundHbit"]
    /\ sent = [p \in Party |-> FALSE]
    /\ pending = {}
    /\ ledger = [h \in Htlc |-> {}]
    /\ online = [p \in Party |-> TRUE]
    /\ outages = [p \in Party |-> 0]

(* p's wallet hands a transaction producing event ev on HTLC h to the ledger. *)
Broadcast(p, h, ev) ==
    /\ pending' = pending \cup {[htlc |-> h, ev |-> ev, at |-> now]}
    /\ sent' = [sent EXCEPT ![p] = TRUE]

(* p's node leaves the current step for `to`. *)
Goto(p, to) ==
    /\ pc' = [pc EXCEPT ![p] = to]
    /\ sent' = [sent EXCEPT ![p] = FALSE]

(***************************************************************************)
(* Do::r#do(actor, beta_expiry, args): when beta has not expired, a wallet *)
(* actor executes its transaction; the execution races a poll of the beta  *)
(* ledger's time, and the first to finish decides Continue or Abort.       *)
(***************************************************************************)
DoExecute(p) ==
    /\ pc[p] \in DOMAIN DoStep
    /\ DoStep[pc[p]].actor = p
    /\ ~sent[p]
    /\ now < BetaExpiry
    /\ Broadcast(p, DoStep[pc[p]].htlc, DoStep[pc[p]].ev)
    /\ UNCHANGED <<now, pc, ledger, online, outages>>

(* A slip: Continue without waiting for the event on the ledger. *)
DoContinueUnobserved(p) ==
    /\ pc[p] \in DOMAIN DoStep
    /\ Goto(p, DoStep[pc[p]].next)
    /\ UNCHANGED <<now, pending, ledger, online, outages>>

DoContinue(p) ==
    /\ pc[p] \in DOMAIN DoStep
    /\ DoStep[pc[p]].ev \in ledger[DoStep[pc[p]].htlc]
    /\ Goto(p, DoStep[pc[p]].next)
    /\ UNCHANGED <<now, pending, ledger, online, outages>>

DoAbort(p) ==
    /\ pc[p] \in DOMAIN DoStep
    /\ now >= BetaExpiry
    /\ Goto(p, DoStep[pc[p]].abort)
    /\ UNCHANGED <<now, pending, ledger, online, outages>>

(***************************************************************************)
(* alice.refund / bob.refund: the refunder's wallet waits for the expiry   *)
(* of its HTLC and broadcasts the refund; the call returns once the refund *)
(* is seen on the ledger, on either node.                                  *)
(***************************************************************************)
RefundExecute(p) ==
    /\ pc[p] \in DOMAIN RefundStep
    /\ RefundStep[pc[p]].actor = p
    /\ ~sent[p]
    /\ now >= Expiry[RefundStep[pc[p]].htlc]
    /\ Broadcast(p, RefundStep[pc[p]].htlc, "Refunded")
    /\ UNCHANGED <<now, pc, ledger, online, outages>>

RefundComplete(p) ==
    /\ pc[p] \in DOMAIN RefundStep
    /\ "Refunded" \in ledger[RefundStep[pc[p]].htlc]
    /\ Goto(p, RefundStep[pc[p]].next)
    /\ UNCHANGED <<now, pending, ledger, online, outages>>

(***************************************************************************)
(* future::try_select(hbit_redeem, hbit_refund): Bob's wallet redeems      *)
(* alpha with the secret of herc20_redeemed, Alice's wallet refunds alpha  *)
(* once it expired; whichever is seen on the ledger first ends the swap.   *)
(***************************************************************************)
RaceRedeem(p) ==
    /\ pc[p] = "Race"
    /\ p = "Bob"
    /\ ~sent[p]
    /\ Broadcast(p, "hbit", "Redeemed")
    /\ UNCHANGED <<now, pc, ledger, online, outages>>

RaceRefund(p) ==
    /\ pc[p] = "Race"
    /\ p = "Alice"
    /\ ~sent[p]
    /\ now >= AlphaExpiry
    /\ Broadcast(p, "hbit", "Refunded")
    /\ UNCHANGED <<now, pc, ledger, online, outages>>

RaceComplete(p) ==
    /\ pc[p] = "Race"
    /\ ledger["hbit"] \cap {"Redeemed", "Refunded"} # {}
    /\ Goto(p, "Done")
    /\ UNCHANGED <<now, pending, ledger, online, outages>>

Step(p) ==
    /\ online[p]
    /\ \/ DoExecute(p) \/ DoContinue(p) \/ DoAbort(p)
       \/ RefundExecute(p) \/ RefundComplete(p)
       \/ RaceRedeem(p) \/ RaceRefund(p) \/ RaceComplete(p)

(***************************************************************************)
(* Every call of hbit_herc20 is awaited with `?`: the Do steps            *)
(* (swap.rs:43,49,63,78), the refunds (swap.rs:52,67,82,83) and the        *)
(* try_select of the race (swap.rs:107-109).  An error of the wallet or   *)
(* of the ledger connector ends the call with Err, whatever was locked.   *)
(***************************************************************************)
ReturnErr(p) ==
    /\ TransientErrors
    /\ pc[p] \notin {"Done", "Failed"}
    /\ pc' = [pc EXCEPT ![p] = "Failed"]
    /\ UNCHANGED <<now, sent, pending, ledger, online, outages>>

(* A node goes offline and comes back with its swap where it was. *)
Disconnect(p) ==
    /\ online[p]
    /\ pc[p] \notin {"Done", "Failed"}
    /\ outages[p] < MaxOutages
    /\ online' = [online EXCEPT ![p] = FALSE]
    /\ outages' = [outages EXCEPT ![p] = @ + 1]
    /\ UNCHANGED <<now, pc, sent, pending, ledger>>

Reconnect(p) ==
    /\ ~online[p]
    /\ online' = [online EXCEPT ![p] = TRUE]
    /\ UNCHANGED <<now, pc, sent, pending, ledger, outages>>

(* A ledger includes a pending transaction, or rejects it. *)
Confirm(tx) ==
    /\ tx \in pending
    /\ pending' = pending \ {tx}
    /\ ledger' = IF TxValid(tx)
                 THEN [ledger EXCEPT ![tx.htlc] = @ \cup {tx.ev}]
                 ELSE ledger
    /\ UNCHANGED <<now, pc, sent, online, outages>>

(* The clock advances once every online node waits and no transaction is *)
(* about to exceed its confirmation latency.                            *)
Tick ==
    /\ now < MaxTime
    /\ \A tx \in pending : now + 1 - tx.at <= Delta
    /\ \A p \in Party : ~ENABLED Step(p)
    /\ now' = now + 1
    /\ UNCHANGED <<pc, sent, pending, ledger, online, outages>>

Next ==
    \/ \E p \in Party : Step(p) \/ ReturnErr(p) \/ Disconnect(p) \/ Reconnect(p)
    \/ \E tx \in pending : Confirm(tx)
    \/ Tick

(* Online nodes, the ledgers and the clock make progress; a node that is *)
(* listed in `Back` always comes back online.                            *)
FairFor(Back) ==
    /\ \A p \in Party : WF_vars(Step(p))
    /\ \A p \in Back : WF_vars(Reconnect(p))
    /\ WF_vars(\E tx \in pending : Confirm(tx))
    /\ WF_vars(Tick)

Spec == Init /\ [][Next]_vars

AliceSpec == Spec /\ FairFor({"Alice"})

BobSpec == Spec /\ FairFor({"Bob"})

-----------------------------------------------------------------------------
(***************************************************************************)
(* Properties.                                                             *)
(***************************************************************************)

(* Atomicity for Bob: while Bob's node has neither gone offline nor failed, *)
(* Alice cannot both take the herc20 (redeem beta) and get her bitcoin    *)
(* back (refund alpha).  This rests on Alice's redeem being cut off at    *)
(* beta_expiry (swap.rs:73) and on Bob redeeming alpha as soon as he sees *)
(* the secret (swap.rs:96).                                               *)
BobNotRobbed ==
    (outages["Bob"] = 0 /\ pc["Bob"] # "Failed") =>
        ~("Redeemed" \in ledger["herc20"] /\ "Refunded" \in ledger["hbit"])

(* No step of either node puts a transaction on Bob's herc20 HTLC in the  *)
(* pool before Alice's bitcoin is locked on the ledger (swap.rs:42-71),    *)
(* and none puts the redeem of Alice's hbit HTLC there before the redeem   *)
(* of beta, which reveals the secret, is on the ledger (swap.rs:88-104).   *)
BroadcastOK ==
    \A tx \in pending' \ pending :
        /\ tx.htlc = "herc20" => "Funded" \in ledger["hbit"]
        /\ (tx.htlc = "hbit" /\ tx.ev = "Redeemed") => "Redeemed" \in ledger["herc20"]

BroadcastsInOrder == [][BroadcastOK]_vars

(* The swap as its two ledgers show it (AtomicSwap), with the clock and  *)
(* the ledgers mapped to themselves.                                     *)
Swap == INSTANCE AtomicSwap
            WITH AlphaExpiry <- AlphaExpiry, BetaExpiry <- BetaExpiry,
                 MaxTime <- MaxTime, now <- now, ledger <- ledger

(* The two nodes together implement the atomic swap: every step leaves   *)
(* the ledgers as they were or makes a step of AtomicSwap, so Bob's HTLC *)
(* moves only after Alice's bitcoin is locked, and Alice's HTLC is       *)
(* redeemed only after the secret was revealed on Bob's (swap.rs:42-111). *)
ImplementsAtomicSwap == Swap!Spec

(* The inductive invariant behind the refinement: a node past the alpha   *)
(* step has seen alpha funded, a node in the race has seen beta redeemed, *)
(* and pending transactions were broadcast under the same conditions.     *)
RInv ==
    /\ TypeOK
    /\ \A p \in Party :
          pc[p] \notin {"FundHbit", "Done", "Failed"} => "Funded" \in ledger["hbit"]
    /\ \A p \in Party : pc[p] = "Race" => "Redeemed" \in ledger["herc20"]
    /\ \A tx \in pending : tx.htlc = "herc20" => "Funded" \in ledger["hbit"]
    /\ \A tx \in pending :
          (tx.htlc = "hbit" /\ tx.ev = "Redeemed") => "Redeemed" \in ledger["herc20"]

(* When hbit_herc20 has returned on both nodes, neither HTLC still holds   *)
(* funds: every abort path of swap.rs refunds what was locked.             *)
NoFundsStranded ==
    (\A p \in Party : pc[p] = "Done") => \A h \in Htlc : ~Unspent(h)

(* Alice recovers: if her node never goes offline, the bitcoin she locked *)
(* in alpha is eventually spent, by Bob's redeem or by her refund, whatever *)
(* Bob's node does (the refunds of swap.rs:52,67,82 and the race of :104).  *)
AliceRecovers ==
    [](outages["Alice"] = 0) => (Unspent("hbit") ~> ~Unspent("hbit"))

(* Bob recovers: if his node never goes offline, the herc20 he locked in  *)
(* beta is eventually spent, whatever Alice's node does (spec section 5:  *)
(* the engine never drops a post-fund swap without driving it to an end). *)
BobRecovers ==
    [](outages["Bob"] = 0) => (Unspent("herc20") ~> ~Unspent("herc20"))

=============================================================================

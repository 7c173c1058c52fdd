------------------------ MODULE HbitHerc20Refinement ------------------------
(***************************************************************************)
(* Proof that the two nodes running hbit_herc20 implement the atomic swap *)
(* of AtomicSwap, for every value of the constants.  The argument:        *)
(*  - RInv is inductive: a node past the alpha step has seen alpha funded *)
(*    (the Do steps only Continue on an observed event), a node in the    *)
(*    race has seen beta redeemed, and every pending transaction was      *)
(*    broadcast by a node in such a state;                                *)
(*  - under RInv a confirmation that changes a ledger is allowed by the   *)
(*    contract rules (TxValid) and by the order of the swap (RInv), so it *)
(*    is a Happen step of AtomicSwap; a tick is a Tick step; every other  *)
(*    step leaves the clock and the ledgers alone.                        *)
(* It also proves BroadcastsInOrder from RInv.                            *)
(***************************************************************************)
EXTENDS HbitHerc20Proofs

(* What the refinement needs of the Do and refund tables: which locations *)
(* they start from, where they lead, and what the steps do to the HTLCs.  *)
LEMMA RefinementTables ==
    /\ "FundHbit" \in DOMAIN DoStep
    /\ DoStep["FundHbit"].htlc = "hbit" /\ DoStep["FundHbit"].ev = "Funded"
    /\ DoStep["FundHbit"].abort = "Done"
    /\ \A s \in DOMAIN DoStep : s \notin {"Done", "Failed", "Race"}
    /\ \A s \in DOMAIN RefundStep : s \notin {"FundHbit", "Done", "Failed", "Race"}
    /\ \A s \in DOMAIN DoStep : DoStep[s].htlc = "herc20" => s # "FundHbit"
    /\ \A s \in DOMAIN DoStep : DoStep[s].htlc = "hbit" => DoStep[s].ev = "Funded"
    /\ \A s \in DOMAIN DoStep :
          DoStep[s].next = "Race" =>
              DoStep[s].htlc = "herc20" /\ DoStep[s].ev = "Redeemed"
    /\ \A s \in DOMAIN DoStep : DoStep[s].abort # "Race"
    /\ \A s \in DOMAIN RefundStep : RefundStep[s].next # "Race"
  BY DEF DoStep, RefundStep

(* A broadcast that respects the order of the swap keeps RInv when the  *)
(* program counters and the ledgers do not change.                      *)
LEMMA BroadcastKeepsRInv ==
    ASSUME RInv, TypeOK', NEW p \in Party, NEW h \in Htlc, NEW e \in Event,
           Broadcast(p, h, e), UNCHANGED <<pc, ledger>>,
           h = "herc20" => "Funded" \in ledger["hbit"],
           (h = "hbit" /\ e = "Redeemed") => "Redeemed" \in ledger["herc20"]
    PROVE  RInv'
  BY DEF Broadcast, RInv

(* Moving a node keeps RInv when the location it reaches is justified by *)
(* the ledgers, and the ledgers and the pool do not change.              *)
LEMMA GotoKeepsRInv ==
    ASSUME RInv, TypeOK', NEW p \in Party, NEW to \in Pc, Goto(p, to),
           UNCHANGED <<pending, ledger>>,
           to \notin {"FundHbit", "Done", "Failed"} => "Funded" \in ledger["hbit"],
           to = "Race" => "Redeemed" \in ledger["herc20"]
    PROVE  RInv'
  BY DEF Goto, RInv, TypeOK

(* RInv holds initially and is kept by every step. *)
LEMMA InitRInv == Init => RInv
  BY InitType DEF Init, RInv

LEMMA RInvStep == RInv /\ [Next]_vars => RInv'
<1> SUFFICES ASSUME RInv, [Next]_vars PROVE RInv'
  OBVIOUS
<1>0. TypeOK'
  BY TypeStep DEF RInv
<1>1. ASSUME NEW p \in Party, DoExecute(p) PROVE RInv'
  <2>1. pc[p] \in DOMAIN DoStep
    BY <1>1 DEF DoExecute
  <2>2. DoStep[pc[p]].htlc = "herc20" => "Funded" \in ledger["hbit"]
    BY <2>1, RefinementTables DEF RInv
  <2>3. DoStep[pc[p]].htlc = "hbit" => DoStep[pc[p]].ev = "Funded"
    BY <2>1, RefinementTables
  <2>4. QED
    BY <1>0, <1>1, <2>1, <2>2, <2>3, StepTables, BroadcastKeepsRInv DEF DoExecute
<1>2. ASSUME NEW p \in Party, DoContinue(p) PROVE RInv'
  <2>1. pc[p] \in DOMAIN DoStep
    BY <1>2 DEF DoContinue
  <2>2. DoStep[pc[p]].ev \in ledger[DoStep[pc[p]].htlc]
    BY <1>2 DEF DoContinue
  <2>3. "Funded" \in ledger["hbit"]
    <3>1. CASE pc[p] = "FundHbit"
      BY <2>2, <3>1, RefinementTables
    <3>2. CASE pc[p] # "FundHbit"
      BY <2>1, <3>2, RefinementTables DEF RInv
    <3>3. QED
      BY <3>1, <3>2
  <2>4. DoStep[pc[p]].next = "Race" => "Redeemed" \in ledger["herc20"]
    BY <2>1, <2>2, RefinementTables
  <2>5. QED
    BY <1>0, <1>2, <2>1, <2>3, <2>4, StepTables, GotoKeepsRInv DEF DoContinue
<1>3. ASSUME NEW p \in Party, DoAbort(p) PROVE RInv'
  <2>1. pc[p] \in DOMAIN DoStep
    BY <1>3 DEF DoAbort
  <2>2. DoStep[pc[p]].abort \notin {"FundHbit", "Done", "Failed"}
          => "Funded" \in ledger["hbit"]
    BY <2>1, RefinementTables DEF RInv
  <2>3. QED
    BY <1>0, <1>3, <2>1, <2>2, StepTables, RefinementTables, GotoKeepsRInv
    DEF DoAbort
<1>4. ASSUME NEW p \in Party, RefundExecute(p) PROVE RInv'
  <2>1. pc[p] \in DOMAIN RefundStep
    BY <1>4 DEF RefundExecute
  <2>2. "Funded" \in ledger["hbit"]
    BY <2>1, RefinementTables DEF RInv
  <2>3. QED
    BY <1>0, <1>4, <2>1, <2>2, StepTables, BroadcastKeepsRInv
    DEF RefundExecute, Event
<1>5. ASSUME NEW p \in Party, RefundComplete(p) PROVE RInv'
  <2>1. pc[p] \in DOMAIN RefundStep
    BY <1>5 DEF RefundComplete
  <2>2. "Funded" \in ledger["hbit"]
    BY <2>1, RefinementTables DEF RInv
  <2>3. QED
    BY <1>0, <1>5, <2>1, <2>2, StepTables, RefinementTables, GotoKeepsRInv
    DEF RefundComplete
<1>6. ASSUME NEW p \in Party, RaceRedeem(p) PROVE RInv'
  BY <1>0, <1>6, BroadcastKeepsRInv DEF RaceRedeem, RInv, Htlc, Event
<1>7. ASSUME NEW p \in Party, RaceRefund(p) PROVE RInv'
  BY <1>0, <1>7, BroadcastKeepsRInv DEF RaceRefund, Htlc, Event
<1>8. ASSUME NEW p \in Party, RaceComplete(p) PROVE RInv'
  BY <1>0, <1>8, StepTables, GotoKeepsRInv DEF RaceComplete
<1>9. ASSUME NEW p \in Party, Disconnect(p) \/ Reconnect(p) \/ ReturnErr(p)
      PROVE RInv'
  <2>1. CASE Disconnect(p)
    BY <1>0, <2>1 DEF Disconnect, RInv
  <2>2. CASE Reconnect(p)
    BY <1>0, <2>2 DEF Reconnect, RInv
  <2>3. CASE ReturnErr(p)
    BY <1>0, <2>3 DEF ReturnErr, RInv, TypeOK
  <2>4. QED
    BY <1>9, <2>1, <2>2, <2>3
<1>10. ASSUME NEW tx \in pending, Confirm(tx) PROVE RInv'
  <2>1. \A h \in Htlc : ledger[h] \subseteq ledger'[h]
    BY <1>10, ConfirmMonotone DEF RInv
  <2>2. QED
    BY <1>0, <1>10, <2>1 DEF Confirm, RInv, Htlc
<1>11. CASE Tick
  BY <1>0, <1>11 DEF Tick, RInv
<1>12. CASE UNCHANGED vars
  BY <1>0, <1>12 DEF vars, RInv
<1>13. QED
  BY <1>1, <1>2, <1>3, <1>4, <1>5, <1>6, <1>7, <1>8, <1>9, <1>10,
     <1>11, <1>12 DEF Next, Step

(* The initial state is the initial state of AtomicSwap. *)
LEMMA InitRefines == Init => Swap!Init
  BY DEF Init, Swap!Init, Htlc, Swap!Htlc

(* Under RInv every step is a step of AtomicSwap or leaves the clock and *)
(* the ledgers unchanged.                                                *)
LEMMA RefinementStep == RInv /\ [Next]_vars => [Swap!Next]_<<now, ledger>>
<1> SUFFICES ASSUME RInv, [Next]_vars PROVE [Swap!Next]_<<now, ledger>>
  OBVIOUS
<1>1. ASSUME NEW tx \in pending, Confirm(tx) PROVE [Swap!Next]_<<now, ledger>>
  <2>1. tx \in Tx
    BY DEF RInv, TypeOK
  <2>2. CASE TxValid(tx)
    <3>1. Swap!ContractAllows(tx.htlc, tx.ev)
      BY <2>1, <2>2 DEF TxValid, Swap!ContractAllows, Swap!Unspent, Unspent,
                        Swap!Expiry, Expiry, Tx, Htlc, Swap!Htlc
    <3>2. Swap!SwapAllows(tx.htlc, tx.ev)
      BY DEF RInv, Swap!SwapAllows
    <3>3. Swap!Happen(tx.htlc, tx.ev)
      BY <1>1, <2>2, <3>1, <3>2 DEF Confirm, Swap!Happen
    <3>4. QED
      BY <2>1, <3>3 DEF Swap!Next, Tx, Swap!Htlc, Swap!Event, Htlc, Event
  <2>3. CASE ~TxValid(tx)
    BY <1>1, <2>3 DEF Confirm
  <2>4. QED
    BY <2>2, <2>3
<1>2. CASE Tick
  BY <1>2 DEF Tick, Swap!Next, Swap!Tick
<1>3. ASSUME NEW p \in Party, Step(p) PROVE UNCHANGED <<now, ledger>>
  BY <1>3 DEF Step, DoExecute, DoContinue, DoAbort, RefundExecute,
              RefundComplete, RaceRedeem, RaceRefund, RaceComplete, Goto
<1>4. ASSUME NEW p \in Party, ReturnErr(p) \/ Disconnect(p) \/ Reconnect(p)
      PROVE UNCHANGED <<now, ledger>>
  BY <1>4 DEF ReturnErr, Disconnect, Reconnect
<1>5. CASE UNCHANGED vars
  BY <1>5 DEF vars
<1>6. QED
  BY <1>1, <1>2, <1>3, <1>4, <1>5 DEF Next

(* The two nodes running hbit_herc20 implement the atomic swap: the      *)
(* ledgers change only as the HTLC contracts and the order of the swap   *)
(* allow (swap.rs:42-111), for every expiry, latency, outage bound and    *)
(* with or without wallet errors.                                        *)
THEOREM Refinement == Spec => ImplementsAtomicSwap
<1>1. Spec => []RInv
  BY InitRInv, RInvStep, PTL DEF Spec
<1>2. QED
  BY <1>1, InitRefines, RefinementStep, PTL DEF Spec, ImplementsAtomicSwap, Swap!Spec

(* A step that puts a transaction in the pool changes no ledger. *)
LEMMA BroadcastKeepsLedger ==
    ASSUME RInv, [Next]_vars, pending' \ pending # {}
    PROVE  UNCHANGED ledger
<1>1. ASSUME NEW p \in Party, Step(p) PROVE UNCHANGED ledger
  BY <1>1 DEF Step, DoExecute, DoContinue, DoAbort, RefundExecute,
              RefundComplete, RaceRedeem, RaceRefund, RaceComplete, Goto, Broadcast
<1>2. ASSUME NEW p \in Party, ReturnErr(p) \/ Disconnect(p) \/ Reconnect(p)
      PROVE  FALSE
  BY <1>2 DEF ReturnErr, Disconnect, Reconnect
<1>3. ASSUME NEW tx \in pending, Confirm(tx) PROVE FALSE
  BY <1>3 DEF Confirm
<1>4. CASE Tick
  BY <1>4 DEF Tick
<1>5. CASE UNCHANGED vars
  BY <1>5 DEF vars
<1>6. QED
  BY <1>1, <1>2, <1>3, <1>4, <1>5 DEF Next

(* Every step from a state of RInv is allowed by BroadcastsInOrder: a     *)
(* new pending transaction was broadcast under an unchanged ledger, and   *)
(* RInv of the next state bounds it by that ledger.                       *)
LEMMA BroadcastOKStep == RInv /\ [Next]_vars => BroadcastOK
<1> SUFFICES ASSUME RInv, [Next]_vars PROVE BroadcastOK
  OBVIOUS
<1>1. CASE pending' \ pending = {}
  BY <1>1 DEF BroadcastOK
<1>2. CASE pending' \ pending # {}
  <2>1. UNCHANGED ledger
    BY <1>2, BroadcastKeepsLedger
  <2>2. RInv'
    BY RInvStep
  <2>3. QED
    BY <2>1, <2>2 DEF BroadcastOK, RInv
<1>3. QED
  BY <1>1, <1>2

(* Neither node broadcasts on the herc20 HTLC before the hbit HTLC is    *)
(* funded on the ledger, nor redeems the hbit HTLC before the secret is   *)
(* revealed on the ledger (swap.rs:42-104), for every expiry, latency,    *)
(* outage bound and with or without wallet errors.                        *)
THEOREM BroadcastOrder == Spec => BroadcastsInOrder
<1>1. Spec => []RInv
  BY InitRInv, RInvStep, PTL DEF Spec
<1>2. QED
  BY <1>1, BroadcastOKStep, PTL DEF Spec, BroadcastsInOrder

=============================================================================

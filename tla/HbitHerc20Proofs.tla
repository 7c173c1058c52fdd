-------------------------- MODULE HbitHerc20Proofs --------------------------
(***************************************************************************)
(* Proofs about HbitHerc20 for every value of the constants: the type     *)
(* invariant, and the facts about the step tables and the ledgers that   *)
(* the refinement proof (HbitHerc20Refinement) rests on.                  *)
(***************************************************************************)
EXTENDS HbitHerc20, TLAPS

(* Every step of the Do and refund tables names an actor, an HTLC and an  *)
(* event of the model and leads to a location of the model.               *)
LEMMA StepTables ==
    /\ \A s \in DOMAIN DoStep :
          /\ DoStep[s].actor \in Party
          /\ DoStep[s].htlc \in Htlc
          /\ DoStep[s].ev \in Event
          /\ DoStep[s].next \in Pc
          /\ DoStep[s].abort \in Pc
    /\ \A s \in DOMAIN RefundStep :
          /\ RefundStep[s].actor \in Party
          /\ RefundStep[s].htlc \in Htlc
          /\ RefundStep[s].next \in Pc
    /\ "Race" \in Pc /\ "Done" \in Pc /\ "Failed" \in Pc
  BY DEF DoStep, RefundStep, Pc, Party, Htlc, Event

(* A broadcast keeps the transaction pool well typed. *)
LEMMA BroadcastType ==
    ASSUME TypeOK, NEW p \in Party, NEW h \in Htlc, NEW e \in Event,
           Broadcast(p, h, e)
    PROVE  /\ pending' \subseteq Tx
           /\ sent' \in [Party -> BOOLEAN]
  BY DEF TypeOK, Broadcast, Tx

(* Leaving a step keeps the program counters well typed. *)
LEMMA GotoType ==
    ASSUME TypeOK, NEW p \in Party, NEW to \in Pc, Goto(p, to)
    PROVE  /\ pc' \in [Party -> Pc]
           /\ sent' \in [Party -> BOOLEAN]
  BY DEF TypeOK, Goto

(* The initial state is well typed. *)
LEMMA InitType == Init => TypeOK
  BY ConstantsAssumption DEF Init, TypeOK, Time, Pc, DoStep

(* Every step keeps the state well typed. *)
LEMMA TypeStep == TypeOK /\ [Next]_vars => TypeOK'
<1> SUFFICES ASSUME TypeOK, [Next]_vars PROVE TypeOK'
  OBVIOUS
<1>1. ASSUME NEW p \in Party, DoExecute(p) PROVE TypeOK'
  <2>1. pending' \subseteq Tx /\ sent' \in [Party -> BOOLEAN]
    BY <1>1, StepTables, BroadcastType DEF DoExecute
  <2>2. QED
    BY <1>1, <2>1 DEF DoExecute, TypeOK
<1>2. ASSUME NEW p \in Party, DoContinue(p) PROVE TypeOK'
  BY <1>2, StepTables, GotoType DEF DoContinue, TypeOK
<1>3. ASSUME NEW p \in Party, DoAbort(p) PROVE TypeOK'
  BY <1>3, StepTables, GotoType DEF DoAbort, TypeOK
<1>4. ASSUME NEW p \in Party, RefundExecute(p) PROVE TypeOK'
  <2>1. pending' \subseteq Tx /\ sent' \in [Party -> BOOLEAN]
    BY <1>4, StepTables, BroadcastType DEF RefundExecute, Event
  <2>2. QED
    BY <1>4, <2>1 DEF RefundExecute, TypeOK
<1>5. ASSUME NEW p \in Party, RefundComplete(p) PROVE TypeOK'
  BY <1>5, StepTables, GotoType DEF RefundComplete, TypeOK
<1>6. ASSUME NEW p \in Party, RaceRedeem(p) PROVE TypeOK'
  <2>1. pending' \subseteq Tx /\ sent' \in [Party -> BOOLEAN]
    BY <1>6, BroadcastType DEF RaceRedeem, Htlc, Event
  <2>2. QED
    BY <1>6, <2>1 DEF RaceRedeem, TypeOK
<1>7. ASSUME NEW p \in Party, RaceRefund(p) PROVE TypeOK'
  <2>1. pending' \subseteq Tx /\ sent' \in [Party -> BOOLEAN]
    BY <1>7, BroadcastType DEF RaceRefund, Htlc, Event
  <2>2. QED
    BY <1>7, <2>1 DEF RaceRefund, TypeOK
<1>8. ASSUME NEW p \in Party, RaceComplete(p) PROVE TypeOK'
  BY <1>8, StepTables, GotoType DEF RaceComplete, TypeOK
<1>9. ASSUME NEW p \in Party, Disconnect(p) PROVE TypeOK'
  BY <1>9, ConstantsAssumption DEF Disconnect, TypeOK
<1>10. ASSUME NEW p \in Party, Reconnect(p) PROVE TypeOK'
  BY <1>10 DEF Reconnect, TypeOK
<1>11. ASSUME NEW tx \in pending, Confirm(tx) PROVE TypeOK'
  BY <1>11 DEF Confirm, TypeOK, Tx
<1>12. CASE Tick
  BY <1>12, ConstantsAssumption DEF Tick, TypeOK, Time
<1>13. CASE UNCHANGED vars
  BY <1>13 DEF vars, TypeOK
<1>14. ASSUME NEW p \in Party, ReturnErr(p) PROVE TypeOK'
  BY <1>14, StepTables DEF ReturnErr, TypeOK
<1>15. QED
  BY <1>1, <1>2, <1>3, <1>4, <1>5, <1>6, <1>7, <1>8, <1>9, <1>10,
     <1>11, <1>12, <1>13, <1>14 DEF Next, Step

(* The type invariant holds in every reachable state. *)
THEOREM TypeCorrect == Spec => []TypeOK
  BY InitType, TypeStep, PTL DEF Spec

(* Events are never removed from a ledger: a confirmation only adds one. *)
LEMMA ConfirmMonotone ==
    ASSUME TypeOK, NEW tx \in pending, Confirm(tx)
    PROVE  \A h \in Htlc : ledger[h] \subseteq ledger'[h]
  BY DEF Confirm, TypeOK, Tx

=============================================================================

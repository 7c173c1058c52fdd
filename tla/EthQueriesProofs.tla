-------------------------- MODULE EthQueriesProofs --------------------------
(***************************************************************************)
(* The erc20 HTLC queries of queries.rs see exactly their own swap's       *)
(* steps, for any set of swaps whose addresses are kept apart as on a real *)
(* ledger, not only for the three swaps MCHelpers enumerates.             *)
(***************************************************************************)
EXTENDS EthQueries, TLAPS

(* The swaps on the ledger, and the party acting, as a real ledger has   *)
(* them: every address is an address; each swap has its own HTLC         *)
(* contract and its own parameters (the secret hash is in them); no token *)
(* contract is an HTLC, and the party that acts is not one either.        *)
Apart(Swaps, who) ==
    /\ who \in EthAddress
    /\ \A s \in Swaps : s.htlc \in EthAddress /\ s.token \in EthAddress
    /\ \A s, t \in Swaps : s.htlc = t.htlc => s = t
    /\ \A s, t \in Swaps : s.params = t.params => s = t
    /\ \A s, t \in Swaps : s.token # t.htlc
    /\ \A s \in Swaps : who # s.htlc

(* A transaction query matches only transactions, an event query only *)
(* logs.                                                               *)
LEMMA KindsApart ==
    ASSUME NEW params, NEW who, NEW a, NEW t, NEW q, NEW d
    PROVE  /\ ~Matches(EventQuery(a, q), [type |-> "tx", from |-> who, to |-> None,
                                          is_contract_creation |-> TRUE, data |-> d])
           /\ ~Matches(HtlcDeployedQuery(params), Log(a, t))
  BY DEF Matches, EventQuery, HtlcDeployedQuery, TransactionQuery, Log

(* The deployed query sees the creation of the HTLC of its own params. *)
LEMMA DeployedMatch ==
    ASSUME NEW params, NEW p, NEW who
    PROVE  Matches(HtlcDeployedQuery(params),
                   [type |-> "tx", from |-> who, to |-> None,
                    is_contract_creation |-> TRUE, data |-> Bytecode(p)])
           <=> params = p
  BY DEF Matches, HtlcDeployedQuery, TransactionQuery, Bytecode

(* The redeemed and refunded queries see their own message at their own *)
(* HTLC, and no Transfer.                                                *)
LEMMA MessageMatch ==
    ASSUME NEW htlc \in EthAddress, NEW a, NEW from, NEW to,
           NEW m \in {RedeemLogMsg, RefundLogMsg, TransferLogMsg}
    PROVE  /\ Matches(HtlcRedeemedQuery(htlc), Log(a, <<MsgTopic(m)>>))
                <=> a = htlc /\ m = RedeemLogMsg
           /\ Matches(HtlcRefundedQuery(htlc), Log(a, <<MsgTopic(m)>>))
                <=> a = htlc /\ m = RefundLogMsg
           /\ ~Matches(HtlcRedeemedQuery(htlc), TransferLog(a, from, to))
           /\ ~Matches(HtlcRefundedQuery(htlc), TransferLog(a, from, to))
<1>1. Matches(HtlcRedeemedQuery(htlc), Log(a, <<MsgTopic(m)>>))
        <=> a = htlc /\ m = RedeemLogMsg
  BY EthQueriesAssumption DEF Matches, HtlcRedeemedQuery, EventQuery, Log, MsgTopic
<1>2. Matches(HtlcRefundedQuery(htlc), Log(a, <<MsgTopic(m)>>))
        <=> a = htlc /\ m = RefundLogMsg
  BY EthQueriesAssumption DEF Matches, HtlcRefundedQuery, EventQuery, Log, MsgTopic
<1>3. ~Matches(HtlcRedeemedQuery(htlc), TransferLog(a, from, to))
  BY EthQueriesAssumption
  DEF Matches, HtlcRedeemedQuery, EventQuery, TransferLog, Log, MsgTopic
<1>4. ~Matches(HtlcRefundedQuery(htlc), TransferLog(a, from, to))
  BY EthQueriesAssumption
  DEF Matches, HtlcRefundedQuery, EventQuery, TransferLog, Log, MsgTopic
<1>5. QED
  BY <1>1, <1>2, <1>3, <1>4

(* What the ledger shows of one step, matched against one query. *)
LEMMA StepAgainstQuery ==
    ASSUME NEW Swaps, NEW who, Apart(Swaps, who),
           NEW of \in Swaps, NEW watched \in Swaps,
           NEW step \in Step, NEW k \in Step
    PROVE  (\E ev \in Emitted(step, of.params, of.token, of.htlc, who) :
                Matches(QueryOf(k, watched), ev))
           <=> (k = step /\ watched = of)
<1>0. /\ who \in EthAddress
      /\ of.htlc \in EthAddress /\ of.token \in EthAddress
      /\ watched.htlc \in EthAddress /\ watched.token \in EthAddress
      /\ watched.htlc = of.htlc => watched = of
      /\ watched.params = of.params => watched = of
      /\ who # watched.htlc /\ of.token # watched.htlc
  BY DEF Apart
<1>1. CASE step = "Deployed"
  <2>0. Emitted(step, of.params, of.token, of.htlc, who) =
          {[type |-> "tx", from |-> who, to |-> None,
                   is_contract_creation |-> TRUE, data |-> Bytecode(of.params)]}
    BY <1>1 DEF Emitted
  <2>1. CASE k = "Deployed"
    <3>1. QueryOf(k, watched) = HtlcDeployedQuery(watched.params)
      BY <2>1 DEF QueryOf
    <3>2. Matches(HtlcDeployedQuery(watched.params),
                  [type |-> "tx", from |-> who, to |-> None,
                   is_contract_creation |-> TRUE, data |-> Bytecode(of.params)]) <=> watched.params = of.params
      BY DeployedMatch
    <3>3. QED
      BY <1>0, <1>1, <2>0, <2>1, <3>1, <3>2, EthQueriesAssumption
  <2>2. CASE k = "Funded"
    <3>1. QueryOf(k, watched) = Erc20FundedQuery(watched.token, watched.htlc)
      BY <2>2 DEF QueryOf
    <3>2. ~Matches(Erc20FundedQuery(watched.token, watched.htlc),
                   [type |-> "tx", from |-> who, to |-> None,
                   is_contract_creation |-> TRUE, data |-> Bytecode(of.params)])
      BY KindsApart DEF Erc20FundedQuery
    <3>3. QED
      BY <1>0, <1>1, <2>0, <2>2, <3>1, <3>2, EthQueriesAssumption
  <2>3. CASE k = "Redeemed"
    <3>1. QueryOf(k, watched) = HtlcRedeemedQuery(watched.htlc)
      BY <2>3 DEF QueryOf
    <3>2. ~Matches(HtlcRedeemedQuery(watched.htlc),
                   [type |-> "tx", from |-> who, to |-> None,
                   is_contract_creation |-> TRUE, data |-> Bytecode(of.params)])
      BY KindsApart DEF HtlcRedeemedQuery
    <3>3. QED
      BY <1>0, <1>1, <2>0, <2>3, <3>1, <3>2, EthQueriesAssumption
  <2>4. CASE k = "Refunded"
    <3>1. QueryOf(k, watched) = HtlcRefundedQuery(watched.htlc)
      BY <2>4 DEF QueryOf
    <3>2. ~Matches(HtlcRefundedQuery(watched.htlc),
                   [type |-> "tx", from |-> who, to |-> None,
                   is_contract_creation |-> TRUE, data |-> Bytecode(of.params)])
      BY KindsApart DEF HtlcRefundedQuery
    <3>3. QED
      BY <1>0, <1>1, <2>0, <2>4, <3>1, <3>2, EthQueriesAssumption
  <2>5. QED
    BY <2>1, <2>2, <2>3, <2>4 DEF Step
<1>2. CASE step = "Funded"
  <2>0. Emitted(step, of.params, of.token, of.htlc, who) =
          {TransferLog(of.token, who, of.htlc)}
    BY <1>2 DEF Emitted
  <2>1. CASE k = "Deployed"
    <3>1. QueryOf(k, watched) = HtlcDeployedQuery(watched.params)
      BY <2>1 DEF QueryOf
    <3>2. ~Matches(HtlcDeployedQuery(watched.params), TransferLog(of.token, who, of.htlc))
      BY KindsApart DEF TransferLog
    <3>3. QED
      BY <1>0, <1>2, <2>0, <2>1, <3>1, <3>2, EthQueriesAssumption
  <2>2. CASE k = "Funded"
    <3>1. QueryOf(k, watched) = Erc20FundedQuery(watched.token, watched.htlc)
      BY <2>2 DEF QueryOf
    <3>2. Matches(Erc20FundedQuery(watched.token, watched.htlc), TransferLog(of.token, who, of.htlc))
            <=> of.token = watched.token /\ of.htlc = watched.htlc
      BY <1>0, EthQueriesAssumption
      DEF Matches, Erc20FundedQuery, EventQuery, TransferLog, Log, MsgTopic, AddrTopic
    <3>3. QED
      BY <1>0, <1>2, <2>0, <2>2, <3>1, <3>2, EthQueriesAssumption
  <2>3. CASE k = "Redeemed"
    <3>1. QueryOf(k, watched) = HtlcRedeemedQuery(watched.htlc)
      BY <2>3 DEF QueryOf
    <3>2. ~Matches(HtlcRedeemedQuery(watched.htlc), TransferLog(of.token, who, of.htlc))
      BY <1>0, MessageMatch
    <3>3. QED
      BY <1>0, <1>2, <2>0, <2>3, <3>1, <3>2, EthQueriesAssumption
  <2>4. CASE k = "Refunded"
    <3>1. QueryOf(k, watched) = HtlcRefundedQuery(watched.htlc)
      BY <2>4 DEF QueryOf
    <3>2. ~Matches(HtlcRefundedQuery(watched.htlc), TransferLog(of.token, who, of.htlc))
      BY <1>0, MessageMatch
    <3>3. QED
      BY <1>0, <1>2, <2>0, <2>4, <3>1, <3>2, EthQueriesAssumption
  <2>5. QED
    BY <2>1, <2>2, <2>3, <2>4 DEF Step
<1>3. CASE step = "Redeemed"
  <2>0. Emitted(step, of.params, of.token, of.htlc, who) =
          {Log(of.htlc, <<MsgTopic(RedeemLogMsg)>>),
                      TransferLog(of.token, of.htlc, who)}
    BY <1>3 DEF Emitted
  <2>1. CASE k = "Deployed"
    <3>1. QueryOf(k, watched) = HtlcDeployedQuery(watched.params)
      BY <2>1 DEF QueryOf
    <3>2. ~Matches(HtlcDeployedQuery(watched.params), Log(of.htlc, <<MsgTopic(RedeemLogMsg)>>))
      BY KindsApart
    <3>3. ~Matches(HtlcDeployedQuery(watched.params), TransferLog(of.token, of.htlc, who))
      BY KindsApart DEF TransferLog
    <3>4. QED
      BY <1>0, <1>3, <2>0, <2>1, <3>1, <3>2, <3>3, EthQueriesAssumption
  <2>2. CASE k = "Funded"
    <3>1. QueryOf(k, watched) = Erc20FundedQuery(watched.token, watched.htlc)
      BY <2>2 DEF QueryOf
    <3>2. ~Matches(Erc20FundedQuery(watched.token, watched.htlc), Log(of.htlc, <<MsgTopic(RedeemLogMsg)>>))
      BY <1>0, EthQueriesAssumption
      DEF Matches, Erc20FundedQuery, EventQuery, TransferLog, Log, MsgTopic, AddrTopic
    <3>3. Matches(Erc20FundedQuery(watched.token, watched.htlc), TransferLog(of.token, of.htlc, who))
            <=> of.token = watched.token /\ who = watched.htlc
      BY <1>0, EthQueriesAssumption
      DEF Matches, Erc20FundedQuery, EventQuery, TransferLog, Log, MsgTopic, AddrTopic
    <3>4. QED
      BY <1>0, <1>3, <2>0, <2>2, <3>1, <3>2, <3>3, EthQueriesAssumption
  <2>3. CASE k = "Redeemed"
    <3>1. QueryOf(k, watched) = HtlcRedeemedQuery(watched.htlc)
      BY <2>3 DEF QueryOf
    <3>2. Matches(HtlcRedeemedQuery(watched.htlc), Log(of.htlc, <<MsgTopic(RedeemLogMsg)>>))
            <=> of.htlc = watched.htlc /\ RedeemLogMsg = RedeemLogMsg
      BY <1>0, MessageMatch
    <3>3. ~Matches(HtlcRedeemedQuery(watched.htlc), TransferLog(of.token, of.htlc, who))
      BY <1>0, MessageMatch
    <3>4. QED
      BY <1>0, <1>3, <2>0, <2>3, <3>1, <3>2, <3>3, EthQueriesAssumption
  <2>4. CASE k = "Refunded"
    <3>1. QueryOf(k, watched) = HtlcRefundedQuery(watched.htlc)
      BY <2>4 DEF QueryOf
    <3>2. Matches(HtlcRefundedQuery(watched.htlc), Log(of.htlc, <<MsgTopic(RedeemLogMsg)>>))
            <=> of.htlc = watched.htlc /\ RedeemLogMsg = RefundLogMsg
      BY <1>0, MessageMatch
    <3>3. ~Matches(HtlcRefundedQuery(watched.htlc), TransferLog(of.token, of.htlc, who))
      BY <1>0, MessageMatch
    <3>4. QED
      BY <1>0, <1>3, <2>0, <2>4, <3>1, <3>2, <3>3, EthQueriesAssumption
  <2>5. QED
    BY <2>1, <2>2, <2>3, <2>4 DEF Step
<1>4. CASE step = "Refunded"
  <2>0. Emitted(step, of.params, of.token, of.htlc, who) =
          {Log(of.htlc, <<MsgTopic(RefundLogMsg)>>),
                      TransferLog(of.token, of.htlc, who)}
    BY <1>4 DEF Emitted
  <2>1. CASE k = "Deployed"
    <3>1. QueryOf(k, watched) = HtlcDeployedQuery(watched.params)
      BY <2>1 DEF QueryOf
    <3>2. ~Matches(HtlcDeployedQuery(watched.params), Log(of.htlc, <<MsgTopic(RefundLogMsg)>>))
      BY KindsApart
    <3>3. ~Matches(HtlcDeployedQuery(watched.params), TransferLog(of.token, of.htlc, who))
      BY KindsApart DEF TransferLog
    <3>4. QED
      BY <1>0, <1>4, <2>0, <2>1, <3>1, <3>2, <3>3, EthQueriesAssumption
  <2>2. CASE k = "Funded"
    <3>1. QueryOf(k, watched) = Erc20FundedQuery(watched.token, watched.htlc)
      BY <2>2 DEF QueryOf
    <3>2. ~Matches(Erc20FundedQuery(watched.token, watched.htlc), Log(of.htlc, <<MsgTopic(RefundLogMsg)>>))
      BY <1>0, EthQueriesAssumption
      DEF Matches, Erc20FundedQuery, EventQuery, TransferLog, Log, MsgTopic, AddrTopic
    <3>3. Matches(Erc20FundedQuery(watched.token, watched.htlc), TransferLog(of.token, of.htlc, who))
            <=> of.token = watched.token /\ who = watched.htlc
      BY <1>0, EthQueriesAssumption
      DEF Matches, Erc20FundedQuery, EventQuery, TransferLog, Log, MsgTopic, AddrTopic
    <3>4. QED
      BY <1>0, <1>4, <2>0, <2>2, <3>1, <3>2, <3>3, EthQueriesAssumption
  <2>3. CASE k = "Redeemed"
    <3>1. QueryOf(k, watched) = HtlcRedeemedQuery(watched.htlc)
      BY <2>3 DEF QueryOf
    <3>2. Matches(HtlcRedeemedQuery(watched.htlc), Log(of.htlc, <<MsgTopic(RefundLogMsg)>>))
            <=> of.htlc = watched.htlc /\ RefundLogMsg = RedeemLogMsg
      BY <1>0, MessageMatch
    <3>3. ~Matches(HtlcRedeemedQuery(watched.htlc), TransferLog(of.token, of.htlc, who))
      BY <1>0, MessageMatch
    <3>4. QED
      BY <1>0, <1>4, <2>0, <2>3, <3>1, <3>2, <3>3, EthQueriesAssumption
  <2>4. CASE k = "Refunded"
    <3>1. QueryOf(k, watched) = HtlcRefundedQuery(watched.htlc)
      BY <2>4 DEF QueryOf
    <3>2. Matches(HtlcRefundedQuery(watched.htlc), Log(of.htlc, <<MsgTopic(RefundLogMsg)>>))
            <=> of.htlc = watched.htlc /\ RefundLogMsg = RefundLogMsg
      BY <1>0, MessageMatch
    <3>3. ~Matches(HtlcRefundedQuery(watched.htlc), TransferLog(of.token, of.htlc, who))
      BY <1>0, MessageMatch
    <3>4. QED
      BY <1>0, <1>4, <2>0, <2>4, <3>1, <3>2, <3>3, EthQueriesAssumption
  <2>5. QED
    BY <2>1, <2>2, <2>3, <2>4 DEF Step
<1>5. QED
  BY <1>1, <1>2, <1>3, <1>4 DEF Step

(* The queries of every watched swap see exactly the steps of its own    *)
(* HTLC, each the one it is for (queries.rs:61-108), whatever the swaps  *)
(* on the ledger, as long as their addresses are kept apart (Apart).     *)
THEOREM QueriesSeeOnlyOwnSwap ==
    ASSUME NEW Swaps, NEW who, Apart(Swaps, who)
    PROVE  \A step \in Step, of, watched \in Swaps :
               SeesOwnSwap(step, of, watched, who)
  BY StepAgainstQuery DEF SeesOwnSwap
=============================================================================

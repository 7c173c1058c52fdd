----------------------------- MODULE EthQueries -----------------------------
(***************************************************************************)
(* The btsieve queries that watch an ethereum HTLC of an rfc003 swap       *)
(* (application/comit_node/src/swap_protocols/rfc003/ethereum/queries.rs). *)
(* A query is a Transaction pattern (matched against transactions) or a   *)
(* list of EventMatchers (matched against logs); None is a wildcard.       *)
(*                                                                         *)
(* How btsieve matches a query, and the logs the contracts emit, are not   *)
(* under src/; they are modelled from the spec (sections 4.2 and 6): an    *)
(* ERC-20 transfer logs Transfer(from, to) at the token contract, an HTLC  *)
(* logs its redeem and refund messages at its own address and moves the    *)
(* tokens out of itself, and a deployment is a contract creation whose     *)
(* data is the HTLC bytecode of the swap's parameters.                     *)
(*                                                                         *)
(* Addresses are model values.  Topic(address.into()) left-pads the 20     *)
(* address bytes to 32, which no log message hash equals: a topic is an    *)
(* address topic or a message topic.  Log data is not modelled: every      *)
(* matcher of queries.rs leaves it None.                                   *)
(***************************************************************************)
EXTENDS Naturals, Sequences

CONSTANTS
    EthAddress,       \* all ethereum addresses
    None,             \* Option::None
    RedeemLogMsg,     \* REDEEM_LOG_MSG
    RefundLogMsg,     \* REFUND_LOG_MSG
    TransferLogMsg    \* TRANSFER_LOG_MSG

AddrTopic(a) == <<"address", a>>
MsgTopic(m) == <<"message", m>>

(* None is no address and no topic, and the three log messages are the   *)
(* hashes of three different event signatures.                           *)
ASSUME EthQueriesAssumption ==
    /\ None \notin EthAddress
    /\ \A a \in EthAddress : None # AddrTopic(a)
    /\ \A m \in {RedeemLogMsg, RefundLogMsg, TransferLogMsg} : None # MsgTopic(m)
    /\ RedeemLogMsg # RefundLogMsg
    /\ RedeemLogMsg # TransferLogMsg
    /\ RefundLogMsg # TransferLogMsg

(* HtlcParams::bytecode(): the contract code of the swap's parameters. *)
Bytecode(params) == <<"htlc", params>>

TransactionQuery(creation, data) ==
    [type |-> "tx", from |-> None, to |-> None,
     is_contract_creation |-> creation, transaction_data |-> data]

EventQuery(address, topics) ==
    [type |-> "event", address |-> address, topics |-> topics]

(* NewHtlcFundedQuery<Ethereum, EtherQuantity> and erc20                 *)
(* new_htlc_deployed_query: the creation of the swap's HTLC contract.    *)
HtlcDeployedQuery(params) == TransactionQuery(TRUE, Bytecode(params))

(* NewHtlcRefundedQuery / erc20::new_htlc_refunded_query *)
HtlcRefundedQuery(htlc) == EventQuery(htlc, <<MsgTopic(RefundLogMsg)>>)

(* NewHtlcRedeemedQuery / erc20::new_htlc_redeemed_query *)
HtlcRedeemedQuery(htlc) == EventQuery(htlc, <<MsgTopic(RedeemLogMsg)>>)

(* A slip: the HTLC put in the `from` topic of the Transfer. *)
Erc20FundedQueryFromTopic(token, htlc) ==
    EventQuery(token, <<MsgTopic(TransferLogMsg), AddrTopic(htlc), None>>)

(* erc20::new_htlc_funded_query: a Transfer, from anyone, to the HTLC at *)
(* the token contract.                                                   *)
Erc20FundedQuery(token, htlc) ==
    EventQuery(token, <<MsgTopic(TransferLogMsg), None, AddrTopic(htlc)>>)

-----------------------------------------------------------------------------
(* btsieve: a transaction matches when every Some field is equal; a log  *)
(* matches when the address is equal and each Some topic is present and  *)
(* equal at its position.                                                *)
Matches(q, ev) ==
    /\ q.type = ev.type
    /\ q.type = "tx" =>
          /\ q.from \in {None, ev.from}
          /\ q.to \in {None, ev.to}
          /\ q.is_contract_creation = ev.is_contract_creation
          /\ q.transaction_data = ev.data
    /\ q.type = "event" =>
          /\ q.address \in {None, ev.address}
          /\ Len(q.topics) <= Len(ev.topics)
          /\ \A i \in 1..Len(q.topics) : q.topics[i] \in {None, ev.topics[i]}

(* What the ledger shows of each step of an herc20 HTLC at `htlc`, for    *)
(* the swap with these params and token, done by `who`.                   *)
Log(address, topics) == [type |-> "event", address |-> address, topics |-> topics]

TransferLog(token, from, to) ==
    Log(token, <<MsgTopic(TransferLogMsg), AddrTopic(from), AddrTopic(to)>>)

Emitted(step, params, token, htlc, who) ==
    CASE step = "Deployed" ->
           {[type |-> "tx", from |-> who, to |-> None,
             is_contract_creation |-> TRUE, data |-> Bytecode(params)]}
      [] step = "Funded" -> {TransferLog(token, who, htlc)}
      [] step = "Redeemed" ->
           {Log(htlc, <<MsgTopic(RedeemLogMsg)>>), TransferLog(token, htlc, who)}
      [] step = "Refunded" ->
           {Log(htlc, <<MsgTopic(RefundLogMsg)>>), TransferLog(token, htlc, who)}

-----------------------------------------------------------------------------
Step == {"Deployed", "Funded", "Redeemed", "Refunded"}

(* The four erc20 queries of a watched swap: the step each one waits for. *)
QueryOf(step, s) ==
    CASE step = "Deployed" -> HtlcDeployedQuery(s.params)
      [] step = "Funded"   -> Erc20FundedQuery(s.token, s.htlc)
      [] step = "Redeemed" -> HtlcRedeemedQuery(s.htlc)
      [] step = "Refunded" -> HtlcRefundedQuery(s.htlc)

(* The queries of `watched` see exactly the steps of their own HTLC, each *)
(* the one it is for: what `step` of the swap `of`, done by `who`, puts on *)
(* the ledger matches the query of kind k of `watched` only when k is that *)
(* step and `watched` is `of`.  The funded query is not fooled by the     *)
(* tokens a redeem or refund moves out of the HTLC, nor by a transfer to  *)
(* another swap's HTLC (queries.rs:61-108).                               *)
SeesOwnSwap(step, of, watched, who) ==
    \A k \in Step :
        (\E ev \in Emitted(step, of.params, of.token, of.htlc, who) :
             Matches(QueryOf(k, watched), ev))
        <=> (k = step /\ watched = of)

=============================================================================

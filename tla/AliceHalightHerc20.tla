------------------------- MODULE AliceHalightHerc20 -------------------------
(***************************************************************************)
(* Alice's action view of a halight/herc20 swap in cnd                     *)
(* (src/cnd/src/http_api/halight_herc20/alice.rs): from the swap's two     *)
(* ledger states the HTTP API offers Alice at most a fund action (pay      *)
(* Bob's hold invoice over lnd) and a redeem action (call the herc20 HTLC  *)
(* with the secret); init, deploy and refund are never offered.  Alice's   *)
(* client takes whichever action is offered.                               *)
(*                                                                         *)
(* Bob's node and the two ledgers are not under src/; they are modelled    *)
(* from the spec (sections 4.2 and 4.4): Bob opens the hold invoice,       *)
(* deploys and funds the herc20 HTLC (correctly or not), settles the       *)
(* invoice once he learns the secret, and refunds herc20 after its expiry. *)
(* Alice's redeem transaction reveals the secret as soon as it is          *)
(* broadcast, and is mined within Delta time units, after which a         *)
(* redeem of an expired or spent HTLC fails.                               *)
(***************************************************************************)
EXTENDS Integers

CONSTANTS
    AlphaExpiry,   \* the invoice's CLTV expiry, as a time
    BetaExpiry,    \* the herc20 HTLC's expiry
    Delta,         \* the most time a broadcast transaction takes to be mined
    MaxTime        \* the last time explored

VARIABLES
    now,        \* the time
    alpha,      \* halight::State of the invoice
    beta,       \* herc20::State of the HTLC
    redeemTx,   \* the time Alice's pending redeem was broadcast, or -1
    revealed    \* Bob has seen the secret

vars == <<now, alpha, beta, redeemTx, revealed>>

AlphaState == {"None", "Opened", "Accepted", "Settled", "Cancelled"}
BetaState == {"None", "Deployed", "Funded", "IncorrectlyFunded",
              "Redeemed", "Refunded"}

TypeOK ==
    /\ now \in 0..MaxTime
    /\ alpha \in AlphaState
    /\ beta \in BetaState
    /\ redeemTx \in -1..MaxTime
    /\ revealed \in BOOLEAN

Init ==
    /\ now = 0
    /\ alpha = "None"
    /\ beta = "None"
    /\ redeemTx = -1
    /\ revealed = FALSE

(* fund_action: offered for Finalized with halight Opened and herc20    *)
(* None; Alice's lnd pays the invoice, which Bob's node accepts.        *)
AliceFund ==
    /\ alpha = "Opened" /\ beta = "None"
    /\ alpha' = "Accepted"
    /\ UNCHANGED <<now, beta, redeemTx, revealed>>

(* redeem_action: offered whenever herc20 is Funded; no expiry check,   *)
(* min_block_timestamp None.                                            *)
RedeemOffered(b) == b = "Funded"

(* Alice's client takes the redeem action; the call data carries the    *)
(* secret, which Bob sees once the transaction is broadcast.            *)
AliceRedeem ==
    /\ RedeemOffered(beta)
    /\ redeemTx = -1
    /\ redeemTx' = now
    /\ revealed' = TRUE
    /\ UNCHANGED <<now, alpha, beta>>

(* The redeem transaction is mined: it succeeds on a funded, unexpired  *)
(* HTLC and fails otherwise.                                            *)
RedeemMined ==
    /\ redeemTx # -1
    /\ beta' = IF beta = "Funded" /\ now < BetaExpiry THEN "Redeemed" ELSE beta
    /\ redeemTx' = -1
    /\ UNCHANGED <<now, alpha, revealed>>

(* Bob adds the hold invoice. *)
BobOpens ==
    /\ alpha = "None"
    /\ alpha' = "Opened"
    /\ UNCHANGED <<now, beta, redeemTx, revealed>>

(* Bob deploys the herc20 HTLC. *)
BobDeploys ==
    /\ beta = "None"
    /\ beta' = "Deployed"
    /\ UNCHANGED <<now, alpha, redeemTx, revealed>>

(* Bob funds it, with the agreed quantity or less. *)
BobFunds ==
    /\ beta = "Deployed"
    /\ beta' \in {"Funded", "IncorrectlyFunded"}
    /\ UNCHANGED <<now, alpha, redeemTx, revealed>>

(* Bob settles the accepted invoice with the secret before it expires. *)
BobSettles ==
    /\ alpha = "Accepted" /\ revealed /\ now < AlphaExpiry
    /\ alpha' = "Settled"
    /\ UNCHANGED <<now, beta, redeemTx, revealed>>

(* The accepted payment is cancelled back to Alice at its CLTV expiry. *)
InvoiceExpires ==
    /\ alpha = "Accepted" /\ now >= AlphaExpiry
    /\ alpha' = "Cancelled"
    /\ UNCHANGED <<now, beta, redeemTx, revealed>>

(* Bob refunds the herc20 HTLC after its expiry. *)
BobRefunds ==
    /\ beta \in {"Funded", "IncorrectlyFunded"} /\ now >= BetaExpiry
    /\ beta' = "Refunded"
    /\ UNCHANGED <<now, alpha, redeemTx, revealed>>

(* Time passes, but not past the mining deadline of a pending redeem. *)
Tick ==
    /\ now < MaxTime
    /\ redeemTx # -1 => now + 1 - redeemTx <= Delta
    /\ now' = now + 1
    /\ UNCHANGED <<alpha, beta, redeemTx, revealed>>

Next ==
    \/ AliceFund \/ AliceRedeem \/ RedeemMined
    \/ BobOpens \/ BobDeploys \/ BobFunds \/ BobSettles
    \/ InvoiceExpires \/ BobRefunds \/ Tick

Spec == Init /\ [][Next]_vars

-----------------------------------------------------------------------------
(* Alice is never robbed: Bob never both settles Alice's payment and     *)
(* refunds his herc20 (spec 4.4.1, Alice's safety rule).                 *)
AliceNotRobbed == ~(alpha = "Settled" /\ beta = "Refunded")

=============================================================================

----------------------------- MODULE AtomicSwap -----------------------------
(***************************************************************************)
(* What an hbit/herc20 swap promises, as seen on the two ledgers: the      *)
(* rules of the two HTLC contracts, and the order in which the swap lets   *)
(* things happen to them.                                                  *)
(*  - An HTLC is spent once: redeemed or refunded, only while funded.      *)
(*  - A refund needs the HTLC's expiry to be reached.                      *)
(*  - An herc20 HTLC is funded only once deployed.                         *)
(*  - Nothing happens to Bob's herc20 HTLC before Alice's bitcoin is       *)
(*    locked in the hbit HTLC.                                             *)
(*  - The hbit HTLC is redeemed only after the herc20 HTLC was redeemed:   *)
(*    Bob needs the secret that Alice's redeem reveals (no unilateral      *)
(*    redemption, spec section 8, invariant 1).                            *)
(* HbitHerc20 implements this specification with `now` and `ledger`       *)
(* mapped to themselves.                                                   *)
(***************************************************************************)
EXTENDS Naturals

CONSTANTS AlphaExpiry, BetaExpiry, MaxTime

VARIABLES now, ledger

Htlc == {"hbit", "herc20"}
Event == {"Deployed", "Funded", "Redeemed", "Refunded"}

Expiry == [h \in Htlc |-> IF h = "hbit" THEN AlphaExpiry ELSE BetaExpiry]

Unspent(h) == "Funded" \in ledger[h] /\ ledger[h] \cap {"Redeemed", "Refunded"} = {}

(* The contract rules of the HTLCs. *)
ContractAllows(h, e) ==
    /\ e = "Funded" => (h = "hbit" \/ "Deployed" \in ledger[h])
    /\ e \in {"Redeemed", "Refunded"} => Unspent(h)
    /\ e = "Refunded" => now >= Expiry[h]

(* The order the swap imposes across the two HTLCs. *)
SwapAllows(h, e) ==
    /\ h = "herc20" => "Funded" \in ledger["hbit"]
    /\ (h = "hbit" /\ e = "Redeemed") => "Redeemed" \in ledger["herc20"]

Init ==
    /\ now = 0
    /\ ledger = [h \in Htlc |-> {}]

Happen(h, e) ==
    /\ ContractAllows(h, e)
    /\ SwapAllows(h, e)
    /\ ledger' = [ledger EXCEPT ![h] = @ \cup {e}]
    /\ UNCHANGED now

Tick ==
    /\ now < MaxTime
    /\ now' = now + 1
    /\ UNCHANGED ledger

Next == (\E h \in Htlc, e \in Event : Happen(h, e)) \/ Tick

Spec == Init /\ [][Next]_<<now, ledger>>

=============================================================================

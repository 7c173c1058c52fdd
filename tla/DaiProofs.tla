----------------------------- MODULE DaiProofs -----------------------------
(***************************************************************************)
(* The Dai chain helpers of dai.rs are correct for every chain id and     *)
(* every contract address, not only for the bounded inputs MCHelpers     *)
(* enumerates.                                                            *)
(***************************************************************************)
EXTENDS Dai, TLAPS

(* Chain::new gives back the chain id and the contract it was made from, *)
(* for every id and every address.                                      *)
THEOREM ChainNewRoundTrip ==
    \A id \in Nat, addr \in Address : NewRoundTrip(id, addr)
<1> SUFFICES ASSUME NEW id \in Nat, NEW addr \in Address
             PROVE  NewRoundTrip(id, addr)
  OBVIOUS
<1>1. CASE id = 1  /\ addr = MainnetDai
  BY <1>1 DEF NewRoundTrip, ChainNew, ChainIdOf, DaiContractAddress, Public
<1>2. CASE id = 3  /\ addr = RopstenDai
  BY <1>2 DEF NewRoundTrip, ChainNew, ChainIdOf, DaiContractAddress, Public
<1>3. CASE id = 4  /\ addr = RinkebyDai
  BY <1>3 DEF NewRoundTrip, ChainNew, ChainIdOf, DaiContractAddress, Public
<1>4. CASE id = 42 /\ addr = KovanDai
  BY <1>4 DEF NewRoundTrip, ChainNew, ChainIdOf, DaiContractAddress, Public
<1>5. CASE ~(id = 1  /\ addr = MainnetDai) /\ ~(id = 3  /\ addr = RopstenDai)
           /\ ~(id = 4  /\ addr = RinkebyDai) /\ ~(id = 42 /\ addr = KovanDai)
  BY <1>5 DEF NewRoundTrip, ChainNew, ChainIdOf, DaiContractAddress, Local
<1>6. QED
  BY <1>1, <1>2, <1>3, <1>4, <1>5

(* Every chain that from_public_chain_id returns is the one Chain::new   *)
(* makes of the same id and of that chain's Dai contract.                *)
THEOREM PublicChainRoundTrip == \A id \in Nat : PublicRoundTrip(id)
<1> SUFFICES ASSUME NEW id \in Nat PROVE PublicRoundTrip(id)
  OBVIOUS
<1>1. CASE id \in {1, 3, 4, 42}
  BY <1>1 DEF PublicRoundTrip, FromPublicChainId, ChainNew, DaiContractAddress,
              Public
<1>2. CASE id \notin {1, 3, 4, 42}
  BY <1>2 DEF PublicRoundTrip, FromPublicChainId
<1>3. QED
  BY <1>1, <1>2
=============================================================================

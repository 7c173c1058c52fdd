------------------------ MODULE MCChainHelpersProofs ------------------------
(***************************************************************************)
(* The chain and query properties of MCChainHelpers, which MCHelpers      *)
(* checks over its bounded inputs, proved for every input of ChainSpec    *)
(* from the theorems that state them for every argument:                  *)
(* ChainNewRoundTrip and PublicChainRoundTrip (DaiProofs) and             *)
(* QueriesSeeOnlyOwnSwap (EthQueriesProofs).  Each property is about the  *)
(* input, which no step changes, so it holds in every state once it holds *)
(* initially.                                                             *)
(***************************************************************************)
EXTENDS MCChainHelpers, DaiProofs, EthQueriesProofs, TLAPS

(* The three swaps of the instance are kept apart, for either party. *)
LEMMA MCSwapsApart == \A who \in {u1, u2} : Apart(MCSwaps, who)
<1> SUFFICES ASSUME NEW who \in {u1, u2} PROVE Apart(MCSwaps, who)
  OBVIOUS
<1> DEFINE s1 == [params |-> p1, token |-> t1, htlc |-> h1]
           s2 == [params |-> p2, token |-> t1, htlc |-> h2]
           s3 == [params |-> p3, token |-> t2, htlc |-> h3]
<1>0. \A a \in {t1, t2, u1, u2} : a \notin {h1, h2, h3}
  BY MCChainAssumption
<1>1. MCSwaps = {s1, s2, s3}
  BY DEF MCSwaps
<1>2. who \in EthAddress /\ \A s \in MCSwaps : s.htlc \in EthAddress /\ s.token \in EthAddress
  BY <1>1, MCChainAssumption DEF MCEthAddress
<1>3. \A s, t \in MCSwaps : s.htlc = t.htlc => s = t
  BY <1>1, MCChainAssumption
<1>4. \A s, t \in MCSwaps : s.params = t.params => s = t
  BY <1>1, MCChainAssumption
<1>5. \A s, t \in MCSwaps : s.token # t.htlc
  BY <1>0, <1>1
<1>6. \A s \in MCSwaps : who # s.htlc
  BY <1>0, <1>1
<1>7. QED
  BY <1>2, <1>3, <1>4, <1>5, <1>6 DEF Apart

(* Which set an input comes from is told by its kind. *)
LEMMA InputKinds ==
    ASSUME ChainInit
    PROVE  /\ input.kind = "new" => input \in [kind : {"new"}, id : ChainIds, addr : MCAddress]
           /\ input.kind = "public" => input \in [kind : {"public"}, id : ChainIds]
           /\ input.kind = "query" => input \in QueryInputs
  BY DEF ChainInit, ChainInputs, DaiInputs, QueryInputs

(* Chain::new and from_public_chain_id round-trip on every input of the *)
(* instance (dai.rs:65-111).                                            *)
THEOREM ChainRoundTripHolds == ChainSpec => []ChainRoundTrip
<1>1. ChainInit => ChainRoundTrip
  <2> SUFFICES ASSUME ChainInit PROVE ChainRoundTrip
    OBVIOUS
  <2>1. input.kind = "new" => input.id \in Nat /\ input.addr \in Address
    BY InputKinds, MCChainAssumption DEF ChainIds
  <2>2. input.kind = "public" => input.id \in Nat
    BY InputKinds DEF ChainIds
  <2>3. QED
    BY <2>1, <2>2, ChainNewRoundTrip, PublicChainRoundTrip DEF ChainRoundTrip
<1>2. ChainRoundTrip /\ [UNCHANGED input]_input => ChainRoundTrip'
  BY DEF ChainRoundTrip
<1>3. QED
  BY <1>1, <1>2, PTL DEF ChainSpec

(* The queries of each swap of the instance see exactly that swap's steps *)
(* (queries.rs:61-108).                                                  *)
THEOREM QueriesSeeOwnSwapHolds == ChainSpec => []QueriesSeeOwnSwap
<1>1. ChainInit => QueriesSeeOwnSwap
  <2> SUFFICES ASSUME ChainInit, input.kind = "query"
               PROVE  SeesOwnSwap(input.step, input.of, input.watched, input.who)
    BY DEF QueriesSeeOwnSwap
  <2>1. /\ input.step \in Step /\ input.of \in MCSwaps /\ input.watched \in MCSwaps
        /\ input.who \in {u1, u2}
    BY InputKinds DEF QueryInputs
  <2>2. Apart(MCSwaps, input.who)
    BY <2>1, MCSwapsApart
  <2>3. QED
    BY <2>1, <2>2, QueriesSeeOnlyOwnSwap
<1>2. QueriesSeeOwnSwap /\ [UNCHANGED input]_input => QueriesSeeOwnSwap'
  BY DEF QueriesSeeOwnSwap
<1>3. QED
  BY <1>1, <1>2, PTL DEF ChainSpec

=============================================================================

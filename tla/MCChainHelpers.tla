--------------------------- MODULE MCChainHelpers ---------------------------
(***************************************************************************)
(* The chain helpers of the code over bounded inputs, checked by          *)
(* MCHelpers together with the rate helpers; a state is one input:        *)
(*  - a (chain id, contract) pair given to Chain::new, a chain id given    *)
(*    to from_public_chain_id, or an attodai amount given to               *)
(*    as_dai_rounded (dai.rs);                                             *)
(*  - a step of one swap's ethereum HTLC, shown to the queries of a swap   *)
(*    (queries.rs).                                                        *)
(* ATTOS_IN_DAI_EXP is scaled from 18 to 5 for TLC's 32-bit integers;     *)
(* as_dai_rounded depends on it only through the number of digits it cuts *)
(* off.  The inputs and properties are kept apart from Rate's recursive   *)
(* Reduce, so that MCChainHelpersProofs can prove the chain and query    *)
(* properties for every input of ChainSpec.                              *)
(***************************************************************************)
EXTENDS Dai, EthQueries

CONSTANTS OtherAddr,
          p1, p2, p3, t1, t2, h1, h2, h3, u1, u2

MCAttoExp == 5
MCAddress == {MainnetDai, KovanDai, RinkebyDai, RopstenDai, OtherAddr}
MCEthAddress == {t1, t2, h1, h2, h3, u1, u2}

(* The instance's sets are sets of the kinds they stand for, and its      *)
(* swaps are kept apart: three HTLCs, three parameter sets, and tokens    *)
(* and parties that are no HTLC.                                          *)
ASSUME MCChainAssumption ==
    /\ MCAddress \subseteq Address
    /\ MCEthAddress \subseteq EthAddress
    /\ {t1, t2, u1, u2} \cap {h1, h2, h3} = {}
    /\ h1 # h2 /\ h1 # h3 /\ h2 # h3
    /\ p1 # p2 /\ p1 # p3 /\ p2 # p3

(* The four public chain ids, a neighbour of each, and a local devnet id. *)
ChainIds == {0, 1, 2, 3, 4, 5, 41, 42, 43, 1337}

DaiInputs ==
    [kind : {"new"}, id : ChainIds, addr : MCAddress]
      \cup [kind : {"public"}, id : ChainIds]
      \cup [kind : {"amount"}, atto : 0..3 * 10^MCAttoExp]

(* Three swaps: two on the same token, one on another. *)
MCSwaps ==
    {[params |-> p1, token |-> t1, htlc |-> h1],
     [params |-> p2, token |-> t1, htlc |-> h2],
     [params |-> p3, token |-> t2, htlc |-> h3]}

QueryInputs ==
    [kind : {"query"}, step : Step,
     watched : MCSwaps, of : MCSwaps, who : {u1, u2}]

VARIABLE input

ChainInputs == DaiInputs \cup QueryInputs

(* The chain inputs on their own: an input is chosen and never changes. *)
ChainInit == input \in ChainInputs

ChainSpec == ChainInit /\ [][UNCHANGED input]_input
-----------------------------------------------------------------------------
(* Chain::new loses nothing and from_public_chain_id agrees with it     *)
(* (NewRoundTrip and PublicRoundTrip of Dai, dai.rs:65-111).             *)
ChainRoundTrip ==
    /\ input.kind = "new" => NewRoundTrip(input.id, input.addr)
    /\ input.kind = "public" => PublicRoundTrip(input.id)

(* as_dai_rounded shows at most the amount, and less than a hundredth of *)
(* a Dai less, through each of its three text branches (Truncates of     *)
(* Dai, dai.rs:149-176).                                                 *)
AsDaiTruncates ==
    input.kind = "amount" => Truncates(input.atto)

(* as_dai_rounded shows the amount rounded to the nearest hundredth of a *)
(* Dai, as its doc comment and the test of 1.235 DAI say (RoundsToNearest *)
(* of Dai, dai.rs:148-176, 348-353).                                      *)
AsDaiRoundsToNearest ==
    input.kind = "amount" => RoundsToNearest(input.atto)

(* The queries of a swap see exactly the steps of its own HTLC, each the  *)
(* one it is for, among the steps of several swaps (SeesOwnSwap of        *)
(* EthQueries, queries.rs:61-108).                                        *)
QueriesSeeOwnSwap ==
    input.kind = "query" =>
        SeesOwnSwap(input.step, input.of, input.watched, input.who)

=============================================================================

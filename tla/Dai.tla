-------------------------------- MODULE Dai ---------------------------------
(***************************************************************************)
(* The Dai chain and amount helpers of src/src/ethereum/dai.rs: the        *)
(* mapping between (chain id, Dai contract address) and Chain, and the     *)
(* display of an attodai Amount as a Dai value with two decimals.          *)
(*                                                                         *)
(* Addresses are model values: the four public Dai contracts and others.  *)
(* An Amount is its BigUint of attodai; AttoExp is ATTOS_IN_DAI_EXP.       *)
(***************************************************************************)
EXTENDS Naturals, Sequences

CONSTANTS
    MainnetDai, KovanDai, RinkebyDai, RopstenDai,   \* DAI_CONTRACT_ADDRESS_*
    Address,                                        \* all addresses
    AttoExp                                         \* ATTOS_IN_DAI_EXP

ASSUME DaiAssumption ==
    /\ {MainnetDai, KovanDai, RinkebyDai, RopstenDai} \subseteq Address
    /\ AttoExp \in Nat /\ AttoExp >= 2

PublicChain == {"Mainnet", "Kovan", "Rinkeby", "Ropsten"}

(* Chain: a public chain, or Local { chain_id, dai_contract_address }. *)
Public(name) == [kind |-> name, id |-> 0, addr |-> MainnetDai]
Local(id, addr) == [kind |-> "Local", id |-> id, addr |-> addr]

(* A slip: the Ropsten and Rinkeby contract addresses swapped in new. *)
ChainNewSwapped(id, addr) ==
    CASE id = 1  /\ addr = MainnetDai -> Public("Mainnet")
      [] id = 3  /\ addr = RinkebyDai -> Public("Ropsten")
      [] id = 4  /\ addr = RopstenDai -> Public("Rinkeby")
      [] id = 42 /\ addr = KovanDai   -> Public("Kovan")
      [] OTHER                        -> Local(id, addr)

(* Chain::new: a known (chain id, contract) pair is that public chain. *)
ChainNew(id, addr) ==
    CASE id = 1  /\ addr = MainnetDai -> Public("Mainnet")
      [] id = 3  /\ addr = RopstenDai -> Public("Ropsten")
      [] id = 4  /\ addr = RinkebyDai -> Public("Rinkeby")
      [] id = 42 /\ addr = KovanDai   -> Public("Kovan")
      [] OTHER                        -> Local(id, addr)

(* Chain::from_public_chain_id: Ok(chain), or an error for another id. *)
FromPublicChainId(id) ==
    CASE id = 1  -> [ok |-> TRUE, chain |-> Public("Mainnet")]
      [] id = 3  -> [ok |-> TRUE, chain |-> Public("Ropsten")]
      [] id = 4  -> [ok |-> TRUE, chain |-> Public("Rinkeby")]
      [] id = 42 -> [ok |-> TRUE, chain |-> Public("Kovan")]
      [] OTHER   -> [ok |-> FALSE, chain |-> Local(id, MainnetDai)]

(* Chain::dai_contract_address *)
DaiContractAddress(c) ==
    CASE c.kind = "Mainnet" -> MainnetDai
      [] c.kind = "Kovan"   -> KovanDai
      [] c.kind = "Rinkeby" -> RinkebyDai
      [] c.kind = "Ropsten" -> RopstenDai
      [] c.kind = "Local"   -> c.addr

(* Chain::chain_id: ChainId::mainnet() is 1, ChainId::ropsten() is 3. *)
ChainIdOf(c) ==
    CASE c.kind = "Mainnet" -> 1
      [] c.kind = "Kovan"   -> 42
      [] c.kind = "Rinkeby" -> 4
      [] c.kind = "Ropsten" -> 3
      [] c.kind = "Local"   -> c.id

(***************************************************************************)
(* Amount::as_dai_rounded works on text: the decimal digits of the        *)
(* attodai, cut and given a decimal point, parsed back by f64::from_str.   *)
(* A text is a sequence of one-character strings; a parsed f64 is the      *)
(* decimal number mantissa * 10^-places (exact for the texts built here). *)
(***************************************************************************)
Digit == <<"0", "1", "2", "3", "4", "5", "6", "7", "8", "9">>

DigitValue(c) == CHOOSE d \in 0..9 : Digit[d + 1] = c

(* The number of digits of BigUint::to_string. *)
DecimalLen[n \in Nat] == IF n < 10 THEN 1 ELSE 1 + DecimalLen[n \div 10]

(* BigUint::to_string: the digits of n, most significant first. *)
DecimalString(n) ==
    [i \in 1..DecimalLen[n] |-> Digit[((n \div 10^(DecimalLen[n] - i)) % 10) + 1]]

(* f64::from_str on a text of digits and one point. *)
FromStr(text) ==
    LET point == CHOOSE i \in DOMAIN text : text[i] = "."
        IsDigit(c) == c # "."
        digits == SelectSeq(text, IsDigit)
        value[k \in 0..Len(digits)] ==
            IF k = 0 THEN 0 ELSE 10 * value[k - 1] + DigitValue(digits[k])
    IN  [mantissa |-> value[Len(digits)], places |-> Len(text) - point]

(* A slip: the one-digit text given the prefix of the two-digit one. *)
DaiTextShortPrefix(kept) ==
    CASE Len(kept) = 1 -> <<"0", ".">> \o kept
      [] Len(kept) = 2 -> <<"0", ".">> \o kept
      [] OTHER -> SubSeq(kept, 1, Len(kept) - 2) \o <<".">>
                    \o SubSeq(kept, Len(kept) - 1, Len(kept))

(* The match on the length of the cut text: "0.0d", "0.dd", or the point *)
(* inserted before the last two digits.                                   *)
DaiText(kept) ==
    CASE Len(kept) = 1 -> <<"0", ".", "0">> \o kept
      [] Len(kept) = 2 -> <<"0", ".">> \o kept
      [] OTHER -> SubSeq(kept, 1, Len(kept) - 2) \o <<".">>
                    \o SubSeq(kept, Len(kept) - 1, Len(kept))

(* Amount::as_dai_rounded: a text longer than AttoExp - 2 digits loses    *)
(* its last AttoExp - 2 digits and is shown with two decimals; a shorter  *)
(* one is 0.0.                                                            *)
AsDaiRounded(atto) ==
    LET str == DecimalString(atto)
        truncate == AttoExp - 2
    IN  IF Len(str) > truncate
        THEN FromStr(DaiText(SubSeq(str, 1, Len(str) - truncate)))
        ELSE [mantissa |-> 0, places |-> 0]

(* A parsed value of at most two places, in hundredths of a Dai. *)
Hundredths(v) == (v.mantissa * 100) \div 10^v.places

-----------------------------------------------------------------------------
(* Chain::new loses nothing: the chain it returns gives back the chain id *)
(* and the contract address it was made from (dai.rs:65-111).            *)
NewRoundTrip(id, addr) ==
    LET c == ChainNew(id, addr)
    IN  ChainIdOf(c) = id /\ DaiContractAddress(c) = addr

(* from_public_chain_id agrees with Chain::new on the public chain ids: *)
(* the chain it returns is what new makes of its id and its contract     *)
(* (dai.rs:65-111).                                                       *)
PublicRoundTrip(id) ==
    LET r == FromPublicChainId(id)
    IN  r.ok => ChainNew(id, DaiContractAddress(r.chain)) = r.chain

(* as_dai_rounded shows at most the amount, and less than a hundredth of *)
(* a Dai less: its three text branches and the parse agree on where the  *)
(* hundredths are (dai.rs:149-176).                                       *)
Truncates(atto) ==
    LET shown == Hundredths(AsDaiRounded(atto)) * 10^(AttoExp - 2)
    IN  shown <= atto /\ atto < shown + 10^(AttoExp - 2)

(* What the doc comment "Rounds to 2 digits after decimal point" and the  *)
(* test given_amount_has_3_digits_after_decimal_return_rounded_up_amount  *)
(* (1.235 DAI shown as 1.24) say: the nearest hundredth, half rounded up   *)
(* (dai.rs:148, 348-353).                                                 *)
RoundsToNearest(atto) ==
    LET unit == 10^(AttoExp - 2)
    IN  Hundredths(AsDaiRounded(atto)) = (atto + unit \div 2) \div unit

=============================================================================

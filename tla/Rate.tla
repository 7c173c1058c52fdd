-------------------------------- MODULE Rate --------------------------------
(***************************************************************************)
(* The rate and spread arithmetic of src/rate.rs.  A Rate is an integer    *)
(* (u32) and an inverse decimal exponent: its value is                     *)
(* integer * 10^-inv_dec_exp.  A Spread is a percentage times 100 (u16).    *)
(*                                                                         *)
(* An f64 enters through its decimal text (`to_string`): Display prints    *)
(* the shortest decimal that reads back as the same f64, never in exponent *)
(* notation, so an input is a Decimal: the integer part and the fraction   *)
(* digits, the last of them non-zero.  The string handling of the code     *)
(* (find '.', split_off, truncate, format!, parse) is modelled by what it  *)
(* computes on that text.                                                  *)
(***************************************************************************)
EXTENDS Naturals, Sequences

CONSTANT U32Max   \* u32::MAX, the largest integer a Rate can hold

ASSUME RateAssumption == U32Max \in Nat

(* Rate::MAX_PRECISION *)
MaxPrecision == 9

(* The length of integer.to_string(). *)
RECURSIVE NumDigits(_)
NumDigits(n) == IF n < 10 THEN 1 ELSE 1 + NumDigits(n \div 10)

(* u64::from_str of a string of decimal digits. *)
RECURSIVE DigitsValue(_)
DigitsValue(s) ==
    IF s = <<>> THEN 0 ELSE Head(s) * 10^(Len(s) - 1) + DigitsValue(Tail(s))

(* A result: Ok(Rate { integer, inv_dec_exp }) or an error. *)
Ok(integer, exp) == [ok |-> TRUE, integer |-> integer, exp |-> exp]
Err == [ok |-> FALSE, integer |-> 0, exp |-> 0]

(* A slip: an `if` where the recursion should be, stripping one zero. *)
ReduceOnce(integer, exp) ==
    IF NumDigits(integer) > 1 /\ integer % 10 = 0 /\ exp # 0
    THEN <<integer \div 10, exp - 1>>
    ELSE <<integer, exp>>

(* Rate::reduce: strip a trailing zero of the integer's text while the *)
(* exponent allows it.                                                 *)
RECURSIVE Reduce(_, _)
Reduce(integer, exp) ==
    IF NumDigits(integer) > 1 /\ integer % 10 = 0 /\ exp # 0
    THEN Reduce(integer \div 10, exp - 1)
    ELSE <<integer, exp>>

(* Rate::new: reduce, then the u32 conversion. *)
RateNew(integer, exp) ==
    LET r == Reduce(integer, exp)
    IN  IF r[1] > U32Max THEN Err ELSE Ok(r[1], r[2])

(* Rate::from_f64 on the decimal text of a non-negative finite f64. *)
FromF64(d) ==
    LET len == Len(d.frac)
    IN  IF d.frac = <<>> THEN RateNew(d.int, 0)
        ELSE IF len > MaxPrecision THEN Err
        ELSE RateNew(d.int * 10^len + DigitsValue(d.frac), len)

(* Spread::new on the decimal text of a non-negative finite f64; the    *)
(* result's integer is the Spread's u16.                                *)
SpreadNew(d) ==
    LET inRange == NumDigits(d.int) <= 2 \/ d.int = 100
    IN  IF d.frac = <<>>
        THEN IF inRange THEN Ok(d.int * 100, 0) ELSE Err
        ELSE IF Len(d.frac) > 2 THEN Err
        ELSE IF inRange THEN Ok(d.int * 100 + DigitsValue(d.frac), 0)
        ELSE Err

(* A slip: the spread scaled by 10^3 instead of 10^4. *)
SpreadApplyOffByOne(spread, rate) ==
    RateNew(rate.integer * (10000 + spread), rate.exp + 3)

(* Spread::apply: rate * (1 + spread / 10^4), computed in u64. *)
SpreadApply(spread, rate) ==
    RateNew(rate.integer * (10000 + spread), rate.exp + 4)

=============================================================================

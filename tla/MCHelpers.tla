------------------------------ MODULE MCHelpers ------------------------------
(***************************************************************************)
(* Checks the rate helpers of rate.rs over bounded inputs, against         *)
(* reference definitions stated by what a result means rather than by how  *)
(* the code computes it.  A state is one input: a rate and a spread given  *)
(* to Spread::apply, or a decimal given to Spread::new.  TLC's integers   *)
(* are 32-bit: u32 is scaled to U32Max = 65535.  The chain helpers'      *)
(* inputs and properties are those of MCChainHelpers.                    *)
(***************************************************************************)
EXTENDS Rate, MCChainHelpers

MCU32Max == 65535

(* Fraction digit strings over Ds of length at most n, last digit non-zero. *)
Fractions(Ds, n) ==
    {<<>>} \cup UNION {{f \in [1..l -> Ds] : f[l] # 0} : l \in 1..n}

ApplyInputs ==
    [kind : {"apply"},
     r : {r \in [integer : 0..30, exp : 0..2] : r.exp = 0 \/ r.integer % 10 # 0},
     s : {0, 1, 5, 10, 50, 100, 250, 2000, 2050, 10000}]

SpreadInputs ==
    [kind : {"spread"}, d : [int : 0..101, frac : Fractions({0, 5, 9}, 3)]]

Init == input \in ApplyInputs \cup SpreadInputs \cup ChainInputs

Next == UNCHANGED input

Spec == Init /\ [][Next]_input
-----------------------------------------------------------------------------
(* The number a decimal's text denotes, times 10^Len(frac). *)
DecimalNum(d) == d.int * 10^Len(d.frac) + DigitsValue(d.frac)

(* Reference: the representation of num * 10^-exp with the least exponent. *)
Canonical(num, exp) ==
    LET k == CHOOSE k \in 0..exp :
                /\ num % 10^k = 0
                /\ \A j \in 0..exp : num % 10^j = 0 => j <= k
    IN  <<num \div 10^k, exp - k>>

(* r is the exact value num * 10^-exp, in least-exponent form when it   *)
(* fits a u32, and an error exactly when that form does not fit.  Zero  *)
(* is the exception: reduce leaves "0" alone, so it keeps its exponent. *)
Exact(r, num, exp) ==
    LET c == Canonical(num, exp)
    IN  IF num = 0 THEN r = Ok(0, exp)
        ELSE IF c[1] <= U32Max THEN r = Ok(c[1], c[2]) ELSE ~r.ok

(* Spread::apply adds spread/100 percent to the rate without rounding,  *)
(* and its reduce brings the result back to least-exponent form.        *)
ApplyExact ==
    input.kind = "apply" =>
        Exact(SpreadApply(input.s, input.r),
              input.r.integer * (10000 + input.s), input.r.exp + 4)

(* Spread::new takes "the spread in percent" with "a maximum precision  *)
(* of 2 decimals", "between 0 and 100" (doc comment and error message   *)
(* of rate.rs:88-134): it accepts exactly those and returns percent*100. *)
SpreadNewIsPercent ==
    input.kind = "spread" =>
        LET d == input.d
            l == Len(d.frac)
        IN  SpreadNew(d) =
              IF l <= 2 /\ DecimalNum(d) <= 100 * 10^l
              THEN Ok(DecimalNum(d) * 10^(2 - l), 0) ELSE Err

=============================================================================

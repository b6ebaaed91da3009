------------------------------ MODULE Retarget ------------------------------
(***************************************************************************)
(* The arithmetic of CalculatecoinNextWorkRequired_only_aux (pqcoin.cpp):  *)
(* the targets for Litecoin's and for Bitcoin's work are multiplied by a   *)
(* factor, in unsigned integers of a fixed width, limited, and kept in     *)
(* compact form.                                                           *)
(*                                                                         *)
(* The factor is the result of a formula in floating point on the counts   *)
(* and the times of past periods; here it is any value in the range the    *)
(* code limits it to. The width (256), the accuracy (1000), the two rates  *)
(* (1000 and 100) and the size of a byte are constants.                    *)
(***************************************************************************)
EXTENDS Integers, FiniteSetsExt

CONSTANTS
    Width,              \* bits of arith_uint256
    ByteBits,           \* bits of a byte of the compact form
    accuracy,           \* the factor is in units of 1/accuracy
    btc_low_rate, ltc_low_rate

Work == {"btc", "ltc"}
Modulus == 2^Width
bnPowLimit == 2^(Width - 1) - 1
LowRate == [w \in Work |-> IF w = "btc" THEN btc_low_rate ELSE ltc_low_rate]

\* The factor is limited to 0.2 .. 5.
Factor == accuracy \div 5 .. 5 * accuracy

\* SetCompact(GetCompact(x)): what is left when x is shifted down by as many bytes
\* as it takes for three bytes, without the sign bit, to hold it.
Compact(x) ==
    LET unit == Min({u \in {2^(ByteBits * k) : k \in 0 .. Width \div ByteBits} :
                       x \div u < 2^(3 * ByteBits - 1)})
    IN  (x \div unit) * unit

\* operator*= keeps the low Width bits.
Times(x, f) == (x * f) % Modulus

\* The new target: multiplied first, unless the product is above the limit.
Adjusted(x, f) ==
    IF Times(x, f) > bnPowLimit THEN Times(x \div accuracy, f)
                                ELSE Times(x, f) \div accuracy

Limit(w) == bnPowLimit \div LowRate[w]

NextTarget(w, x, f) == Compact(Min({Adjusted(x, f), Limit(w)}))

VARIABLES
    target,             \* btc_nBits.back(), ltc_nBits.back()
    last                \* history: those before

Init ==
    /\ target = [w \in Work |-> Compact(bnPowLimit)]
    /\ last = target

CalculateNextWork(f, g) ==
    /\ target' = [target EXCEPT !["btc"] = NextTarget("btc", @, f), !["ltc"] = NextTarget("ltc", @, g)]
    /\ last' = target

Next == \E f, g \in Factor : CalculateNextWork(f, g)

Spec == Init /\ [][Next]_<<target, last>>

\* "Limit adjustment step", "0.2~btc_temp3*A_T~5": a retarget leaves a target that
\* was in its range no less than a fifth of what it was, but for rounding.
AdjustmentStepLimited ==
    \A w \in Work : last[w] <= Limit(w) => target[w] >= Compact((last[w] \div accuracy) * (accuracy \div 5))
=============================================================================

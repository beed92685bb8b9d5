-------------------------------- MODULE Policy --------------------------------
(***************************************************************************)
(* The arithmetic of durations: parse_duration and format_duration of      *)
(* durations.py.  Durations go through a Python float; a float is a dyadic *)
(* number of Precision significant bits (53 in IEEE double), and every     *)
(* operation returns the nearest one, ties to even.                        *)
(***************************************************************************)
EXTENDS Integers

CONSTANTS
    Digits, Decimals, Units,    \* durations: Digits / 10^Decimals of a unit
    Precision,                  \* of a float
    Guard                       \* bits of it left for the fraction of a second

Multiplier == [s |-> 1, m |-> 60, h |-> 3600, d |-> 86400]

ASSUME PolicyAssumption ==
    /\ Digits \subseteq Nat /\ Decimals \subseteq Nat /\ Units \subseteq DOMAIN Multiplier
    /\ Precision \in Nat \ {0} /\ Guard \in 0..Precision

-----------------------------------------------------------------------------
(* A float is [num, exp], the number num / 2^exp. *)

\* num / den times 2^shift, as a quotient.
Shifted(num, den, shift) ==
    IF shift >= 0 THEN [n |-> num * 2^shift, d |-> den] ELSE [n |-> num, d |-> den * 2^(-shift)]

\* The float nearest to num / (den * 2^exp), for num > 0.
Rounded(num, den, exp) ==
    LET shift == CHOOSE k \in -17..2 * Precision :     \* a day has 17 bits
                    LET q == Shifted(num, den, k)
                    IN  q.n \div q.d \in 2^(Precision - 1)..2^Precision - 1
        q == Shifted(num, den, shift)
        up == \/ 2 * (q.n % q.d) > q.d
              \/ 2 * (q.n % q.d) = q.d /\ (q.n \div q.d) % 2 = 1
    IN  [num |-> q.n \div q.d + (IF up THEN 1 ELSE 0), exp |-> exp + shift]

\* int()
Truncated(f) == IF f.exp >= 0 THEN f.num \div 2^f.exp ELSE f.num * 2^(-f.exp)

\* Mutant: the fraction is dropped before the unit is applied.
MutSeconds(digits, decimals, unit) == (digits \div 10^decimals) * Multiplier[unit]

\* int(number * _MULTIPLIERS[unit])
Seconds(digits, decimals, unit) ==
    IF digits = 0 THEN 0
    ELSE LET number == Rounded(digits, 10^decimals, 0)
         IN  Truncated(Rounded(number.num * Multiplier[unit], 1, number.exp))

Invalid == -1

\* parse_duration; Invalid is the ValueError.
Parse_duration(digits, decimals, unit) ==
    LET seconds == Seconds(digits, decimals, unit) IN
    IF seconds <= 0 THEN Invalid ELSE seconds

Format_duration(seconds) ==
    IF seconds % 86400 = 0 THEN <<seconds \div 86400, "d">>
    ELSE IF seconds % 3600 = 0 THEN <<seconds \div 3600, "h">>
    ELSE IF seconds % 60 = 0 THEN <<seconds \div 60, "m">>
    ELSE <<seconds, "s">>

-----------------------------------------------------------------------------
(* What the arithmetic is for, over every argument. *)

\* Durations within the range in which a float tells parts of a second apart.
Durations ==
    {d \in [digits : Digits, decimals : Decimals, unit : Units] :
        d.digits * Multiplier[d.unit] < 10^d.decimals * 2^(Precision - Guard)}

\* Every duration is read as the whole seconds of what was written, or one second less when
\* that was a whole number of seconds with decimals (Python reads 4.1m as 245 s), is refused
\* when less than a second, and is read back from what format_duration makes of it.
DurationsFaithful ==
    \A d \in Durations :
        LET exact == d.digits * Multiplier[d.unit]
            scale == 10^d.decimals
            value == Parse_duration(d.digits, d.decimals, d.unit)
            text == Format_duration(value)
        IN  IF exact < scale THEN value = Invalid
            ELSE /\ \/ value = exact \div scale
                    \/ value = exact \div scale - 1 /\ exact % scale = 0 /\ d.decimals > 0
                 /\ value # Invalid /\ Parse_duration(text[1], 0, text[2]) = value
=============================================================================

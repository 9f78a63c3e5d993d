---------------------------- MODULE ValueHelpers ----------------------------
(* Normalise and Constrain on integers, as cores use them to convert the   *)
(* values of a parameter from and to the device's range.                   *)
EXTENDS Integers

(* Broken: a narrower range is treated as a wider one.                    *)
NormaliseWidening(v, low, high, newLow, newHigh) ==
    newLow + (v - low) * ((newHigh - newLow) \div (high - low))

Normalise(v, low, high, newLow, newHigh) ==
    LET old == high - low
        new == newHigh - newLow
    IN  IF new > old THEN newLow + (v - low) * (new \div old)
                     ELSE newLow + ((v - low) \div (old \div new))

Constrain(v, low, high) == IF v < low THEN low ELSE IF v > high THEN high ELSE v

(* Ranges of which one holds the other a whole number of times: both ends  *)
(* are met, the order is kept, and no value leaves the new range.  Between *)
(* other ranges values leave it (5 of 0..5 is 5 in 0..3), or stay short.   *)
Whole(a, b) == a > 0 /\ b > 0 /\ (a % b = 0 \/ b % a = 0)
NormalisesWithin(low, high, newLow, newHigh) ==
    LET to(v) == Normalise(v, low, high, newLow, newHigh) IN
    Whole(high - low, newHigh - newLow) =>
        /\ to(low) = newLow /\ to(high) = newHigh
        /\ \A v, w \in low..high : v <= w => to(v) <= to(w)
        /\ \A v \in low..high : Constrain(to(v), newLow, newHigh) = to(v)
=============================================================================

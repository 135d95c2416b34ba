------------------------------ MODULE Asn1Time ------------------------------
(***************************************************************************)
(* ASN.1 times as certificates write and read them (asn1time.rs).          *)
(*                                                                         *)
(* A time stamp is a number of subseconds since the start of year 0.  Both *)
(* units are constants: nothing below depends on how long a second or a    *)
(* year is, and all the years of a model are equally long.                 *)
(***************************************************************************)
EXTENDS Integers

CONSTANTS SubsecondsPerSecond, SecondsPerYear

ASSUME CalendarAssumption ==
  /\ SubsecondsPerSecond \in Nat \ {0}
  /\ SecondsPerYear \in Nat \ {0}

Timestamp(year, second, fraction) ==
  (year * SecondsPerYear + second) * SubsecondsPerSecond + fraction

Fraction(t) == t % SubsecondsPerSecond
Second(t) == (t \div SubsecondsPerSecond) % SecondsPerYear
YearOf(t) == (t \div SubsecondsPerSecond) \div SecondsPerYear

(* The time stamp without its fraction of a second. *)
WholeSecond(t) == t - Fraction(t)

(* Time::from(Timestamp), and the text each form is written as: UTCTime    *)
(* has two digits of the year and no fraction, GeneralizedTime has both    *)
(* and leaves out a fraction of zero.                                      *)
M_EncodeTime_LateUtc(t) ==
  IF YearOf(t) \in 1950..2050
    THEN [tag |-> "UTCTime", year |-> YearOf(t) % 100, second |-> Second(t), fraction |-> 0]
    ELSE [tag |-> "GeneralizedTime", year |-> YearOf(t), second |-> Second(t),
          fraction |-> Fraction(t)]
EncodeTime(t) ==
  IF YearOf(t) \in 1950..2049
    THEN [tag |-> "UTCTime", year |-> YearOf(t) % 100, second |-> Second(t), fraction |-> 0]
    ELSE [tag |-> "GeneralizedTime", year |-> YearOf(t), second |-> Second(t),
          fraction |-> Fraction(t)]

(* Time::take_from reads GeneralizedTime without fraction only. *)
Decodable(text) == text.tag = "UTCTime" \/ text.fraction = 0

(* The time stamp it returns: a two-digit year below 50 is one of this     *)
(* century.                                                                *)
Century(yy) == IF yy >= 50 THEN 1900 + yy ELSE 2000 + yy

DecodeTime(text) ==
  Timestamp(IF text.tag = "UTCTime" THEN Century(text.year) ELSE text.year,
            text.second, text.fraction)
=============================================================================

--------------------------- MODULE MCSwitchboard ---------------------------
(* Three businesses, a the owner of the number.  A customer writes a number *)
(* or something that is about none of them, about one or about two.         *)
EXTENDS Switchboard, TLC

CONSTANTS a, b, c

MCOrder == [x \in Businesses |-> IF x = a THEN 1 ELSE IF x = b THEN 2 ELSE 3]

About(bs) == [number |-> 0, names |-> NoOne, about |-> bs]
MCTexts == {[Blank EXCEPT !.number = 2], About({}), About({c}), About({b, c})}

(* All on the number, with nobody at c; or one more to come, b wrote first. *)
MCStarts ==
  {[active |-> Businesses, listed |-> Businesses, wrote |-> NoOne,
    staff |-> [x \in Businesses |-> IF x = c THEN "none" ELSE "on"]],
   [active |-> {a, b}, listed |-> {a, b}, wrote |-> b,
    staff |-> [x \in Businesses |-> IF x = a THEN "off" ELSE "on"]]}

MCSymmetry == Permutations(Messages)
=============================================================================

------------------------- MODULE MCSessionProperties -------------------------
(* Instances of SessionProperties for TLC.                                  *)
EXTENDS SessionProperties

Num(type, n) == [kind |-> "number", type |-> type, n |-> n]
Spacings(h, v) == [HorizontalSpacing |-> Num("int", h), VerticalSpacing |-> Num("int", v)]

(* One value of every kind, and ones of the kinds that are refused.         *)
Values ==
  [true  |-> [kind |-> "boolean", bool |-> TRUE],
   rate  |-> Num("sint32", 7),
   float |-> Num("float64", 1),
   cabac |-> [kind |-> "string", text |-> "CABAC"],
   bt709 |-> [kind |-> "string", text |-> "ITU_R_709_2"],
   pair  |-> [kind |-> "array", items |-> <<Num("sint64", 3), Num("int", 1)>>],
   four3 |-> [kind |-> "dictionary", items |-> Spacings(4, 3)]]

ValueObjects == DOMAIN Values
=============================================================================

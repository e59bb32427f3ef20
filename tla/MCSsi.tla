------------------------------- MODULE MCSsi --------------------------------
(* A request every two and a half instructions, majors of two minor loops, *)
(* and code that masks nothing, vector 191 alone, or everything.           *)
EXTENDS Ssi

ThreeIpls == {0, 5, 7}
=============================================================================

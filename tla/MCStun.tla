------------------------------- MODULE MCStun --------------------------------
(***************************************************************************)
(* Model checking of Stun: the words packets are made of.  Attribute       *)
(* headers have lengths around the multiples of 4, and one beyond every    *)
(* packet; USERNAME headers may also appear inside another value.          *)
(***************************************************************************)
EXTENDS Stun

USERNAME == 6
PRIORITY == 36

Headers ==
  {<<0, USERNAME, 0, n>> : n \in {0, 1, 4, 5}}
    \cup {<<0, PRIORITY, 0, n>> : n \in {0, 3, 4, 5}}
    \cup {<<0, USERNAME, 255, 255>>, <<0, PRIORITY, 255, 255>>}

a == 97
b == 98

Values ==
  {<<a, b, Colon, a>>, <<Colon, a, b, a>>, <<b, a, b, a>>,
   <<195, 164, Colon, a>>, <<a, 195, Colon, 164>>, <<255, a, b, a>>}

MCWord == Headers \cup Values
=============================================================================

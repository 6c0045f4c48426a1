-------------------------------- MODULE MCWire --------------------------------
(* Instances of Wire: columns of up to three identifiers, so that vectors  *)
(* of different fields have different sizes, and one or three frames in    *)
(* flight.                                                                 *)
EXTENDS Wire
=============================================================================

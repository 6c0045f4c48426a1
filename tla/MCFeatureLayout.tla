--------------------------- MODULE MCFeatureLayout ---------------------------
(* Plaintexts of four coefficients and rings of two or four columns stand  *)
(* for 4096 coefficients and rings of four: factors 1, 2 and 4, a batch    *)
(* size that does not divide, rings smaller than a plaintext, and feature  *)
(* numbers below, at and beyond one and two rings.                         *)
EXTENDS FeatureLayout
=============================================================================

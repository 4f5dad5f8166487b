---------------------------- MODULE MCPublication ----------------------------
(* Instances of Publication for TLC: converters with the same options are  *)
(* interchangeable.                                                        *)
EXTENDS Publication, TLC

ConverterSymmetry == Permutations(Converter \cap Overwrite)
=============================================================================

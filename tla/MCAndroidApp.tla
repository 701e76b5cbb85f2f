---------------------------- MODULE MCAndroidApp ----------------------------
(* Two configurations, which nothing but a comparison tells apart, and two  *)
(* starts: a restart, or a start after a stop.                              *)
EXTENDS AndroidApp, TLC

ConfigSymmetry == Permutations(Configs)
=============================================================================

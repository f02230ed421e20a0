----------------------------- MODULE MCSampler -----------------------------
(* Instances of Sampler for TLC: the values of the constants are in the      *)
(* configurations.                                                           *)
EXTENDS SamplerMetering
=============================================================================

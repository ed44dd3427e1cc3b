----------------------------- MODULE MCHeaderChain -----------------------------
EXTENDS HeaderChain, TLC

(* Producers other than the founder are interchangeable, as far as the     *)
(* proposals do not tell them apart.                                       *)
Symmetry ==
  {f \in Permutations(Producers \ {Founder}) :
     \A S \in Proposals : {f[p] : p \in S \ {Founder}} = S \ {Founder}}
===============================================================================

--------------------------- MODULE MCCachedMethods ---------------------------
(* A small instance of CachedMethods for TLC. *)
EXTENDS CachedMethods, TLC

(* A cached query, a repository method that is cached too, a write that   *)
(* evicts.                                                                *)
MCMethods ==
  {[cacheable |-> TRUE, evicts |-> FALSE, transactional |-> FALSE, ttl |-> TRUE],
   Repository([cacheable |-> TRUE, evicts |-> TRUE, transactional |-> FALSE, ttl |-> FALSE]),
   Repository([cacheable |-> FALSE, evicts |-> TRUE, transactional |-> FALSE, ttl |-> FALSE])}
(* No property tells calls, or keys, apart. *)
Symmetry == Permutations(Calls) \cup Permutations(Keys)
=============================================================================

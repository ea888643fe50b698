------------------------------- MODULE Values -------------------------------
(***************************************************************************)
(* What the pure operators and the properties about them share.  None is   *)
(* the absence of a value, undefined or NaN in the code.  Sums and         *)
(* concatenations are defined by counting, not by recursion: a sum is the  *)
(* number of its units, a concatenation puts an element after as many      *)
(* others as come before it.                                               *)
(***************************************************************************)
EXTENDS Integers, Sequences, FiniteSets

CONSTANT None

Defined(x) == x # None

(* What an empty object of JavaScript has all the same (some of it). *)
ObjectNames == {"constructor", "__proto__", "toString"}

(* The sum of size[i] for the i in I. *)
Total(size, I) == Cardinality(UNION {{i} \X (1..size[i]) : i \in I})

(* The place of i among the numbers of I. *)
Rank(i, I) == Cardinality({j \in I : j <= i})

(* How many elements stand before the first one of parts[i]. *)
Before(parts, i) == Total([j \in DOMAIN parts |-> Len(parts[j])], 1..(i - 1))

(* The sequence `whole` is the sequences of `parts` in a row. *)
Strung(whole, parts) ==
  /\ Len(whole) = Before(parts, Len(parts) + 1)
  /\ \A i \in DOMAIN parts : \A x \in DOMAIN parts[i] :
       whole[Before(parts, i) + x] = parts[i][x]
=============================================================================

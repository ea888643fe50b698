----------------------------- MODULE Pagination -----------------------------
(***************************************************************************)
(* src/pagination.ts: the page a query asks for and the envelope of the    *)
(* answer.  A query value is a number, or None for what Number() does not *)
(* read (NaN) or what is missing.                                          *)
(***************************************************************************)
EXTENDS Values, Integers

AtLeastOne(n) == IF n < 1 THEN 1 ELSE n
AtMost(bound, n) == IF n > bound THEN bound ELSE n

(* Number(x) || fallback: zero and NaN are falsy. *)
Truthy(x, fallback) == IF x = None \/ x = 0 THEN fallback ELSE x

(* Mutant of the next definition: pages counted from zero. *)
OffsetFromZero(page, limit) == page * limit
Offset(page, limit) == (page - 1) * limit

(* pageParams *)
PageNumber(page) == AtLeastOne(Truthy(page, 1))
PageLimit(limit, defaultLimit, maxLimit) ==
  AtMost(maxLimit, AtLeastOne(Truthy(limit, defaultLimit)))

(* paginated: Math.max(1, Math.ceil(total / limit)) *)
TotalPages(total, limit) == AtLeastOne((total + limit - 1) \div limit)

(* The items, counted from 0, on a page. *)
OnPage(i, page, limit) ==
  Offset(page, limit) <= i /\ i < Offset(page, limit) + limit
=============================================================================

------------------------------- MODULE Paging --------------------------------
(***************************************************************************)
(* The pagination of handleList, in Go's wrapping int.  A list is the set  *)
(* of the ids it holds, in the order of their places.                      *)
(***************************************************************************)
EXTENDS Integers, FiniteSets

CONSTANTS
    Place,        \* of each id in a list: SQLite's by number, that of files by name
    IntMax,       \* the largest value of Go's int
    MaxPerPage,   \* the most rows a request may ask for on a page
    PageSize,     \* DefaultPageSize of the configuration
    FallbackSize  \* the page size when that is not positive

ASSUME PagesHaveRows == /\ IntMax \in Nat \ {0} /\ PageSize \in Int
                        /\ {MaxPerPage, FallbackSize} \subseteq Nat \ {0}

Wrap(x) == ((x + IntMax + 1) % (2 * IntMax + 2)) - IntMax - 1

(* What handleList makes of the parameters page and per_page.              *)
PageOf(p) == IF p < 1 THEN 1 ELSE p
PerOf(n)  == IF n \in 1 .. MaxPerPage THEN n
             ELSE IF PageSize < 1 THEN FallbackSize ELSE PageSize

(* Fault: the division rounds down.                                        *)
TotalPagesFloor(total, n) == total \div n

TotalPages(total, n) == Wrap(total + n - 1) \div n

Start(p, n) == Wrap(Wrap(p - 1) * n)

End(p, n, total) == LET e == Wrap(Start(p, n) + n) IN IF e > total THEN total ELSE e

(* entities[start:end] panics.                                             *)
Panics(p, n, total) == /\ Start(p, n) < total
                       /\ Start(p, n) < 0 \/ End(p, n, total) < Start(p, n)

(* How many rows of the list come before that of id i.                     *)
Rank(ids, i) == Cardinality({j \in ids : Place[j] < Place[i]})

PageIds(ids, p, n) ==
    {i \in ids : Rank(ids, i) \in Start(p, n) .. End(p, n, Cardinality(ids)) - 1}
==============================================================================

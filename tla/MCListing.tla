----------------------------- MODULE MCListing -----------------------------
(* The queries of the run of Listing.                                      *)
EXTENDS Listing

Keyed(keys) == [kind |-> "keys", keys |-> keys]

By(column, dir, text) == [column |-> column, dir |-> dir, text |-> text]

SomeSorts ==
  { NoSort,
    Scalar,                                            \* ?sort=5
    Keyed(<<By("name", "asc", FALSE)>>),               \* ?sort=name
    Keyed(<<By("name", "desc", TRUE)>>),               \* ?sort[name]=desc
    Keyed(<<By("name", "other", TRUE)>>),              \* ?sort[name]=1
    Keyed(<<By("name", "other", FALSE)>>),             \* ?sort={"name":2}
    Keyed(<<By("createdAt", "asc", TRUE), By("name", "asc", TRUE)>>) }

Bare == [sort |-> NoSort, filter |-> None, page |-> None, perPage |-> None, all |-> FALSE]

SomeQueries ==
  {[Bare EXCEPT !.perPage = n] : n \in {-1, 0, 1, NaN}}
  \cup {[Bare EXCEPT !.perPage = 1, !.page = n] : n \in {-1, 2, NaN}}
  \cup {[Bare EXCEPT !.sort = s] : s \in SomeSorts}
  \cup {[Bare EXCEPT !.filter = 1, !.sort = Keyed(<<By("name", "asc", TRUE)>>), !.all = b] : b \in BOOLEAN}
=============================================================================

----------------------------- MODULE MCUriStore -----------------------------
(* Resources with a short and a long URI.                                  *)
EXTENDS UriStore

CONSTANTS short, long

ShortAndLong == [u \in Uris |-> IF u = short THEN 1 ELSE 5]
OneOrTwo == {<<1, short>>, <<1, long>>, <<2, long>>}
=============================================================================

---------------------------- MODULE MCQuoteFeed ----------------------------
(* Instances of QuoteFeed for TLC.  Symbols and requests are interchangeable. *)
EXTENDS QuoteFeed

Alike == Permutations(Requests) \cup Permutations(Symbols)
=============================================================================

---------------------------- MODULE MCImageCache ----------------------------
(* Instances of ImageCache small enough for TLC. *)
EXTENDS ImageCache, TLC

CONSTANTS U1, U2, U3, T1, T2, Png, Gif

\* Neither what is fetched nor who fetches it has an order.
Symmetric == Permutations(Urls) \cup Permutations(Threads) \cup Permutations(Suffixes)
=============================================================================

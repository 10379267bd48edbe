----------------------------- MODULE MCPlaylist ----------------------------
(* Playlists for Playlist: one to four images in sequence or shuffled, every
   two shuffles of three images meeting at a round's end, with and without a
   total that cuts a slot. *)
EXTENDS Playlist

Orders(images) == {o \in [DOMAIN images -> Range(images)] : IsInjective(o)}

\* The seed is the orders of the even rounds and the odd.
MCShuffled(p, r) == IF r % 2 = 0 THEN p.seed[1] ELSE p.seed[2]

Made(images, order, duration, total, seed) ==
  [images |-> images, order |-> order, duration |-> duration, total |-> total,
   started |-> 2, seed |-> seed]

Three == <<"a", "b", "c">>
Two == <<"a", "b">>

MCPlaylists ==
  {Made(Three, "random", 1, 0, seed) : seed \in Orders(Three) \X Orders(Three)} \cup
  {Made(images, "sequence", 3, total, <<images, images>>) :
     images \in {<<"a">>, Two, Three}, total \in {0, 5, 8}} \cup
  {Made(Two, "random", 2, 3, <<Two, Two>>)}
=============================================================================

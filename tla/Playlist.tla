----------------------------- MODULE Playlist ------------------------------
(***************************************************************************)
(* The schedule of a playlist (display/playlist.py) and the worker playing *)
(* it (_run_playlist).  What plays is a function of the wall clock, which  *)
(* may be set; how long an item is waited for runs on a clock that may     *)
(* not.  Time counts in steps, a message takes the panel when it likes.    *)
(***************************************************************************)
EXTENDS Integers, Sequences, Functions

CONSTANTS Playlists,         \* [images, duration, order, total, started, seed]
          Shuffled(_, _),    \* _shuffled: the images in the order of a round
          MinItem,           \* MIN_PLAYLIST_ITEM_SECONDS
          MaxTime, ClockSets, Settable \* bounds: the clock's reach, how often it is set, to what

Endless == 0                 \* total of None
Rounds == 0 .. MaxTime       \* no round is reached that this time does not reach

ASSUME PlaylistAssumption ==
  /\ MinItem \in Nat /\ MaxTime \in Nat /\ ClockSets \in Nat
  /\ Settable \subseteq 0 .. MaxTime
  /\ \A p \in Playlists :
       /\ p.images # <<>> /\ p.images \in Seq(Range(p.images)) /\ IsInjective(p.images)
       /\ p.duration \in Nat \ {0} /\ p.total \in Nat /\ p.started \in Nat
       /\ p.order \in {"sequence", "random"}
       /\ \A r \in Rounds :
            Shuffled(p, r) \in Bijection(DOMAIN p.images, Range(p.images))

-----------------------------------------------------------------------------
(* playlist.py. *)

Until(p) == p.started + p.total

\* Mutant: a playlist plays on at the moment it ends.
Expired_Late(p, now) == p.total # Endless /\ now > Until(p)

Expired(p, now) == p.total # Endless /\ now >= Until(p)

\* Mutant: a round starts as shuffled.
Round_Unswapped(p, r) == Shuffled(p, r)

\* Mutant: only one half of the swap.
Round_Overwrites(p, r) ==
  LET order == Shuffled(p, r)
  IN IF r > 0 /\ order[1] = Shuffled(p, r - 1)[Len(p.images)]
     THEN [order EXCEPT ![1] = order[2]] ELSE order

\* A round does not start with the image the one before, as shuffled, ended on.
Round(p, r) ==
  LET order == Shuffled(p, r)
  IN IF r > 0 /\ order[1] = Shuffled(p, r - 1)[Len(p.images)]
     THEN [order EXCEPT ![1] = order[2], ![2] = order[1]] ELSE order

ImageAt(p, n) ==
  LET count == Len(p.images)
  IN IF p.order = "sequence" \/ count < 3 THEN p.images[(n % count) + 1]
     ELSE Round(p, n \div count)[(n % count) + 1]

\* Mutant: no slot before `started` is thought of.
Slot_Unclamped(p, now) ==
  LET n == (now - p.started) \div p.duration
      start == p.started + n * p.duration
  IN [position |-> n, image |-> ImageAt(p, n), start |-> start, end |-> start + p.duration]

\* Mutant: the last slot is a whole one.
Slot_Uncut(p, now) ==
  LET n == IF now < p.started THEN 0 ELSE (now - p.started) \div p.duration
      start == p.started + n * p.duration
  IN [position |-> n, image |-> ImageAt(p, n), start |-> start, end |-> start + p.duration]

\* The slot that runs at `now`; before `started`, the first.
Slot(p, now) ==
  LET n == IF now < p.started THEN 0 ELSE (now - p.started) \div p.duration
      start == p.started + n * p.duration
      end == start + p.duration
  IN [position |-> n, image |-> ImageAt(p, n), start |-> start,
      end |-> IF p.total # Endless /\ end > Until(p) THEN Until(p) ELSE end]

-----------------------------------------------------------------------------
VARIABLES playlist,
          now,      \* the wall clock
          sets,     \* how often it was set
          slot,     \* the slot the worker is on
          left,     \* what remains of its wait
          kept,     \* the clock was not set since the slot was read
          pc

vars == <<playlist, now, sets, slot, left, kept, pc>>

NoSlot == [position |-> -1]

Init == /\ playlist \in Playlists
        /\ now = playlist.started /\ sets = 0
        /\ slot = NoSlot /\ left = 0 /\ kept = TRUE /\ pc = "next"

\* Mutant: every item plays its full duration.
NextSlot_Full ==
  /\ pc = "next"
  /\ IF Expired(playlist, now)
     THEN pc' = "over" /\ UNCHANGED <<slot, left, kept>>
     ELSE /\ slot' = Slot(playlist, now) /\ kept' = TRUE
          /\ left' = playlist.duration /\ pc' = "play"
  /\ UNCHANGED <<playlist, now, sets>>

\* The item plays for what is left of its slot; a rest too short is sat out.
NextSlot ==
  /\ pc = "next"
  /\ IF Expired(playlist, now)
     THEN pc' = "over" /\ UNCHANGED <<slot, left, kept>>
     ELSE /\ slot' = Slot(playlist, now) /\ kept' = TRUE
          /\ left' = slot'.end - now
          /\ pc' = IF left' < MinItem THEN "sit" ELSE "play"
  /\ UNCHANGED <<playlist, now, sets>>

\* An item that cannot be shown is sat out to the end of its slot.
Fails == /\ pc = "play"
         /\ pc' = "sit" /\ left' = IF slot.end > now THEN slot.end - now ELSE 0
         /\ UNCHANGED <<playlist, now, sets, slot, kept>>

Ends == /\ pc \in {"play", "sit"} /\ left = 0
        /\ pc' = "next"
        /\ UNCHANGED <<playlist, now, sets, slot, left, kept>>

\* A message takes the panel at once, and gives it back some time.
Interrupted == /\ pc \in {"play", "sit"} /\ pc' = "away"
               /\ UNCHANGED <<playlist, now, sets, slot, left, kept>>
Back == /\ pc = "away" /\ pc' = "next"
        /\ UNCHANGED <<playlist, now, sets, slot, left, kept>>

Tick == /\ now < MaxTime /\ pc # "over"
        /\ pc \in {"play", "sit"} => left > 0
        /\ now' = now + 1 /\ left' = IF left > 0 THEN left - 1 ELSE 0
        /\ UNCHANGED <<playlist, sets, slot, kept, pc>>

SetClock == /\ sets < ClockSets /\ pc # "over"
            /\ now' \in Settable /\ sets' = sets + 1 /\ kept' = FALSE
            /\ UNCHANGED <<playlist, slot, left, pc>>

Worker == NextSlot \/ Fails \/ Ends
Next == Worker \/ Interrupted \/ Back \/ Tick \/ SetClock

Spec == Init /\ [][Next]_vars

\* Time passes, the worker's loop turns, and a message's time runs out.
FairSpec == Spec /\ WF_vars(NextSlot) /\ WF_vars(Ends) /\ WF_vars(Back) /\ WF_vars(Tick)
-----------------------------------------------------------------------------
(* Properties. *)

TypeOK == /\ now \in Nat /\ left \in Nat /\ sets \in 0 .. ClockSets
          /\ pc \in {"next", "play", "sit", "away", "over"}
          /\ slot # NoSlot => slot.position \in Nat /\ slot.image \in Range(playlist.images)

(* Nothing plays twice in a row, within a round and from one to the next,
   whatever the shuffles are (playlist.py:82-91). *)
NeverTwice ==
  \A n \in 0 .. MaxTime - 1 :
    Len(playlist.images) > 1 => ImageAt(playlist, n) # ImageAt(playlist, n + 1)

(* A round shows every image: none is lost to the swap at its start. *)
EveryImage ==
  \A r \in Rounds :
    LET count == Len(playlist.images)
    IN {ImageAt(playlist, r * count + k) : k \in 0 .. count - 1} = Range(playlist.images)

(* The order is one to watch: every image in its round, none twice in a row. *)
RoundsAreWhole == NeverTwice /\ EveryImage

(* What the worker plays is what the schedule says, which is what GET /display
   and the canvas go by (playlist.py:9-14, worker.py:457-458): as long as no
   one sets the clock, after whatever interruption, and to the slot's end. *)
OnSchedule ==
  pc \in {"play", "sit"} /\ kept =>
    /\ left = slot.end - now
    /\ left > 0 => slot = Slot(playlist, now)

(* The worker keeps to the schedule, on a slot there is. *)
PlaysOnSchedule == TypeOK /\ OnSchedule

(* A playlist with a total ends when it says (playlist.py:55-69), never before,
   and no item is begun that would play past it. *)
EndsOnTime ==
  [][ playlist.total # Endless =>
        /\ pc' = "over" /\ pc # "over" => now >= Until(playlist)
        /\ pc = "next" /\ pc' = "play" => now + left' <= Until(playlist) ]_vars

(* And it does end, whatever interrupts it or fails: the clock set back only
   makes it later. *)
TotalRunsOut == playlist.total # Endless ~> pc = "over"

(* A total is kept: the playlist ends, and at the time it is to end. *)
TotalIsKept == EndsOnTime /\ TotalRunsOut
=============================================================================

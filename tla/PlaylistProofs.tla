--------------------------- MODULE PlaylistProofs ---------------------------
(***************************************************************************)
(* What TLAPS proves of Playlist for every set of playlists, every shuffle *)
(* of their images and every clock.                                        *)
(***************************************************************************)
EXTENDS Playlist, TLAPS

-----------------------------------------------------------------------------
(* Division: how a position of the schedule is a round and a place in it.  *)

\* A quotient and a remainder are unique.
LEMMA Unique ==
    ASSUME NEW d \in Nat \ {0}, NEW q \in Int, NEW r \in 0 .. d - 1
    PROVE  (q * d + r) \div d = q /\ (q * d + r) % d = r
<1> DEFINE m == q * d + r
           k == m \div d
           s == m % d
<1>1. m \in Int /\ k \in Int /\ s \in 0 .. d - 1 /\ m = d * k + s
  OBVIOUS
<1> HIDE DEF k, s
<1>2. d * k + s = d * q + r
  BY <1>1
<1>3. ~(k > q)
  <2> SUFFICES ASSUME k > q PROVE FALSE
    OBVIOUS
  <2>1. k - q >= 1 /\ k - q \in Nat
    BY <1>1
  <2>2. d * (k - q) >= d
    BY <2>1
  <2>3. d * (k - q) = r - s
    BY <1>1, <1>2
  <2>4. QED
    BY <1>1, <2>2, <2>3
<1>4. ~(k < q)
  <2> SUFFICES ASSUME k < q PROVE FALSE
    OBVIOUS
  <2>1. q - k >= 1 /\ q - k \in Nat
    BY <1>1
  <2>2. d * (q - k) >= d
    BY <2>1
  <2>3. d * (q - k) = s - r
    BY <1>1, <1>2
  <2>4. QED
    BY <1>1, <2>2, <2>3
<1>5. k = q
  BY <1>1, <1>3, <1>4
<1>6. s = r
  BY <1>1, <1>2, <1>5
<1>7. QED
  BY <1>5, <1>6 DEF k, s

\* What division makes of a number.
LEMMA Divided ==
    ASSUME NEW d \in Nat \ {0}, NEW n \in Nat
    PROVE  /\ n \div d \in Nat /\ n % d \in 0 .. d - 1
           /\ n = (n \div d) * d + (n % d)
           /\ n \div d <= n
<1> DEFINE k == n \div d
           s == n % d
<1>2. k \in Int /\ s \in 0 .. d - 1 /\ n = d * k + s
  OBVIOUS
<1> HIDE DEF k, s
<1>3. k >= 0
  <2> SUFFICES ASSUME k <= -1 PROVE FALSE
    BY <1>2
  <2>1. d * (-1 - k) >= 0
    BY <1>2
  <2>2. QED
    BY <1>2, <2>1
<1>4. k <= d * k
  <2>1. (d - 1) * k >= 0
    BY <1>2, <1>3
  <2>2. QED
    BY <1>2, <2>1
<1>5. k \in Nat /\ s \in 0 .. d - 1 /\ n = k * d + s /\ k <= n
  BY <1>2, <1>3, <1>4
<1>6. QED
  BY <1>5 DEF k, s

\* The next number is in the next place, or in the first of the next round.
LEMMA Following ==
    ASSUME NEW d \in Nat \ {0}, NEW n \in Nat
    PROVE  IF n % d = d - 1
           THEN (n + 1) \div d = n \div d + 1 /\ (n + 1) % d = 0
           ELSE (n + 1) \div d = n \div d /\ (n + 1) % d = (n % d) + 1
<1> DEFINE k == n \div d
           s == n % d
<1>1. k \in Nat /\ s \in 0 .. d - 1 /\ n = k * d + s
  BY Divided
<1> HIDE DEF k, s
<1>2. CASE s = d - 1
  <2>1. n + 1 = (k + 1) * d + 0
    BY <1>1, <1>2
  <2>2. ((k + 1) * d + 0) \div d = k + 1 /\ ((k + 1) * d + 0) % d = 0
    BY <1>1, Unique
  <2>3. QED
    BY <1>2, <2>1, <2>2 DEF k, s
<1>3. CASE s # d - 1
  <2>1. n + 1 = k * d + (s + 1) /\ s + 1 \in 0 .. d - 1
    BY <1>1, <1>3
  <2>2. (k * d + (s + 1)) \div d = k /\ (k * d + (s + 1)) % d = s + 1
    BY <1>1, <2>1, Unique
  <2>3. QED
    BY <1>3, <2>1, <2>2 DEF k, s
<1>4. QED
  BY <1>2, <1>3
-----------------------------------------------------------------------------
(* The images: a round is a permutation, and the swap at its start is what  *)
(* keeps the image the last one ended on from coming again.                 *)

Images(p) == Range(p.images)
Count(p) == Len(p.images)

LEMMA PlaylistFacts ==
    ASSUME NEW p \in Playlists
    PROVE  /\ Count(p) \in Nat \ {0}
           /\ DOMAIN p.images = 1 .. Count(p)
           /\ \A i \in 1 .. Count(p) : p.images[i] \in Images(p)
           /\ \A x \in Images(p) : \E i \in 1 .. Count(p) : p.images[i] = x
           /\ \A i, j \in 1 .. Count(p) : p.images[i] = p.images[j] => i = j
<1>1. p.images \in Seq(Images(p)) /\ p.images # <<>> /\ IsInjective(p.images)
  BY PlaylistAssumption DEF Images
<1>2. DOMAIN p.images = 1 .. Count(p) /\ Count(p) \in Nat \ {0}
  BY <1>1 DEF Count
<1>3. QED
  BY <1>1, <1>2 DEF Images, Range, IsInjective

LEMMA ShuffledFacts ==
    ASSUME NEW p \in Playlists, NEW r \in Rounds
    PROVE  /\ Shuffled(p, r) \in [1 .. Count(p) -> Images(p)]
           /\ \A i, j \in 1 .. Count(p) : Shuffled(p, r)[i] = Shuffled(p, r)[j] => i = j
           /\ \A x \in Images(p) : \E i \in 1 .. Count(p) : Shuffled(p, r)[i] = x
<1>1. Shuffled(p, r) \in Bijection(1 .. Count(p), Images(p))
  BY PlaylistAssumption, PlaylistFacts DEF Images
<1>2. QED
  BY <1>1 DEF Bijection, Injection, Surjection, IsInjective

\* A round shows every image once.
LEMMA RoundFacts ==
    ASSUME NEW p \in Playlists, NEW r \in Rounds, Count(p) >= 3
    PROVE  /\ Round(p, r) \in [1 .. Count(p) -> Images(p)]
           /\ \A i, j \in 1 .. Count(p) : Round(p, r)[i] = Round(p, r)[j] => i = j
           /\ \A x \in Images(p) : \E i \in 1 .. Count(p) : Round(p, r)[i] = x
<1> DEFINE order == Shuffled(p, r)
           c == Count(p)
<1>1. /\ order \in [1 .. c -> Images(p)]
      /\ \A i, j \in 1 .. c : order[i] = order[j] => i = j
      /\ \A x \in Images(p) : \E i \in 1 .. c : order[i] = x
  BY ShuffledFacts
<1>2. c \in Nat /\ c >= 3
  BY PlaylistFacts
<1>3. \/ Round(p, r) = order
      \/ Round(p, r) = [order EXCEPT ![1] = order[2], ![2] = order[1]]
  BY DEF Round
<1> HIDE DEF order, c
<1>4. CASE Round(p, r) = order
  BY <1>1, <1>4 DEF c
<1>5. CASE Round(p, r) = [order EXCEPT ![1] = order[2], ![2] = order[1]]
  <2>1. 1 \in 1 .. c /\ 2 \in 1 .. c
    BY <1>2
  <2>2. /\ Round(p, r) \in [1 .. c -> Images(p)]
        /\ Round(p, r)[1] = order[2] /\ Round(p, r)[2] = order[1]
        /\ \A i \in 1 .. c : i # 1 /\ i # 2 => Round(p, r)[i] = order[i]
    BY <1>1, <1>5, <2>1
  <2>3. \A i, j \in 1 .. c : Round(p, r)[i] = Round(p, r)[j] => i = j
    BY <1>1, <2>1, <2>2
  <2>4. \A x \in Images(p) : \E i \in 1 .. c : Round(p, r)[i] = x
    <3> TAKE x \in Images(p)
    <3>1. PICK i \in 1 .. c : order[i] = x
      BY <1>1
    <3>2. CASE i = 1
      BY <2>1, <2>2, <3>1, <3>2
    <3>3. CASE i = 2
      BY <2>1, <2>2, <3>1, <3>3
    <3>4. CASE i # 1 /\ i # 2
      BY <2>2, <3>1, <3>4
    <3>5. QED
      BY <3>2, <3>3, <3>4
  <2>5. QED
    BY <2>2, <2>3, <2>4 DEF c
<1>6. QED
  BY <1>3, <1>4, <1>5

\* No round begins with the image the one before it ended on.
LEMMA RoundsDiffer ==
    ASSUME NEW p \in Playlists, NEW r \in Rounds, r + 1 \in Rounds, Count(p) >= 3
    PROVE  Round(p, r)[Count(p)] # Round(p, r + 1)[1]
<1> DEFINE c == Count(p)
           before == Shuffled(p, r)
           order == Shuffled(p, r + 1)
<1>1. c \in Nat /\ c >= 3 /\ r \in Nat
  BY PlaylistFacts, PlaylistAssumption DEF Rounds
<1>2. before \in [1 .. c -> Images(p)] /\ order \in [1 .. c -> Images(p)]
      /\ \A i, j \in 1 .. c : order[i] = order[j] => i = j
  BY ShuffledFacts
<1>3. Round(p, r)[c] = before[c]
  <2>1. c \in 1 .. c /\ c # 1 /\ c # 2
    BY <1>1
  <2>2. \/ Round(p, r) = before
        \/ Round(p, r) = [before EXCEPT ![1] = before[2], ![2] = before[1]]
    BY DEF Round
  <2>3. QED
    BY <1>2, <2>1, <2>2
<1>4. /\ order[1] = before[c] => Round(p, r + 1) = [order EXCEPT ![1] = order[2], ![2] = order[1]]
      /\ order[1] # before[c] => Round(p, r + 1) = order
  <2>1. r + 1 > 0 /\ (r + 1) - 1 = r
    BY <1>1
  <2>2. QED
    BY <2>1 DEF Round, Count
<1>5. 1 \in 1 .. c /\ 2 \in 1 .. c /\ order[1] # order[2]
  <2>1. 1 \in 1 .. c /\ 2 \in 1 .. c
    BY <1>1
  <2>2. QED
    BY <1>2, <2>1
<1>6. CASE order[1] = before[c]
  BY <1>2, <1>3, <1>4, <1>5, <1>6
<1>7. CASE order[1] # before[c]
  BY <1>3, <1>4, <1>7
<1>8. QED
  BY <1>6, <1>7

\* Whether the images follow each other or are shuffled.
InTurn(p) == p.order = "sequence" \/ Count(p) < 3

LEMMA ImageAtIs ==
    ASSUME NEW p \in Playlists, NEW n \in Nat
    PROVE  /\ InTurn(p) => ImageAt(p, n) = p.images[(n % Count(p)) + 1]
           /\ ~InTurn(p) => ImageAt(p, n) = Round(p, n \div Count(p))[(n % Count(p)) + 1]
BY DEF InTurn, ImageAt, Count

\* Every position the time reaches is in a round there is.
LEMMA RoundReached ==
    ASSUME NEW p \in Playlists, NEW n \in 0 .. MaxTime
    PROVE  n \div Count(p) \in Rounds
<1>1. n \in Nat /\ Count(p) \in Nat \ {0} /\ MaxTime \in Nat
  BY PlaylistFacts, PlaylistAssumption
<1>2. n \div Count(p) \in Nat /\ n \div Count(p) <= n
  BY <1>1, Divided
<1>3. QED
  BY <1>1, <1>2 DEF Rounds

LEMMA ImageIsOne ==
    ASSUME NEW p \in Playlists, NEW n \in 0 .. MaxTime
    PROVE  ImageAt(p, n) \in Images(p)
<1>1. n \in Nat /\ Count(p) \in Nat \ {0}
  BY PlaylistFacts, PlaylistAssumption
<1>2. (n % Count(p)) + 1 \in 1 .. Count(p)
  <2>1. n % Count(p) \in 0 .. Count(p) - 1
    BY <1>1, Divided
  <2>2. QED
    BY <1>1, <2>1
<1>3. CASE InTurn(p)
  <2>1. \A i \in 1 .. Count(p) : p.images[i] \in Images(p)
    BY PlaylistFacts
  <2>2. ImageAt(p, n) = p.images[(n % Count(p)) + 1]
    BY <1>1, <1>3, ImageAtIs
  <2>3. QED
    BY <1>2, <2>1, <2>2
<1>4. CASE ~InTurn(p)
  <2>1. Count(p) >= 3
    BY <1>1, <1>4 DEF InTurn
  <2>2. Round(p, n \div Count(p)) \in [1 .. Count(p) -> Images(p)]
    BY <2>1, RoundReached, RoundFacts
  <2>3. QED
    BY <1>1, <1>2, <1>4, <2>2, ImageAtIs
<1>5. QED
  BY <1>3, <1>4

\* One position's image and the next one's.
LEMMA ImagesDiffer ==
    ASSUME NEW p \in Playlists, NEW n \in 0 .. MaxTime - 1, Count(p) > 1
    PROVE  ImageAt(p, n) # ImageAt(p, n + 1)
<1> DEFINE c == Count(p)
           r == n \div c
           k == n % c
<1>1. n \in 0 .. MaxTime /\ n + 1 \in 0 .. MaxTime /\ n \in Nat /\ n + 1 \in Nat
  BY PlaylistAssumption
<1>2. c \in Nat \ {0} /\ c > 1
  BY PlaylistFacts
<1>3. r \in Nat /\ k \in 0 .. c - 1 /\ r \in Rounds /\ (n + 1) \div c \in Rounds
  BY <1>1, <1>2, Divided, RoundReached
<1>4. IF k = c - 1 THEN (n + 1) \div c = r + 1 /\ (n + 1) % c = 0
                   ELSE (n + 1) \div c = r /\ (n + 1) % c = k + 1
  BY <1>1, <1>2, Following
<1>5. /\ InTurn(p) => ImageAt(p, n) = p.images[k + 1] /\ ImageAt(p, n + 1) = p.images[((n + 1) % c) + 1]
      /\ ~InTurn(p) => /\ ImageAt(p, n) = Round(p, r)[k + 1]
                       /\ ImageAt(p, n + 1) = Round(p, (n + 1) \div c)[((n + 1) % c) + 1]
  BY <1>1, ImageAtIs
<1>6. ~InTurn(p) => c >= 3
  BY <1>2 DEF InTurn
<1> HIDE DEF c, r, k
<1>7. CASE k = c - 1
  <2>1. k + 1 = c /\ c \in 1 .. c /\ 1 \in 1 .. c /\ c # 1 /\ ((n + 1) % c) + 1 = 1
        /\ (n + 1) \div c = r + 1
    BY <1>2, <1>4, <1>7
  <2>2. CASE InTurn(p)
    BY <1>5, <2>1, <2>2, PlaylistFacts DEF c
  <2>3. CASE ~InTurn(p)
    BY <1>3, <1>5, <1>6, <2>1, <2>3, RoundsDiffer DEF c
  <2>4. QED
    BY <2>2, <2>3
<1>8. CASE k # c - 1
  <2>1. k + 1 \in 1 .. c /\ k + 2 \in 1 .. c /\ k + 1 # k + 2 /\ ((n + 1) % c) + 1 = k + 2
        /\ (n + 1) \div c = r
    BY <1>2, <1>3, <1>4, <1>8
  <2>2. CASE InTurn(p)
    BY <1>5, <2>1, <2>2, PlaylistFacts DEF c
  <2>3. CASE ~InTurn(p)
    <3>1. \A i, j \in 1 .. c : Round(p, r)[i] = Round(p, r)[j] => i = j
      BY <1>3, <1>6, <2>3, RoundFacts DEF c
    <3>2. QED
      BY <1>5, <2>1, <2>3, <3>1
  <2>4. QED
    BY <2>2, <2>3
<1>9. QED
  BY <1>7, <1>8
\* The positions of a round show every image, and nothing else.
LEMMA RoundIsWhole ==
    ASSUME NEW p \in Playlists, NEW r \in Rounds
    PROVE  {ImageAt(p, r * Count(p) + k) : k \in 0 .. Count(p) - 1} = Images(p)
<1> DEFINE c == Count(p)
           shown == IF InTurn(p) THEN p.images ELSE Round(p, r)
<1>1. c \in Nat \ {0} /\ r \in Nat
  BY PlaylistFacts, PlaylistAssumption DEF Rounds
<1>2. /\ \A i \in 1 .. c : shown[i] \in Images(p)
      /\ \A x \in Images(p) : \E i \in 1 .. c : shown[i] = x
  <2>1. CASE InTurn(p)
    BY <2>1, PlaylistFacts
  <2>2. CASE ~InTurn(p)
    <3>1. c >= 3
      BY <1>1, <2>2 DEF InTurn
    <3>2. /\ Round(p, r) \in [1 .. c -> Images(p)]
          /\ \A x \in Images(p) : \E i \in 1 .. c : Round(p, r)[i] = x
      BY <3>1, RoundFacts
    <3>3. QED
      BY <2>2, <3>2
  <2>3. QED
    BY <2>1, <2>2
<1>3. \A k \in 0 .. c - 1 : ImageAt(p, r * c + k) = shown[k + 1]
  <2> TAKE k \in 0 .. c - 1
  <2>1. r * c + k \in Nat
    BY <1>1
  <2>2. (r * c + k) \div c = r /\ (r * c + k) % c = k
    <3>1. c \in Nat \ {0} /\ r \in Int
      BY <1>1
    <3> HIDE DEF c
    <3>2. QED
      BY <3>1, Unique
  <2> DEFINE n == r * c + k
  <2>3. n \in Nat /\ n \div c = r /\ n % c = k
    BY <2>1, <2>2
  <2> HIDE DEF n
  <2>4. ImageAt(p, n) = shown[k + 1]
    BY <2>3, ImageAtIs
  <2>5. QED
    BY <2>4 DEF n
<1> HIDE DEF c, shown
<1>4. ASSUME NEW x \in Images(p) PROVE \E k \in 0 .. c - 1 : ImageAt(p, r * c + k) = x
  <2>1. PICK i \in 1 .. c : shown[i] = x
    BY <1>2
  <2>2. i - 1 \in 0 .. c - 1 /\ (i - 1) + 1 = i
    BY <1>1, <2>1
  <2>3. ImageAt(p, r * c + (i - 1)) = x
    BY <1>3, <2>1, <2>2
  <2>4. QED
    BY <2>2, <2>3
<1>5. ASSUME NEW k \in 0 .. c - 1 PROVE ImageAt(p, r * c + k) \in Images(p)
  <2>1. k + 1 \in 1 .. c
    BY <1>1
  <2>2. QED
    BY <1>2, <1>3, <2>1
<1>6. {ImageAt(p, r * c + k) : k \in 0 .. c - 1} = Images(p)
  BY <1>4, <1>5
<1>7. QED
  BY <1>6 DEF c

\* The order is one to watch, for any shuffle at all: whatever _shuffled() returns, no
\* image is left out of its round and none plays twice in a row (playlist.py:82-91).
THEOREM OrderIsWhole == Spec => []RoundsAreWhole
<1> DEFINE Known == playlist \in Playlists
<1>1. Init => Known
  BY DEF Init
<1>2. Known /\ [Next]_vars => Known'
  BY DEF Next, Worker, NextSlot, Fails, Ends, Interrupted, Back, Tick, SetClock, vars
<1>3. Known => RoundsAreWhole
  <2> SUFFICES ASSUME playlist \in Playlists PROVE NeverTwice /\ EveryImage
    BY DEF RoundsAreWhole
  <2>1. NeverTwice
    BY ImagesDiffer DEF NeverTwice, Count
  <2>2. EveryImage
    BY RoundIsWhole DEF EveryImage, Count, Images
  <2>3. QED
    BY <2>1, <2>2
<1>4. QED
  BY <1>1, <1>2, <1>3, PTL DEF Spec

-----------------------------------------------------------------------------
(* The schedule.  Between two settings of the clock what is left of an item  *)
(* and the clock add up to the end of the slot the clock is in.              *)

\* The clock is where a position of the schedule can be worked out.
ClockReaches == now \in Nat /\ (now <= MaxTime \/ now = playlist.started)

Inv ==
    /\ playlist \in Playlists
    /\ ClockReaches
    /\ pc \in {"play", "sit"} => slot.end \in Nat
    /\ PlaysOnSchedule

\* The position the schedule is at.
Position(p, t) == IF t < p.started THEN 0 ELSE (t - p.started) \div p.duration

LEMMA PositionFacts ==
    ASSUME NEW p \in Playlists, NEW t \in Nat, t <= MaxTime \/ t = p.started
    PROVE  /\ Position(p, t) \in 0 .. MaxTime
           /\ p.started \in Nat /\ p.duration \in Nat \ {0} /\ p.total \in Nat
           /\ t < p.started + (Position(p, t) + 1) * p.duration
           /\ p.started <= t => p.started + Position(p, t) * p.duration <= t
<1>1. p.started \in Nat /\ p.duration \in Nat \ {0} /\ p.total \in Nat /\ MaxTime \in Nat
  BY PlaylistAssumption
<1>2. CASE t < p.started
  BY <1>1, <1>2 DEF Position
<1>3. CASE p.started <= t
  <2> DEFINE q == (t - p.started) \div p.duration
             r == (t - p.started) % p.duration
  <2>1. t - p.started \in Nat /\ t - p.started <= MaxTime
    BY <1>1, <1>3
  <2>2. /\ q \in Nat /\ r \in 0 .. p.duration - 1 /\ q <= t - p.started
        /\ t - p.started = q * p.duration + r
    BY <1>1, <2>1, Divided
  <2>3. Position(p, t) = q
    BY <1>1, <1>3 DEF Position
  <2> HIDE DEF q, r
  <2>4. (q + 1) * p.duration = q * p.duration + p.duration /\ q * p.duration \in Nat
    BY <1>1, <2>2
  <2>5. QED
    BY <1>1, <1>3, <2>1, <2>2, <2>3, <2>4
<1>4. QED
  BY <1>1, <1>2, <1>3

\* The slot at t holds t, and ends no later than the playlist.
LEMMA SlotFacts ==
    ASSUME NEW p \in Playlists, NEW t \in Nat, t <= MaxTime \/ t = p.started, ~Expired(p, t)
    PROVE  /\ Slot(p, t).position \in Nat
           /\ Slot(p, t).image \in Range(p.images)
           /\ Slot(p, t).end \in Nat
           /\ t < Slot(p, t).end
           /\ p.total # Endless => Slot(p, t).end <= Until(p)
<1> DEFINE n == Position(p, t)
           end == p.started + n * p.duration + p.duration
<1>1. /\ n \in 0 .. MaxTime /\ p.started \in Nat /\ p.duration \in Nat \ {0} /\ p.total \in Nat
      /\ t < p.started + (n + 1) * p.duration
      /\ MaxTime \in Nat
  BY PositionFacts, PlaylistAssumption
<1>2. /\ Slot(p, t).position = n
      /\ Slot(p, t).image = ImageAt(p, n)
      /\ Slot(p, t).end = IF p.total # Endless /\ end > Until(p) THEN Until(p) ELSE end
  BY DEF Slot, Position
<1> HIDE DEF n
<1>3. end = p.started + (n + 1) * p.duration /\ end \in Nat
  <2>1. n \in Nat
    BY <1>1
  <2>2. (n + 1) * p.duration = n * p.duration + p.duration /\ n * p.duration \in Nat
    BY <1>1, <2>1
  <2>3. QED
    BY <1>1, <2>2
<1>4. ImageAt(p, n) \in Range(p.images)
  BY <1>1, ImageIsOne DEF Images
<1> HIDE DEF end
<1>5. Until(p) \in Nat /\ (p.total # Endless => t < Until(p))
  BY <1>1 DEF Until, Expired
<1>6. QED
  BY <1>1, <1>2, <1>3, <1>4, <1>5

\* Until it ends, the slot stays the one the schedule is at.
LEMMA SlotStays ==
    ASSUME NEW p \in Playlists, NEW t \in Nat, t + 1 <= MaxTime, t + 1 < Slot(p, t).end
    PROVE  Slot(p, t + 1) = Slot(p, t)
<1>1. /\ p.started \in Nat /\ p.duration \in Nat \ {0} /\ p.total \in Nat /\ MaxTime \in Nat
  BY PlaylistAssumption
<1> DEFINE n == Position(p, t)
           end == p.started + n * p.duration + p.duration
<1>2. Slot(p, t).end = IF p.total # Endless /\ end > Until(p) THEN Until(p) ELSE end
  BY DEF Slot, Position
<1>3. n \in Nat
  BY <1>1, PositionFacts
<1>4. t + 1 < end
  <2> HIDE DEF n
  <2>1. end \in Nat /\ Until(p) \in Nat
    BY <1>1, <1>3 DEF Until
  <2> HIDE DEF end
  <2>2. QED
    BY <1>2, <2>1
<1>5. Position(p, t + 1) = n
  <2>1. CASE t + 1 < p.started
    BY <1>1, <2>1 DEF Position
  <2>2. CASE t + 1 = p.started
    <3>1. 0 \div p.duration = 0
      BY <1>1, Unique
    <3>2. QED
      BY <1>1, <2>2, <3>1 DEF Position
  <2>3. CASE t >= p.started
    <3> DEFINE m == t - p.started
    <3>1. m \in Nat /\ n = m \div p.duration /\ (t + 1) - p.started = m + 1
      BY <1>1, <2>3 DEF Position
    <3> HIDE DEF n
    <3>2. m % p.duration \in 0 .. p.duration - 1 /\ m = n * p.duration + (m % p.duration)
      BY <1>1, <3>1, Divided
    <3>3. m + 1 < n * p.duration + p.duration
      BY <1>1, <1>3, <1>4, <2>3
    <3>4. m % p.duration # p.duration - 1
      BY <1>1, <1>3, <3>1, <3>2, <3>3
    <3>5. (m + 1) \div p.duration = n
      BY <1>1, <3>1, <3>4, Following
    <3>6. ~(t + 1 < p.started)
      BY <1>1, <2>3
    <3>7. QED
      BY <3>1, <3>5, <3>6 DEF Position
  <2>4. QED
    BY <1>1, <2>1, <2>2, <2>3
<1>6. QED
  BY <1>5 DEF Slot, Position
LEMMA ScheduleInit == Init => Inv
<1> SUFFICES ASSUME Init PROVE Inv
  OBVIOUS
<1>1. playlist \in Playlists /\ now = playlist.started /\ now \in Nat /\ ClockSets \in Nat
  BY PlaylistAssumption DEF Init
<1>2. QED
  BY <1>1 DEF Init, Inv, ClockReaches, PlaysOnSchedule, TypeOK, OnSchedule

\* NextSlot reads the slot the clock is in.
LEMMA ScheduleRead ==
    ASSUME Inv, NextSlot
    PROVE  Inv'
<1>1. /\ playlist \in Playlists /\ now \in Nat /\ (now <= MaxTime \/ now = playlist.started)
      /\ UNCHANGED <<playlist, now, sets>> /\ ClockReaches' /\ TypeOK
  BY DEF Inv, ClockReaches, NextSlot, PlaysOnSchedule
<1>2. CASE Expired(playlist, now)
  <2>1. pc' = "over" /\ UNCHANGED <<slot, left, kept>>
    BY <1>2 DEF NextSlot
  <2>2. TypeOK'
    BY <1>1, <2>1 DEF TypeOK
  <2>3. QED
    BY <1>1, <2>1, <2>2 DEF Inv, PlaysOnSchedule, OnSchedule
<1>3. CASE ~Expired(playlist, now)
  <2>1. /\ slot' = Slot(playlist, now)
        /\ left' = slot'.end - now
        /\ pc' \in {"sit", "play"}
    BY <1>3 DEF NextSlot
  <2>2. /\ slot'.position \in Nat /\ slot'.image \in Range(playlist.images)
        /\ slot'.end \in Nat /\ now < slot'.end
    BY <1>1, <1>3, <2>1, SlotFacts
  <2>3. TypeOK'
    BY <1>1, <2>1, <2>2 DEF TypeOK
  <2>4. QED
    BY <1>1, <2>1, <2>2, <2>3 DEF Inv, PlaysOnSchedule, OnSchedule
<1>4. QED
  BY <1>2, <1>3

\* An item that fails sits out what its slot has left.
LEMMA ScheduleFails ==
    ASSUME Inv, Fails
    PROVE  Inv'
<1>1. /\ pc = "play" /\ pc' = "sit" /\ slot.end \in Nat /\ now \in Nat /\ left \in Nat
      /\ left' = IF slot.end > now THEN slot.end - now ELSE 0
      /\ UNCHANGED <<playlist, now, sets, slot, kept>>
      /\ TypeOK /\ OnSchedule /\ ClockReaches'
  BY DEF Inv, Fails, PlaysOnSchedule, TypeOK, ClockReaches
<1>2. left' \in Nat
  BY <1>1
<1>3. TypeOK'
  BY <1>1, <1>2 DEF TypeOK
<1>4. ASSUME kept PROVE left' = left
  BY <1>1, <1>4 DEF OnSchedule
<1>5. OnSchedule'
  BY <1>1, <1>4 DEF OnSchedule
<1>6. QED
  BY <1>1, <1>3, <1>5 DEF Inv, PlaysOnSchedule

\* Time passes: the clock and what is left move together.
LEMMA ScheduleTick ==
    ASSUME Inv, Tick
    PROVE  Inv'
<1>1. /\ playlist \in Playlists /\ now \in Nat /\ left \in Nat /\ MaxTime \in Nat
      /\ now < MaxTime /\ now' = now + 1 /\ left' = IF left > 0 THEN left - 1 ELSE 0
      /\ pc \in {"play", "sit"} => left > 0 /\ slot.end \in Nat
      /\ UNCHANGED <<playlist, sets, slot, kept, pc>>
      /\ TypeOK /\ OnSchedule
  BY PlaylistAssumption DEF Inv, Tick, PlaysOnSchedule, TypeOK, ClockReaches
<1>2. ClockReaches' /\ TypeOK'
  BY <1>1 DEF ClockReaches, TypeOK
<1>3. ASSUME pc \in {"play", "sit"}, kept
      PROVE  left' = slot.end - now' /\ (left' > 0 => slot = Slot(playlist, now'))
  <2>1. left = slot.end - now /\ slot = Slot(playlist, now) /\ left' = left - 1
    BY <1>1, <1>3 DEF OnSchedule
  <2>2. left' > 0 => now + 1 < slot.end /\ now + 1 <= MaxTime
    BY <1>1, <1>3, <2>1
  <2>3. left' > 0 => Slot(playlist, now + 1) = Slot(playlist, now)
    BY <1>1, <2>1, <2>2, SlotStays
  <2>4. QED
    BY <1>1, <1>3, <2>1, <2>3
<1>4. OnSchedule'
  BY <1>1, <1>3 DEF OnSchedule
<1>5. QED
  BY <1>1, <1>2, <1>4 DEF Inv, PlaysOnSchedule

LEMMA ScheduleStep ==
    ASSUME Inv, [Next]_vars
    PROVE  Inv'
<1>1. CASE NextSlot
  BY <1>1, ScheduleRead
<1>2. CASE Fails
  BY <1>2, ScheduleFails
<1>3. CASE Tick
  BY <1>3, ScheduleTick
<1>4. CASE Ends \/ Interrupted \/ Back
  BY <1>4 DEF Ends, Interrupted, Back, Inv, ClockReaches, PlaysOnSchedule, TypeOK, OnSchedule
<1>5. CASE SetClock
  <2>1. now' \in Nat /\ now' <= MaxTime /\ sets' \in 0 .. ClockSets
    BY <1>5, PlaylistAssumption DEF SetClock, Inv, PlaysOnSchedule, TypeOK
  <2>2. kept' = FALSE /\ UNCHANGED <<playlist, slot, left, pc>>
    BY <1>5 DEF SetClock
  <2>3. QED
    BY <2>1, <2>2 DEF Inv, ClockReaches, PlaysOnSchedule, TypeOK, OnSchedule
<1>6. CASE UNCHANGED vars
  BY <1>6 DEF vars, Inv, ClockReaches, PlaysOnSchedule, TypeOK, OnSchedule
<1>7. QED
  BY <1>1, <1>2, <1>3, <1>4, <1>5, <1>6 DEF Next, Worker

\* What plays is what the schedule says, for as long as nobody sets the clock: after any
\* interruption, and to the end of a slot, whole or cut by a total (worker.py:457-458).
THEOREM KeepsSchedule == Spec => []PlaysOnSchedule
<1>1. Inv => PlaysOnSchedule
  BY DEF Inv
<1>2. QED
  BY <1>1, ScheduleInit, ScheduleStep, PTL DEF Spec

\* The safety half of TotalIsKept: a playlist with a total is over when it says and not
\* before, and no item is begun that would play past it.
THEOREM NeverPastTotal == Spec => EndsOnTime
<1>1. ASSUME Inv, [Next]_vars, playlist.total # Endless
      PROVE  /\ pc' = "over" /\ pc # "over" => now >= Until(playlist)
             /\ pc = "next" /\ pc' = "play" => now + left' <= Until(playlist)
  <2>1. CASE NextSlot
    <3>1. /\ playlist \in Playlists /\ now \in Nat /\ (now <= MaxTime \/ now = playlist.started)
      BY <1>1 DEF Inv, ClockReaches
    <3>2. CASE Expired(playlist, now)
      BY <2>1, <3>2 DEF NextSlot, Expired
    <3>3. CASE ~Expired(playlist, now)
      <4>1. left' = Slot(playlist, now).end - now /\ pc' # "over"
        BY <2>1, <3>3 DEF NextSlot
      <4>2. Slot(playlist, now).end <= Until(playlist) /\ Slot(playlist, now).end \in Nat
        BY <1>1, <3>1, <3>3, SlotFacts
      <4>3. QED
        BY <3>1, <4>1, <4>2
    <3>4. QED
      BY <3>2, <3>3
  <2>2. CASE ~NextSlot
    BY <1>1, <2>2 DEF Next, Worker, Fails, Ends, Interrupted, Back, Tick, SetClock, vars
  <2>3. QED
    BY <2>1, <2>2
<1>2. QED
  BY <1>1, ScheduleInit, ScheduleStep, PTL DEF Spec, EndsOnTime
=============================================================================

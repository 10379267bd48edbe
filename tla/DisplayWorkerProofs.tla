------------------------ MODULE DisplayWorkerProofs ------------------------
(***************************************************************************)
(* What TLAPS proves of DisplayWorker for every queue size, every set of   *)
(* displays, idle screens and playlists, and any number of calls.          *)
(*                                                                         *)
(* The argument has layers, each an inductive invariant that uses the ones *)
(* before it: types and the thread's locals (Locals), the queue and its    *)
(* two events (Handed), the race for a playlist that is gone (Chosen), the *)
(* display that is held (Panel), and what is left lit (Lit).  The last     *)
(* section maps the queue to the hand-off it promises.                     *)
(***************************************************************************)
EXTENDS DisplayWorker, FiniteSetTheorems, SequenceTheorems, TLAPS

-----------------------------------------------------------------------------
(* The operators on the queue. *)

LEMMA PrefixOfSeq ==
    ASSUME NEW S, NEW q \in Seq(S), NEW m \in Nat, m <= Len(q)
    PROVE  /\ SubSeq(q, 1, m) \in Seq(S)
           /\ Len(SubSeq(q, 1, m)) = m
           /\ \A i \in 1..m : SubSeq(q, 1, m)[i] = q[i]
OBVIOUS

\* Giving way removes at most the last entry.
LEMMA KeptType ==
    ASSUME NEW q \in Seq(Entry)
    PROVE  /\ Kept(q) \in Seq(Entry)
           /\ Len(Kept(q)) \in {Len(q), Len(q) - 1}
           /\ \A i \in 1..Len(Kept(q)) : i \in 1..Len(q) /\ Kept(q)[i] = q[i]
<1>1. CASE GivesWay(q)
  <2>1. Kept(q) = SubSeq(q, 1, Len(q) - 1) /\ q # <<>>
    BY <1>1 DEF Kept, GivesWay
  <2>2. Len(q) - 1 \in Nat /\ Len(q) - 1 <= Len(q)
    BY <2>1
  <2>3. /\ SubSeq(q, 1, Len(q) - 1) \in Seq(Entry)
        /\ Len(SubSeq(q, 1, Len(q) - 1)) = Len(q) - 1
        /\ \A i \in 1..Len(q) - 1 : SubSeq(q, 1, Len(q) - 1)[i] = q[i]
    BY <2>2, PrefixOfSeq, Zenon
  <2>4. Kept(q) \in Seq(Entry) /\ Len(Kept(q)) = Len(q) - 1
        /\ \A i \in 1..Len(q) - 1 : Kept(q)[i] = q[i]
    BY <2>1, <2>3
  <2>5. QED
    BY <2>2, <2>4
<1>2. CASE ~GivesWay(q)
  <2>1. Kept(q) = q
    BY <1>2 DEF Kept
  <2>2. QED
    BY <2>1
<1>3. QED
  BY <1>1, <1>2

\* What submit() leaves in the queue: the last entries of the old one, in
\* their order, and the new entry last; never more than QueueSize.
LEMMA EnqueueKeeps ==
    ASSUME TypeOK, NEW e \in Entry, Enqueue(e)
    PROVE  /\ pending' \in Seq(Entry)
           /\ pending' # <<>>
           /\ Len(pending') <= QueueSize
           /\ pending'[Len(pending')] = e
           /\ \E over \in Nat :
                 /\ Len(pending') = Len(Kept(pending)) + 1 - over
                 /\ \A i \in 1..Len(pending') - 1 :
                       /\ i + over \in 1..Len(Kept(pending))
                       /\ pending'[i] = Kept(pending)[i + over]
<1> DEFINE full == Append(Kept(pending), e)
           over == Excess(Len(full))
<1>1. QueueSize \in Nat \ {0} /\ pending \in Seq(Entry)
  BY WorkerAssumption DEF TypeOK
<1>2. Kept(pending) \in Seq(Entry)
  BY <1>1, KeptType
<1>3. /\ full \in Seq(Entry)
      /\ Len(full) = Len(Kept(pending)) + 1
      /\ full[Len(full)] = e
      /\ \A i \in 1..Len(Kept(pending)) : full[i] = Kept(pending)[i]
  BY <1>2
<1>4. over \in Nat /\ over < Len(full) /\ Len(full) - over <= QueueSize
  BY <1>1, <1>2, <1>3 DEF Excess
<1>5. pending' = SubSeq(full, over + 1, Len(full))
  BY DEF Enqueue
<1> HIDE DEF full, over
<1>6. /\ pending' \in Seq(Entry)
      /\ Len(pending') = Len(full) - over
      /\ \A i \in 1..Len(pending') : pending'[i] = full[i + over]
  BY <1>2, <1>3, <1>4, <1>5
<1>7. Len(Kept(pending)) \in Nat
  BY <1>2
<1>8. \A i \in 1..Len(pending') - 1 :
         /\ i + over \in 1..Len(Kept(pending))
         /\ pending'[i] = Kept(pending)[i + over]
  BY <1>3, <1>4, <1>6, <1>7
<1>9. pending'[Len(pending')] = e
  BY <1>3, <1>4, <1>6, <1>7
<1>10. Len(pending') = Len(Kept(pending)) + 1 - over
  BY <1>3, <1>4, <1>6, <1>7
<1>11. Len(pending') \in Nat \ {0} /\ Len(pending') <= QueueSize
  BY <1>3, <1>4, <1>6, <1>7
<1>12. pending' # <<>>
  BY <1>6, <1>11
<1>13. \E k \in Nat :
          /\ Len(pending') = Len(Kept(pending)) + 1 - k
          /\ \A i \in 1..Len(pending') - 1 :
                /\ i + k \in 1..Len(Kept(pending))
                /\ pending'[i] = Kept(pending)[i + k]
  BY <1>4, <1>8, <1>10
<1>14. QED
  BY <1>6, <1>9, <1>11, <1>12, <1>13

-----------------------------------------------------------------------------
(* Types.  The type invariant in parts, each with what it needs; the       *)
(* locals of the thread are only typed where it uses them.                 *)

QueueType == pending \in Seq(Entry) /\ Len(pending) <= QueueSize
LabelType == pc \in Labels
FlagType ==
    /\ wake \in BOOLEAN /\ cut \in BOOLEAN /\ stopping \in BOOLEAN
    /\ idle_active \in BOOLEAN /\ playlist_active \in BOOLEAN /\ then_due \in BOOLEAN
    /\ made \subseteq Playlists /\ expired \subseteq made
    /\ stopper \in {"none", "joining", "returned"}
CountType ==
    /\ superseded \in Nat
    /\ calls \in Nat /\ submitted \in Nat /\ taken \in Nat
    /\ takenAt \in Nat /\ blankedAt \in Nat /\ playlistAt \in Nat
ScreenType ==
    /\ idle \in Faces \cup {None} /\ playlist \in Playlists \cup {None}
    /\ showing \in Entry \cup {None}
    /\ panel \in Entry \cup Faces \cup Playlists \cup {Dark}
    /\ config \in Entry \cup {None}
    /\ captured \in Faces \cup Playlists \cup {None}
Locals ==
    /\ pc = "show" => config \in Entry
    /\ pc \in {"mark", "draw", "held", "finite", "cut", "shown", "then"}
          => config \in Entry /\ config.what \in Displays
    /\ pc \in {"idle", "clock"} => captured \in Faces \cup {None}
    /\ pc \in {"playlist", "slot"} => captured \in Playlists \cup {None}
    /\ pc \in {"item", "playing", "sitting out"} => captured \in Playlists

LEMMA TypeParts ==
    TypeOK <=> QueueType /\ LabelType /\ FlagType /\ CountType /\ ScreenType
BY DEF TypeOK, QueueType, LabelType, FlagType, CountType, ScreenType

\* A submitted display is a queue entry.
LEMMA EntryOfDisplay ==
    ASSUME TypeOK, NEW d \in Displays \cup {Blank}
    PROVE  [n |-> calls + 1, what |-> d] \in Entry
BY DEF TypeOK, Entry

\* Counting displays in a queue gives a natural number.
LEMMA WaitingType ==
    ASSUME NEW q \in Seq(Entry)
    PROVE  Waiting(q) \in Nat
<1>1. IsFiniteSet(1..Len(q))
  BY FS_Interval
<1>2. IsFiniteSet({i \in DOMAIN q : q[i].what # Blank})
  BY <1>1, FS_Subset
<1>3. QED
  BY <1>2, FS_CardinalityType DEF Waiting

\* What submit() adds to `dropped` is a natural number.
LEMMA EnqueueCounts ==
    ASSUME TypeOK, NEW e \in Entry, Enqueue(e)
    PROVE  superseded' \in Nat
<1> DEFINE full == Append(Kept(pending), e)
           over == Excess(Len(full))
<1>1. pending \in Seq(Entry) /\ QueueSize \in Nat \ {0}
  BY WorkerAssumption DEF TypeOK
<1>2. full \in Seq(Entry) /\ Len(full) \in Nat
  BY <1>1, KeptType
<1>3. over \in Nat /\ over <= Len(full)
  BY <1>1, <1>2 DEF Excess
<1>4. SubSeq(full, 1, over) \in Seq(Entry)
  <2> HIDE DEF full, over
  <2>1. QED
    BY <1>2, <1>3
<1>5. Waiting(SubSeq(full, 1, over)) \in Nat
  BY <1>4, WaitingType
<1>6. superseded' = superseded + (IF GivesWay(pending) THEN 1 ELSE 0)
                               + Waiting(SubSeq(full, 1, over))
  BY DEF Enqueue
<1> HIDE DEF full, over
<1>7. QED
  BY <1>5, <1>6 DEF TypeOK

\* Only four operations touch the queue: every other step leaves it alone, and
\* may only set the wake.
LEMMA OnlyFive ==
    ASSUME [Next]_vars
    PROVE  \/ \E d \in Displays : Submit(d)
           \/ BlankPanel \/ Stop \/ TakeNothing \/ TakeNext
           \/ /\ UNCHANGED <<queue, cut, stopping, takes, calls, submitted, blankedAt>>
              /\ wake' = wake \/ wake' = TRUE
<1> DEFINE Quiet == /\ UNCHANGED <<queue, cut, stopping, takes, calls, submitted, blankedAt>>
                    /\ wake' = wake \/ wake' = TRUE
<1> USE DEF queue, events, takes, requests
<1>1. ASSUME NEW f \in Faces \cup {None}, SetIdle(f) PROVE Quiet
  BY <1>1 DEF SetIdle
<1>2. ASSUME NEW p \in Playlists, SetPlaylist(p) PROVE Quiet
  BY <1>2 DEF SetPlaylist
<1>3. ASSUME StopPlaylist PROVE Quiet
  BY <1>3 DEF StopPlaylist
<1>4. ASSUME StopReturns PROVE Quiet
  BY <1>4 DEF StopReturns
<1>5. ASSUME NEW p \in Playlists, RunsOut(p) PROVE Quiet
  BY <1>5 DEF RunsOut
<1>6. ASSUME Run PROVE TakeNothing \/ TakeNext \/ Quiet
  BY <1>6
  DEF Run, CheckStop, FreeForPlaylist, PlaylistDue, IdleDue, FreeForIdle, Poll,
      ForgetShowing, Die, Jump, rest
<1>7. ASSUME Show PROVE Quiet
  BY <1>7
  DEF Show, ShowBlank, Darken, Localise, FetchFails, FetchRaises, MarkShowing, Draw,
      DrawFails, HeldEnds, FiniteEnds, FiniteCut, ForgetCut, Shown, ShowThen, Jump, rest
<1>8. ASSUME RunIdleScreen PROVE Quiet
  BY <1>8
  DEF RunIdleScreen, IdleOn, IdleCheck, DrawClock, ClockFails, IdleBroken, IdleOff, Jump,
      rest
<1>9. ASSUME RunPlaylist PROVE Quiet
  BY <1>9
  DEF RunPlaylist, PlaylistOn, PlaylistCheck, NextSlot, PlayItem, SkipItem, ItemCut,
      ItemEnds, PlaylistOff, Jump, rest
<1>10. CASE UNCHANGED vars
  BY <1>10 DEF vars
<1>11. QED
  BY <1>1, <1>2, <1>3, <1>4, <1>5, <1>6, <1>7, <1>8, <1>9, <1>10 DEF Next, Client, Worker

LEMMA TypeInit == Init => TypeOK /\ Locals
<1> SUFFICES ASSUME Init PROVE TypeOK /\ Locals
  OBVIOUS
<1>1. QueueType
  BY WorkerAssumption DEF Init, QueueType
<1>2. LabelType /\ FlagType /\ CountType /\ ScreenType
  BY DEF Init, LabelType, Labels, FlagType, CountType, ScreenType
<1>3. QED
  BY <1>1, <1>2, TypeParts DEF Init, Locals

LEMMA QueueStep ==
    ASSUME TypeOK, [Next]_vars
    PROVE  QueueType'
<1>q. QueueSize \in Nat \ {0} /\ pending \in Seq(Entry) /\ Len(pending) <= QueueSize
  BY WorkerAssumption DEF TypeOK
<1>1. ASSUME NEW d \in Displays, Submit(d) PROVE QueueType'
  <2>1. [n |-> calls + 1, what |-> d] \in Entry
    BY EntryOfDisplay
  <2>2. QED
    BY <1>1, <2>1, EnqueueKeeps DEF Submit, QueueType
<1>2. CASE BlankPanel
  <2>1. [n |-> calls + 1, what |-> Blank] \in Entry
    BY EntryOfDisplay
  <2>2. pending' \in Seq(Entry) /\ Len(pending') = 1
    BY <1>2, <2>1 DEF BlankPanel
  <2>3. QED
    BY <1>q, <2>2 DEF QueueType
<1>3. CASE Stop
  <2>1. pending' \in Seq(Entry) /\ Len(pending') = 0
    BY <1>3 DEF Stop
  <2>2. QED
    BY <1>q, <2>1 DEF QueueType
<1>4. CASE TakeNext
  <2>1. pending' = Tail(pending) /\ pending # <<>>
    BY <1>4 DEF TakeNext
  <2>2. pending' \in Seq(Entry) /\ Len(pending') = Len(pending) - 1 /\ Len(pending) \in Nat
    BY <1>q, <2>1
  <2>3. Len(pending') <= QueueSize
    BY <1>q, <2>2
  <2>4. QED
    BY <2>2, <2>3 DEF QueueType
<1>5. CASE TakeNothing \/ UNCHANGED queue
  BY <1>q, <1>5 DEF QueueType, TakeNothing, queue
<1>6. QED
  BY <1>1, <1>2, <1>3, <1>4, <1>5, OnlyFive

LEMMA LabelStep ==
    ASSUME LabelType, [Next]_vars
    PROVE  LabelType'
<1> USE DEF LabelType, Labels, Goto, Jump, thread
<1>1. ASSUME NEW d \in Displays, Submit(d) PROVE LabelType'
  BY <1>1 DEF Submit
<1>2. ASSUME BlankPanel PROVE LabelType'
  BY <1>2 DEF BlankPanel
<1>3. ASSUME NEW f \in Faces \cup {None}, SetIdle(f) PROVE LabelType'
  BY <1>3 DEF SetIdle
<1>4. ASSUME NEW p \in Playlists, SetPlaylist(p) \/ RunsOut(p) PROVE LabelType'
  BY <1>4 DEF SetPlaylist, RunsOut
<1>5. ASSUME StopPlaylist \/ Stop \/ StopReturns PROVE LabelType'
  BY <1>5 DEF StopPlaylist, Stop, StopReturns
<1>6. ASSUME Run PROVE LabelType'
  BY <1>6
  DEF Run, CheckStop, TakeNothing, TakeNext, FreeForPlaylist, PlaylistDue, IdleDue,
      FreeForIdle, Poll, ForgetShowing, Die, WakeAfter, SpendCut
<1>7. ASSUME Show PROVE LabelType'
  BY <1>7
  DEF Show, ShowBlank, Darken, Localise, FetchFails, FetchRaises, MarkShowing, Draw,
      DrawFails, HeldEnds, FiniteEnds, FiniteCut, ForgetCut, Shown, ShowThen, AfterShow
<1>8. ASSUME RunIdleScreen PROVE LabelType'
  BY <1>8
  DEF RunIdleScreen, IdleOn, IdleCheck, DrawClock, ClockFails, IdleBroken, IdleOff
<1>9. ASSUME RunPlaylist PROVE LabelType'
  BY <1>9
  DEF RunPlaylist, PlaylistOn, PlaylistCheck, NextSlot, PlayItem, SkipItem, ItemCut,
      ItemEnds, PlaylistOff
<1>10. CASE UNCHANGED vars
  BY <1>10 DEF vars
<1>11. QED
  BY <1>1, <1>2, <1>3, <1>4, <1>5, <1>6, <1>7, <1>8, <1>9, <1>10 DEF Next, Client, Worker

LEMMA FlagStep ==
    ASSUME FlagType, [Next]_vars
    PROVE  FlagType'
<1> USE DEF FlagType, Jump, rest, events, active, thread, locals, world
<1>1. ASSUME NEW d \in Displays, Submit(d) PROVE FlagType'
  BY <1>1 DEF Submit
<1>2. ASSUME BlankPanel PROVE FlagType'
  BY <1>2 DEF BlankPanel
<1>3. ASSUME NEW f \in Faces \cup {None}, SetIdle(f) PROVE FlagType'
  BY <1>3 DEF SetIdle
<1>4. ASSUME NEW p \in Playlists, SetPlaylist(p) \/ RunsOut(p) PROVE FlagType'
  BY <1>4 DEF SetPlaylist, RunsOut
<1>5. ASSUME StopPlaylist \/ Stop \/ StopReturns PROVE FlagType'
  BY <1>5 DEF StopPlaylist, Stop, StopReturns
<1>6. ASSUME Run PROVE FlagType'
  BY <1>6
  DEF Run, CheckStop, TakeNothing, TakeNext, FreeForPlaylist, PlaylistDue, IdleDue,
      FreeForIdle, Poll, ForgetShowing, Die, WakeAfter, SpendCut
<1>7. ASSUME Show PROVE FlagType'
  BY <1>7
  DEF Show, ShowBlank, Darken, Localise, FetchFails, FetchRaises, MarkShowing, Draw,
      DrawFails, HeldEnds, FiniteEnds, FiniteCut, ForgetCut, Shown, ShowThen, AfterShow
<1>8. ASSUME RunIdleScreen PROVE FlagType'
  BY <1>8
  DEF RunIdleScreen, IdleOn, IdleCheck, DrawClock, ClockFails, IdleBroken, IdleOff
<1>9. ASSUME RunPlaylist PROVE FlagType'
  BY <1>9
  DEF RunPlaylist, PlaylistOn, PlaylistCheck, NextSlot, PlayItem, SkipItem, ItemCut,
      ItemEnds, PlaylistOff
<1>10. CASE UNCHANGED vars
  BY <1>10 DEF vars
<1>11. QED
  BY <1>1, <1>2, <1>3, <1>4, <1>5, <1>6, <1>7, <1>8, <1>9, <1>10 DEF Next, Client, Worker

LEMMA CountStep ==
    ASSUME TypeOK, [Next]_vars
    PROVE  CountType'
<1>t. CountType /\ pending \in Seq(Entry)
  BY TypeParts DEF TypeOK
<1>w. Waiting(pending) \in Nat
  BY <1>t, WaitingType
<1> USE DEF CountType, queue, takes, requests
<1>1. ASSUME NEW d \in Displays, Submit(d) PROVE CountType'
  <2>1. superseded' \in Nat
    BY <1>1, EntryOfDisplay, EnqueueCounts DEF Submit
  <2>2. QED
    BY <1>t, <1>1, <2>1 DEF Submit
<1>2. ASSUME BlankPanel PROVE CountType'
  BY <1>t, <1>w, <1>2 DEF BlankPanel, ClearPending
<1>3. ASSUME NEW f \in Faces \cup {None}, SetIdle(f) PROVE CountType'
  BY <1>t, <1>3 DEF SetIdle
<1>4. ASSUME NEW p \in Playlists, SetPlaylist(p) \/ RunsOut(p) PROVE CountType'
  BY <1>t, <1>4 DEF SetPlaylist, RunsOut
<1>5. ASSUME Stop PROVE CountType'
  BY <1>t, <1>w, <1>5 DEF Stop, ClearPending
<1>6. ASSUME StopPlaylist \/ StopReturns PROVE CountType'
  BY <1>t, <1>6 DEF StopPlaylist, StopReturns
<1>7. ASSUME TakeNext PROVE CountType'
  <2>1. Head(pending) \in Entry /\ <<Head(pending)>> \in Seq(Entry)
    BY <1>t, <1>7 DEF TakeNext
  <2>2. Head(pending).n \in Nat /\ Waiting(<<Head(pending)>>) \in Nat
    BY <2>1, WaitingType DEF Entry
  <2>3. QED
    BY <1>t, <1>7, <2>2 DEF TakeNext
<1>8. ASSUME Run, ~TakeNext PROVE CountType'
  BY <1>t, <1>8
  DEF Run, CheckStop, TakeNothing, FreeForPlaylist, PlaylistDue, IdleDue, FreeForIdle,
      Poll, ForgetShowing, Die, Jump, rest
<1>9. ASSUME Show PROVE CountType'
  BY <1>t, <1>9
  DEF Show, ShowBlank, Darken, Localise, FetchFails, FetchRaises, MarkShowing, Draw,
      DrawFails, HeldEnds, FiniteEnds, FiniteCut, ForgetCut, Shown, ShowThen, Jump, rest
<1>10. ASSUME RunIdleScreen PROVE CountType'
  BY <1>t, <1>10
  DEF RunIdleScreen, IdleOn, IdleCheck, DrawClock, ClockFails, IdleBroken, IdleOff, Jump,
      rest
<1>11. ASSUME RunPlaylist PROVE CountType'
  BY <1>t, <1>11
  DEF RunPlaylist, PlaylistOn, PlaylistCheck, NextSlot, PlayItem, SkipItem, ItemCut,
      ItemEnds, PlaylistOff, Jump, rest
<1>12. CASE UNCHANGED vars
  BY <1>t, <1>12 DEF vars
<1>13. QED
  BY <1>1, <1>2, <1>3, <1>4, <1>5, <1>6, <1>7, <1>8, <1>9, <1>10, <1>11, <1>12 DEF Next, Client, Worker

LEMMA ScreenStep ==
    ASSUME TypeOK, Locals, [Next]_vars
    PROVE  (ScreenType /\ Locals)'
<1>t. ScreenType /\ pending \in Seq(Entry)
  BY TypeParts DEF TypeOK
<1> USE DEF ScreenType, Locals, Goto, Jump, rest, standby, active, thread, locals, world
<1>1. ASSUME NEW d \in Displays, Submit(d) PROVE (ScreenType /\ Locals)'
  BY <1>t, <1>1 DEF Submit
<1>2. ASSUME BlankPanel PROVE (ScreenType /\ Locals)'
  BY <1>t, <1>2 DEF BlankPanel
<1>3. ASSUME NEW f \in Faces \cup {None}, SetIdle(f) PROVE (ScreenType /\ Locals)'
  BY <1>t, <1>3 DEF SetIdle
<1>4. ASSUME NEW p \in Playlists, SetPlaylist(p) \/ RunsOut(p) PROVE (ScreenType /\ Locals)'
  BY <1>t, <1>4 DEF SetPlaylist, RunsOut
<1>5. ASSUME StopPlaylist \/ Stop \/ StopReturns PROVE (ScreenType /\ Locals)'
  BY <1>t, <1>5 DEF StopPlaylist, Stop, StopReturns
<1>6. ASSUME TakeNext PROVE (ScreenType /\ Locals)'
  <2>1. Head(pending) \in Entry
    BY <1>t, <1>6 DEF TakeNext
  <2>2. QED
    BY <1>t, <1>6, <2>1 DEF TakeNext
<1>7. ASSUME Localise PROVE (ScreenType /\ Locals)'
  BY <1>t, <1>7 DEF Localise, Entry
<1>8. ASSUME ShowThen PROVE (ScreenType /\ Locals)'
  <2>1. CASE Then[config.what] = None \/ pending # <<>> \/ stopping
    BY <1>t, <1>8, <2>1 DEF ShowThen
  <2>2. CASE ~(Then[config.what] = None \/ pending # <<>> \/ stopping)
    <3>1. config \in Entry /\ config.what \in Displays
      BY <1>8 DEF ShowThen
    <3>2. Then[config.what] \in Displays
      BY <2>2, <3>1, WorkerAssumption
    <3>3. [config EXCEPT !.what = Then[config.what]] \in Entry
      BY <3>1, <3>2 DEF Entry
    <3>4. QED
      BY <1>t, <1>8, <2>2, <3>3 DEF ShowThen
  <2>3. QED
    BY <2>1, <2>2
<1>9. ASSUME Run, ~TakeNext PROVE (ScreenType /\ Locals)'
  <2>1. CASE CheckStop
    BY <1>t, <2>1 DEF CheckStop
  <2>2. CASE TakeNothing
    BY <1>t, <2>2 DEF TakeNothing
  <2>3. CASE FreeForPlaylist
    BY <1>t, <2>3 DEF FreeForPlaylist
  <2>4. CASE PlaylistDue
    BY <1>t, <2>4 DEF PlaylistDue
  <2>5. CASE IdleDue
    BY <1>t, <2>5 DEF IdleDue
  <2>6. CASE FreeForIdle
    BY <1>t, <2>6 DEF FreeForIdle
  <2>7. CASE Poll
    BY <1>t, <2>7 DEF Poll
  <2>8. CASE ForgetShowing
    BY <1>t, <2>8 DEF ForgetShowing
  <2>9. CASE Die
    BY <1>t, <2>9 DEF Die
  <2>10. QED
    BY <1>9, <2>1, <2>2, <2>3, <2>4, <2>5, <2>6, <2>7, <2>8, <2>9 DEF Run
<1>10. ASSUME Show, ~Localise, ~ShowThen PROVE (ScreenType /\ Locals)'
  <2>1. CASE ShowBlank
    BY <1>t, <2>1 DEF ShowBlank
  <2>2. CASE Darken
    BY <1>t, <2>2 DEF Darken
  <2>3. CASE FetchFails
    BY <1>t, <2>3, WorkerAssumption DEF FetchFails, AfterShow
  <2>4. CASE FetchRaises
    BY <1>t, <2>4 DEF FetchRaises
  <2>5. CASE MarkShowing
    BY <1>t, <2>5 DEF MarkShowing
  <2>6. CASE Draw
    BY <1>t, <2>6 DEF Draw
  <2>7. CASE DrawFails
    BY <1>t, <2>7 DEF DrawFails
  <2>8. CASE HeldEnds
    BY <1>t, <2>8 DEF HeldEnds
  <2>9. CASE FiniteEnds
    BY <1>t, <2>9 DEF FiniteEnds
  <2>10. CASE FiniteCut
    BY <1>t, <2>10 DEF FiniteCut
  <2>11. CASE ForgetCut
    BY <1>t, <2>11 DEF ForgetCut
  <2>12. CASE Shown
    BY <1>t, <2>12 DEF Shown, AfterShow
  <2>13. QED
    BY <1>10, <2>1, <2>2, <2>3, <2>4, <2>5, <2>6, <2>7, <2>8, <2>9, <2>10, <2>11, <2>12 DEF Show
<1>11. ASSUME RunIdleScreen PROVE (ScreenType /\ Locals)'
  <2>1. CASE IdleOn
    BY <1>t, <2>1 DEF IdleOn
  <2>2. CASE IdleCheck
    BY <1>t, <2>2 DEF IdleCheck
  <2>3. CASE DrawClock
    BY <1>t, <2>3 DEF DrawClock
  <2>4. CASE ClockFails
    BY <1>t, <2>4 DEF ClockFails
  <2>5. CASE IdleBroken
    BY <1>t, <2>5 DEF IdleBroken
  <2>6. CASE IdleOff
    BY <1>t, <2>6 DEF IdleOff
  <2>7. QED
    BY <1>11, <2>1, <2>2, <2>3, <2>4, <2>5, <2>6 DEF RunIdleScreen
<1>12. ASSUME RunPlaylist PROVE (ScreenType /\ Locals)'
  <2>1. CASE PlaylistOn
    BY <1>t, <2>1 DEF PlaylistOn
  <2>2. CASE PlaylistCheck
    BY <1>t, <2>2 DEF PlaylistCheck
  <2>3. CASE NextSlot
    BY <1>t, <2>3 DEF NextSlot
  <2>4. CASE PlayItem
    BY <1>t, <2>4 DEF PlayItem
  <2>5. CASE SkipItem
    BY <1>t, <2>5 DEF SkipItem
  <2>6. CASE ItemCut
    BY <1>t, <2>6 DEF ItemCut
  <2>7. CASE ItemEnds
    BY <1>t, <2>7 DEF ItemEnds
  <2>8. CASE PlaylistOff
    BY <1>t, <2>8 DEF PlaylistOff
  <2>9. QED
    BY <1>12, <2>1, <2>2, <2>3, <2>4, <2>5, <2>6, <2>7, <2>8 DEF RunPlaylist
<1>13. CASE UNCHANGED vars
  BY <1>t, <1>13 DEF vars
<1>14. QED
  BY <1>1, <1>2, <1>3, <1>4, <1>5, <1>6, <1>7, <1>8, <1>9, <1>10, <1>11, <1>12, <1>13
  DEF Next, Client, Worker

\* Every variable keeps its type in every run; in particular no call of submit()
\* leaves more than DISPLAY_QUEUE entries behind.
THEOREM TypeCorrect == Spec => []TypeOK
<1>1. TypeOK /\ Locals /\ [Next]_vars => (TypeOK /\ Locals)'
  <2> SUFFICES ASSUME TypeOK, Locals, [Next]_vars PROVE TypeOK' /\ Locals'
    OBVIOUS
  <2>1. QueueType' /\ CountType'
    BY QueueStep, CountStep
  <2>2. LabelType' /\ FlagType'
    BY TypeParts, LabelStep, FlagStep
  <2>3. ScreenType' /\ Locals'
    BY ScreenStep
  <2>4. QED
    BY <2>1, <2>2, <2>3 DEF TypeOK, QueueType, LabelType, FlagType, CountType, ScreenType
<1>2. QED
  BY <1>1, TypeInit, PTL DEF Spec

-----------------------------------------------------------------------------
(* The queue and its events.  Handed is inductive: it ties every entry to  *)
(* the call that made it, and the cut to the blank() that set it.          *)

Handed ==
    /\ NoLostWakeup
    /\ QueueShape
    /\ InOrder
    /\ NewestSurvives
    /\ takenAt <= calls /\ blankedAt <= calls
    /\ \A i \in DOMAIN pending : pending[i].n <= calls
    /\ cut /\ ~stopping => blankedAt > takenAt

\* Where the entries of the queue come from after a submit(): all but the last
\* were in it before, in the same order, and none of them is held.
LEMMA EnqueueFrom ==
    ASSUME TypeOK, QueueShape, NEW e \in Entry, Enqueue(e)
    PROVE  \E over \in Nat : \A i \in 1..Len(pending') - 1 :
               /\ i + over \in 1..Len(pending)
               /\ pending'[i] = pending[i + over]
               /\ ~IsHeld(pending'[i])
<1>1. pending \in Seq(Entry)
  BY DEF TypeOK
<1>2. PICK over \in Nat : \A i \in 1..Len(pending') - 1 :
          /\ i + over \in 1..Len(Kept(pending))
          /\ pending'[i] = Kept(pending)[i + over]
  BY EnqueueKeeps
<1>3. \A j \in 1..Len(Kept(pending)) : j \in 1..Len(pending) /\ Kept(pending)[j] = pending[j]
  BY <1>1, KeptType
<1>4. \A j \in 1..Len(Kept(pending)) : ~IsHeld(Kept(pending)[j])
  <2> SUFFICES ASSUME NEW j \in 1..Len(Kept(pending)), IsHeld(pending[j])
               PROVE  FALSE
    BY <1>3
  <2>1. j \in 1..Len(pending) /\ j = Len(pending)
    BY <1>1, <1>3 DEF QueueShape
  <2>2. GivesWay(pending) /\ Len(pending) \in Nat \ {0}
    BY <1>1, <2>1 DEF GivesWay
  <2>3. Len(Kept(pending)) = Len(pending) - 1
    BY <1>1, <2>2, PrefixOfSeq DEF Kept
  <2>4. QED
    BY <2>1, <2>2, <2>3
<1>5. QED
  BY <1>2, <1>3, <1>4

LEMMA HandedInit == Init => Handed
BY DEF Init, Handed, NoLostWakeup, QueueShape, InOrder, NewestSurvives

LEMMA HandedSubmit ==
    ASSUME TypeOK, TypeOK', Handed, NEW d \in Displays, Submit(d)
    PROVE  Handed'
<1> DEFINE e == [n |-> calls + 1, what |-> d]
<1>1. e \in Entry /\ e.n = calls + 1 /\ e.what # Blank /\ calls \in Nat
  BY EntryOfDisplay, WorkerAssumption DEF TypeOK
<1>2. Enqueue(e) /\ calls' = calls + 1 /\ wake'
      /\ UNCHANGED <<cut, stopping, takenAt, blankedAt>>
  BY DEF Submit, takes
<1> HIDE DEF e
<1>3. pending' \in Seq(Entry) /\ pending' # <<>> /\ pending'[Len(pending')] = e
  BY <1>1, <1>2, EnqueueKeeps
<1>4. PICK over \in Nat : \A i \in 1..Len(pending') - 1 :
          /\ i + over \in 1..Len(pending)
          /\ pending'[i] = pending[i + over]
          /\ ~IsHeld(pending'[i])
  BY <1>1, <1>2, EnqueueFrom DEF Handed
<1>p. pending \in Seq(Entry) /\ takenAt \in Nat /\ blankedAt \in Nat
  BY DEF TypeOK
<1>n. Len(pending') \in Nat /\ Len(pending') # 0
  BY <1>3
<1>5. /\ takenAt \in Nat /\ blankedAt \in Nat
      /\ DOMAIN pending = 1..Len(pending) /\ DOMAIN pending' = 1..Len(pending')
      /\ \A i \in 1..Len(pending) : pending[i].n \in Nat
  <2>1. \A i \in 1..Len(pending) : pending[i] \in Entry
    BY <1>p
  <2>2. \A x \in Entry : x.n \in Nat
    BY DEF Entry
  <2>3. QED
    BY <1>3, <1>p, <2>1, <2>2
<1>6. \A i \in 1..Len(pending') : i = Len(pending') \/ i \in 1..Len(pending') - 1
  BY <1>n
<1>7. \A i \in 1..Len(pending') - 1 :
          /\ pending'[i].n <= calls /\ pending'[i].n > takenAt /\ pending'[i].n >= blankedAt
          /\ pending'[i].what = Blank => i = 1
  <2> TAKE i \in 1..Len(pending') - 1
  <2>1. i + over \in 1..Len(pending) /\ pending'[i] = pending[i + over]
    BY <1>4
  <2>2. pending'[i].what = Blank => i + over = 1
    BY <1>5, <2>1 DEF Handed, QueueShape
  <2>3. QED
    BY <1>5, <2>1, <2>2 DEF Handed, InOrder
<1>8. QueueShape'
  BY <1>1, <1>3, <1>4, <1>5, <1>6, <1>7 DEF QueueShape
<1>9. \A i, j \in 1..Len(pending') : i < j => pending'[i].n < pending'[j].n
  <2> SUFFICES ASSUME NEW i \in 1..Len(pending'), NEW j \in 1..Len(pending'), i < j
               PROVE  pending'[i].n < pending'[j].n
    OBVIOUS
  <2>1. i \in 1..Len(pending') - 1
    BY <1>n
  <2>2. CASE j = Len(pending')
    BY <1>1, <1>3, <1>4, <1>5, <1>7, <2>1, <2>2
  <2>3. CASE j # Len(pending')
    <3>1. j \in 1..Len(pending') - 1
      BY <1>6, <2>3
    <3>2. i + over \in 1..Len(pending) /\ j + over \in 1..Len(pending) /\ i + over < j + over
      BY <1>4, <2>1, <3>1
    <3>3. pending[i + over].n < pending[j + over].n
      BY <1>5, <3>2 DEF Handed, InOrder
    <3>4. QED
      BY <1>4, <2>1, <3>1, <3>3
  <2>4. QED
    BY <2>2, <2>3
<1>10. takenAt <= calls /\ blankedAt <= calls
  BY DEF Handed
<1>11. \A i \in 1..Len(pending') :
          pending'[i].n > takenAt /\ pending'[i].n >= blankedAt /\ pending'[i].n <= calls + 1
  <2> SUFFICES ASSUME NEW i \in 1..Len(pending')
               PROVE  pending'[i].n > takenAt /\ pending'[i].n >= blankedAt
                      /\ pending'[i].n <= calls + 1
    OBVIOUS
  <2>1. CASE i = Len(pending')
    BY <1>1, <1>3, <1>5, <1>10, <2>1
  <2>2. CASE i \in 1..Len(pending') - 1
    <3>1. pending'[i].n \in Nat
      BY <1>4, <1>5, <2>2
    <3>2. QED
      BY <1>1, <1>5, <1>7, <2>2, <3>1
  <2>3. QED
    BY <1>6, <2>1, <2>2
<1>o. InOrder'
  BY <1>2, <1>5, <1>9, <1>11 DEF InOrder
<1>12. NoLostWakeup' /\ NewestSurvives'
  BY <1>1, <1>2, <1>3 DEF NoLostWakeup, NewestSurvives
<1>13. takenAt' <= calls' /\ blankedAt' <= calls' /\ (cut' /\ ~stopping' => blankedAt' > takenAt')
  BY <1>1, <1>2, <1>5, <1>10 DEF Handed
<1>14. QED
  BY <1>2, <1>5, <1>8, <1>o, <1>11, <1>12, <1>13 DEF Handed

LEMMA HandedTake ==
    ASSUME TypeOK, Handed, TakeNext
    PROVE  Handed'
<1>1. /\ pending \in Seq(Entry) /\ pending # <<>> /\ ~stopping
      /\ pending' = Tail(pending) /\ takenAt' = pending[1].n
      /\ wake' = (Tail(pending) # <<>>) /\ ~cut'
      /\ UNCHANGED <<stopping, calls, blankedAt>>
      /\ takenAt \in Nat /\ calls \in Nat /\ blankedAt \in Nat
  BY DEF TakeNext, TypeOK, requests, WakeAfter, SpendCut
<1>2. /\ pending' \in Seq(Entry) /\ Len(pending) \in Nat \ {0}
      /\ Len(pending') = Len(pending) - 1
      /\ \A i \in 1..Len(pending') : i + 1 \in 1..Len(pending) /\ pending'[i] = pending[i + 1]
  BY <1>1
<1>3. DOMAIN pending = 1..Len(pending) /\ DOMAIN pending' = 1..Len(pending')
      /\ 1 \in 1..Len(pending)
      /\ \A i \in 1..Len(pending) : pending[i].n \in Nat
  <2>1. \A i \in 1..Len(pending) : pending[i] \in Entry
    BY <1>1
  <2>2. \A x \in Entry : x.n \in Nat
    BY DEF Entry
  <2>3. QED
    BY <1>1, <1>2, <2>1, <2>2
<1>4. QueueShape'
  <2> SUFFICES ASSUME NEW i \in 1..Len(pending')
               PROVE  /\ IsHeld(pending'[i]) => i = Len(pending')
                      /\ pending'[i].what = Blank => i = 1
    BY <1>3 DEF QueueShape
  <2>1. i + 1 \in 1..Len(pending) /\ pending'[i] = pending[i + 1]
    BY <1>2
  <2>2. IsHeld(pending[i + 1]) => i + 1 = Len(pending)
    BY <1>3, <2>1 DEF Handed, QueueShape
  <2>3. pending[i + 1].what = Blank => i + 1 = 1
    BY <1>3, <2>1 DEF Handed, QueueShape
  <2>4. QED
    BY <1>2, <2>1, <2>2, <2>3
<1>5. InOrder'
  <2>1. \A i \in 1..Len(pending') : pending'[i].n > pending[1].n /\ pending'[i].n >= blankedAt
    BY <1>2, <1>3 DEF Handed, InOrder
  <2>2. \A i, j \in 1..Len(pending') : i < j => pending'[i].n < pending'[j].n
    <3> SUFFICES ASSUME NEW i \in 1..Len(pending'), NEW j \in 1..Len(pending'), i < j
                 PROVE  pending'[i].n < pending'[j].n
      OBVIOUS
    <3>1. i + 1 \in 1..Len(pending) /\ j + 1 \in 1..Len(pending) /\ i + 1 < j + 1
      BY <1>2
    <3>2. pending[i + 1].n < pending[j + 1].n
      BY <1>3, <3>1 DEF Handed, InOrder
    <3>3. QED
      BY <1>2, <3>2
  <2>3. QED
    BY <1>1, <1>3, <2>1, <2>2 DEF InOrder
<1>6. \A i \in 1..Len(pending') : pending'[i].n <= calls'
  BY <1>1, <1>2, <1>3 DEF Handed
<1>7. NewestSurvives'
  <2>1. pending[Len(pending)].n = calls
    <3>1. takenAt # calls
      BY <1>1, <1>3 DEF Handed, InOrder
    <3>2. QED
      BY <1>1, <3>1 DEF Handed, NewestSurvives
  <2>2. CASE Len(pending) = 1
    BY <1>1, <2>1, <2>2 DEF NewestSurvives
  <2>3. CASE Len(pending) # 1
    <3>1. Len(pending') \in 1..Len(pending') /\ Len(pending') + 1 = Len(pending)
      BY <1>2, <2>3
    <3>2. pending'[Len(pending')].n = calls /\ pending' # <<>>
      BY <1>2, <2>1, <3>1
    <3>3. QED
      BY <1>1, <3>2 DEF NewestSurvives
  <2>4. QED
    BY <2>2, <2>3
<1>8. NoLostWakeup'
  BY <1>1 DEF NoLostWakeup
<1>9. takenAt' <= calls' /\ blankedAt' <= calls'
  BY <1>1, <1>3 DEF Handed
<1>10. QED
  BY <1>1, <1>3, <1>4, <1>5, <1>6, <1>7, <1>8, <1>9 DEF Handed

LEMMA HandedStep ==
    ASSUME TypeOK, TypeOK', Handed, [Next]_vars
    PROVE  Handed'
<1>1. ASSUME NEW d \in Displays, Submit(d) PROVE Handed'
  BY <1>1, HandedSubmit
<1>2. CASE BlankPanel
  <2>1. /\ pending' = <<[n |-> calls + 1, what |-> Blank]>>
        /\ wake' /\ calls' = calls + 1 /\ blankedAt' = calls + 1 /\ takenAt' = takenAt
        /\ calls \in Nat /\ takenAt \in Nat /\ takenAt <= calls
    BY <1>2 DEF BlankPanel, takes, TypeOK, Handed
  <2>2. ~IsHeld(pending'[1]) /\ pending'[1].n = calls + 1
    BY <2>1, WorkerAssumption DEF IsHeld
  <2>3. DOMAIN pending' = {1} /\ Len(pending') = 1
    BY <2>1
  <2>4. NoLostWakeup' /\ QueueShape' /\ NewestSurvives'
    BY <2>1, <2>2, <2>3 DEF NoLostWakeup, QueueShape, NewestSurvives
  <2>5. InOrder'
    BY <2>1, <2>2, <2>3 DEF InOrder
  <2>6. QED
    BY <2>1, <2>2, <2>3, <2>4, <2>5 DEF Handed
<1>3. CASE Stop
  <2>1. pending' = <<>> /\ DOMAIN pending' = {} /\ stopping'
        /\ UNCHANGED <<takenAt, calls, blankedAt>>
    BY <1>3 DEF Stop, takes, requests
  <2>2. QED
    BY <2>1 DEF Handed, NoLostWakeup, QueueShape, InOrder, NewestSurvives
<1>4. CASE TakeNext
  BY <1>4, HandedTake
<1>5. CASE TakeNothing
  <2>1. /\ UNCHANGED <<pending, cut, stopping, takenAt, calls, blankedAt>>
        /\ (stopping /\ wake' = wake) \/ pending = <<>>
    BY <1>5 DEF TakeNothing, queue, takes, requests, TypeOK
  <2>2. QED
    BY <2>1 DEF Handed, NoLostWakeup, QueueShape, InOrder, NewestSurvives
<1>6. CASE /\ UNCHANGED <<queue, cut, stopping, takes, calls, submitted, blankedAt>>
           /\ wake' = wake \/ wake' = TRUE
  BY <1>6 DEF Handed, NoLostWakeup, QueueShape, InOrder, NewestSurvives, queue, takes
<1>7. QED
  BY <1>1, <1>2, <1>3, <1>4, <1>5, <1>6, OnlyFive

\* The queue in every run: no wakeup is lost, what waits is in the order of the
\* calls, and the newest survives.
THEOREM QueueCorrect == Spec => [](NoLostWakeup /\ QueueShape /\ InOrder /\ NewestSurvives)
<1>1. TypeOK /\ Handed /\ [Next]_vars /\ TypeOK' => Handed'
  BY HandedStep
<1>2. Handed => NoLostWakeup /\ QueueShape /\ InOrder /\ NewestSurvives
  BY DEF Handed
<1>3. QED
  BY <1>1, <1>2, HandedInit, TypeCorrect, PTL DEF Spec

-----------------------------------------------------------------------------
(* The display the thread holds, and what cuts it.                         *)

\* The display the thread holds was taken, and nothing newer was taken since.
Stamped == config # None => config.n <= takenAt

LEMMA StampedStep ==
    ASSUME TypeOK, Locals, Stamped, [Next]_vars
    PROVE  Stamped'
<1> USE DEF Stamped
<1>1. CASE UNCHANGED <<config, takenAt>>
  BY <1>1
<1>2. CASE TakeNothing
  BY <1>2 DEF TakeNothing
<1>3. CASE TakeNext
  <2>1. Head(pending) \in Entry
    BY <1>3 DEF TakeNext, TypeOK
  <2>2. Head(pending).n \in Nat
    BY <2>1 DEF Entry
  <2>3. QED
    BY <1>3, <2>2 DEF TakeNext
<1>4. CASE ShowThen
  <2>1. config \in Entry /\ config # None
    BY <1>4, WorkerAssumption DEF ShowThen, Locals, Entry
  <2>2. config'.n = config.n /\ takenAt' = takenAt
    BY <1>4, <2>1 DEF ShowThen, rest, takes, Entry
  <2>3. QED
    BY <2>1, <2>2
<1> USE DEF rest, thread, locals, takes
<1>5. ASSUME Client PROVE UNCHANGED <<config, takenAt>>
  BY <1>5 DEF Client, Submit, BlankPanel, SetIdle, SetPlaylist, StopPlaylist, Stop
<1>6. ASSUME StopReturns \/ \E p \in Playlists : RunsOut(p) PROVE UNCHANGED <<config, takenAt>>
  BY <1>6 DEF StopReturns, RunsOut
<1>7. ASSUME Run, ~TakeNothing, ~TakeNext PROVE UNCHANGED <<config, takenAt>>
  BY <1>7
  DEF Run, CheckStop, FreeForPlaylist, PlaylistDue, IdleDue, FreeForIdle, Poll,
      ForgetShowing, Die, Jump
<1>8. ASSUME Show, ~ShowThen PROVE UNCHANGED <<config, takenAt>>
  BY <1>8
  DEF Show, ShowBlank, Darken, Localise, FetchFails, FetchRaises, MarkShowing, Draw,
      DrawFails, HeldEnds, FiniteEnds, FiniteCut, ForgetCut, Shown, Jump
<1>9. ASSUME RunIdleScreen PROVE UNCHANGED <<config, takenAt>>
  BY <1>9
  DEF RunIdleScreen, IdleOn, IdleCheck, DrawClock, ClockFails, IdleBroken, IdleOff, Jump
<1>10. ASSUME RunPlaylist PROVE UNCHANGED <<config, takenAt>>
  BY <1>10
  DEF RunPlaylist, PlaylistOn, PlaylistCheck, NextSlot, PlayItem, SkipItem, ItemCut,
      ItemEnds, PlaylistOff, Jump
<1>11. CASE UNCHANGED vars
  BY <1>11 DEF vars
<1>12. QED
  BY <1>1, <1>2, <1>3, <1>4, <1>5, <1>6, <1>7, <1>8, <1>9, <1>10, <1>11 DEF Next, Worker

\* No message cuts a finite display, and no blank() that came before it does.
THEOREM CutCorrect == Spec => CutOnlyByLaterBlank
<1>1. Init => Stamped /\ Locals
  BY TypeInit DEF Init, Stamped
<1>2. TypeOK /\ Locals /\ Stamped /\ [Next]_vars => Stamped'
  BY StampedStep
<1>3. TypeOK /\ Locals /\ [Next]_vars => Locals'
  BY ScreenStep
<1>4. TypeOK /\ Handed /\ [Next]_vars /\ TypeOK' => Handed'
  BY HandedStep
<1>5. ASSUME TypeOK, Locals, Stamped, Handed, FiniteCut
      PROVE  blankedAt > config.n
  <2>1. config \in Entry /\ config # None /\ cut /\ ~stopping
    BY <1>5, WorkerAssumption DEF FiniteCut, Locals, Entry
  <2>2. config.n \in Nat /\ takenAt \in Nat /\ blankedAt \in Nat
    BY <1>5, <2>1 DEF Entry, TypeOK
  <2>3. QED
    BY <1>5, <2>1, <2>2 DEF Stamped, Handed
<1>6. TypeOK /\ Locals /\ Stamped /\ Handed /\ [Next]_vars
         => [FiniteCut => blankedAt > config.n]_vars
  BY <1>5
<1>7. QED
  BY <1>1, <1>2, <1>3, <1>4, <1>6, HandedInit, TypeCorrect, PTL DEF Spec, CutOnlyByLaterBlank

-----------------------------------------------------------------------------
(* The thread and a playlist that is gone: every call that takes the       *)
(* playlist away sets the wake, and the thread asks for the wake after it  *)
(* captured the playlist and before it asks it for a slot.                 *)

Chosen ==
    /\ ThreadSurvives
    /\ pc = "playlist on" => playlist # None \/ wake
    /\ pc = "playlist" /\ captured = None => wake
    /\ pc \in {"slot", "item", "playing", "sitting out"} => captured # None

LEMMA ChosenStep ==
    ASSUME "oserror" \notin Faults, TypeOK, Chosen, [Next]_vars
    PROVE  Chosen'
<1> USE DEF Chosen, ThreadSurvives, ThreadEnds, Goto, Jump, rest, events, standby, thread, locals
<1>1. ASSUME NEW d \in Displays, Submit(d) PROVE Chosen'
  BY <1>1 DEF Submit
<1>2. ASSUME BlankPanel \/ StopPlaylist \/ Stop \/ StopReturns PROVE Chosen'
  BY <1>2 DEF BlankPanel, StopPlaylist, Stop, StopReturns
<1>3. ASSUME NEW f \in Faces \cup {None}, SetIdle(f) PROVE Chosen'
  BY <1>3 DEF SetIdle
<1>4. ASSUME NEW p \in Playlists, SetPlaylist(p) \/ RunsOut(p) PROVE Chosen'
  BY <1>4, WorkerAssumption DEF SetPlaylist, RunsOut
<1>5. ASSUME Run PROVE Chosen'
  BY <1>5, WorkerAssumption
  DEF Run, CheckStop, TakeNothing, TakeNext, FreeForPlaylist, PlaylistDue, IdleDue,
      FreeForIdle, Poll, ForgetShowing, Die
<1>6. ASSUME Show PROVE Chosen'
  BY <1>6
  DEF Show, ShowBlank, Darken, Localise, FetchFails, FetchRaises, MarkShowing, Draw,
      DrawFails, HeldEnds, FiniteEnds, FiniteCut, ForgetCut, Shown, ShowThen, AfterShow
<1>7. ASSUME RunIdleScreen PROVE Chosen'
  BY <1>7
  DEF RunIdleScreen, IdleOn, IdleCheck, DrawClock, ClockFails, IdleBroken, IdleOff
<1>8. ASSUME RunPlaylist PROVE Chosen'
  BY <1>8
  DEF RunPlaylist, PlaylistOn, PlaylistCheck, NextSlot, PlayItem, SkipItem, ItemCut,
      ItemEnds, PlaylistOff, PlaylistGoesOn
<1>9. CASE UNCHANGED vars
  BY <1>9 DEF vars
<1>10. QED
  BY <1>1, <1>2, <1>3, <1>4, <1>5, <1>6, <1>7, <1>8, <1>9 DEF Next, Client, Worker

\* As long as no fetch raises anything but RemoteImageError, no order of the
\* client calls and the steps of the thread ends it before stop().
THEOREM OnlyFetchEndsThread ==
    ASSUME "oserror" \notin Faults
    PROVE  Spec => []ThreadSurvives
<1>1. Init => Chosen
  BY DEF Init, Chosen, ThreadSurvives, ThreadEnds
<1>2. TypeOK /\ Chosen /\ [Next]_vars => Chosen'
  BY ChosenStep
<1>3. Chosen => ThreadSurvives
  BY DEF Chosen
<1>4. QED
  BY <1>1, <1>2, <1>3, TypeCorrect, PTL DEF Spec

-----------------------------------------------------------------------------
(* The books: what was submitted is taken, waiting or counted as dropped.  *)

\* In a queue whose only BLANK is its first entry the displays are all the
\* others.
BlankFirst(q) == \A i \in 1..Len(q) : q[i].what = Blank => i = 1
Blanks(q) == IF q # <<>> /\ q[1].what = Blank THEN 1 ELSE 0

LEMMA WaitingCount ==
    ASSUME NEW q \in Seq(Entry), BlankFirst(q)
    PROVE  Waiting(q) = Len(q) - Blanks(q)
<1> DEFINE shown == {i \in DOMAIN q : q[i].what # Blank}
<1>1. Len(q) \in Nat /\ DOMAIN q = 1..Len(q) /\ (q # <<>> => Len(q) > 0) /\ (q = <<>> => Len(q) = 0)
  OBVIOUS
<1>2. CASE q # <<>> /\ q[1].what = Blank
  <2>1. shown = 2..Len(q)
    BY <1>1, <1>2 DEF BlankFirst
  <2>2. Cardinality(2..Len(q)) = Len(q) - 1
    BY <1>1, <1>2, FS_Interval
  <2>3. QED
    BY <1>2, <2>1, <2>2 DEF Waiting, Blanks
<1>3. CASE q = <<>> \/ q[1].what # Blank
  <2>1. shown = 1..Len(q)
    BY <1>1, <1>3 DEF BlankFirst
  <2>2. Cardinality(1..Len(q)) = Len(q)
    BY <1>1, FS_Interval
  <2>3. QED
    <3>1. Waiting(q) = Len(q)
      BY <2>1, <2>2 DEF Waiting
    <3>2. Blanks(q) = 0
      BY <1>3 DEF Blanks
    <3>3. QED
      BY <1>1, <3>1, <3>2
<1>4. QED
  BY <1>2, <1>3

LEMMA SubSeqCount ==
    ASSUME NEW q \in Seq(Entry), BlankFirst(q), NEW over \in Nat, over < Len(q)
    PROVE  /\ Waiting(SubSeq(q, 1, over)) = over - (IF over > 0 THEN Blanks(q) ELSE 0)
           /\ Waiting(SubSeq(q, over + 1, Len(q)))
                 = Len(q) - over - (IF over > 0 THEN 0 ELSE Blanks(q))
<1> DEFINE front == SubSeq(q, 1, over)
           back == SubSeq(q, over + 1, Len(q))
<1>1. Len(q) \in Nat /\ over <= Len(q) /\ Blanks(q) \in {0, 1}
  BY DEF Blanks
<1>2. front \in Seq(Entry) /\ Len(front) = over /\ \A i \in 1..over : front[i] = q[i]
  BY <1>1, PrefixOfSeq, Zenon
<1>3. /\ back \in Seq(Entry) /\ Len(back) = Len(q) - over
      /\ \A i \in 1..Len(q) - over : back[i] = q[i + over]
  BY <1>1
<1> HIDE DEF front, back
<1>4. BlankFirst(front) /\ Blanks(front) = IF over > 0 THEN Blanks(q) ELSE 0
  <2>1. BlankFirst(front)
    BY <1>1, <1>2 DEF BlankFirst
  <2>2. CASE over > 0
    <3>1. front # <<>> /\ q # <<>> /\ front[1] = q[1]
      BY <1>1, <1>2, <2>2
    <3>2. QED
      BY <2>1, <2>2, <3>1 DEF Blanks
  <2>3. CASE over = 0
    BY <1>2, <2>1, <2>3 DEF Blanks
  <2>4. QED
    BY <2>2, <2>3
<1>5. BlankFirst(back) /\ Blanks(back) = IF over > 0 THEN 0 ELSE Blanks(q)
  <2>1. 1 \in 1..Len(q) - over /\ back # <<>> /\ back[1] = q[1 + over] /\ q # <<>>
    BY <1>1, <1>3
  <2>2. \A i \in 1..Len(back) : back[i].what = Blank => i + over = 1
    BY <1>1, <1>3 DEF BlankFirst
  <2>3. BlankFirst(back)
    BY <1>1, <1>3, <2>2 DEF BlankFirst
  <2>4. CASE over > 0
    BY <1>1, <1>3, <2>1, <2>2, <2>3, <2>4 DEF Blanks
  <2>5. CASE over = 0
    BY <2>1, <2>3, <2>5 DEF Blanks
  <2>6. QED
    BY <2>4, <2>5
<1>6. Waiting(front) = over - Blanks(front) /\ Waiting(back) = Len(q) - over - Blanks(back)
  BY <1>2, <1>3, <1>4, <1>5, WaitingCount
<1>7. QED
  BY <1>4, <1>5, <1>6 DEF front, back

\* Every submit() adds one display to what waits and what was dropped.
LEMMA EnqueueConserves ==
    ASSUME TypeOK, QueueShape, NEW e \in Entry, e.what # Blank, Enqueue(e)
    PROVE  Waiting(pending') + superseded' = Waiting(pending) + superseded + 1
<1> DEFINE kept == Kept(pending)
           full == Append(kept, e)
           over == Excess(Len(full))
<1>1. /\ pending \in Seq(Entry) /\ BlankFirst(pending) /\ QueueSize \in Nat \ {0}
      /\ superseded \in Nat /\ Len(pending) \in Nat
  BY WorkerAssumption DEF TypeOK, QueueShape, BlankFirst
<1>2. kept \in Seq(Entry) /\ \A i \in 1..Len(kept) : i \in 1..Len(pending) /\ kept[i] = pending[i]
  BY <1>1, KeptType
<1>3. Len(kept) = Len(pending) - (IF GivesWay(pending) THEN 1 ELSE 0)
  <2>1. CASE GivesWay(pending)
    <3>1. Len(pending) - 1 \in Nat /\ Len(pending) - 1 <= Len(pending)
      BY <1>1, <2>1 DEF GivesWay
    <3>2. Len(SubSeq(pending, 1, Len(pending) - 1)) = Len(pending) - 1
      BY <1>1, <3>1, PrefixOfSeq, Zenon
    <3>3. QED
      BY <2>1, <3>2 DEF Kept
  <2>2. CASE ~GivesWay(pending)
    BY <1>1, <2>2 DEF Kept
  <2>3. QED
    BY <2>1, <2>2
<1>4. Blanks(kept) = Blanks(pending)
  <2>1. CASE kept # <<>>
    <3>1. 1 \in 1..Len(kept)
      BY <1>2, <2>1
    <3>2. pending # <<>> /\ kept[1] = pending[1]
      BY <1>1, <1>2, <3>1
    <3>3. QED
      BY <2>1, <3>2 DEF Blanks
  <2>2. CASE kept = <<>> /\ GivesWay(pending)
    <3>1. Len(pending) = 1 /\ pending # <<>> /\ IsHeld(pending[1])
      <4>1. Len(kept) = 0
        BY <2>2
      <4>2. Len(pending) = 1
        BY <1>1, <1>3, <2>2, <4>1
      <4>3. QED
        BY <2>2, <4>2 DEF GivesWay
    <3>2. QED
      BY <2>2, <3>1, WorkerAssumption DEF Blanks, IsHeld
  <2>3. CASE kept = <<>> /\ ~GivesWay(pending)
    BY <2>3 DEF Kept
  <2>4. QED
    BY <2>1, <2>2, <2>3
<1> HIDE DEF kept
<1>5. /\ full \in Seq(Entry) /\ Len(full) = Len(kept) + 1 /\ Len(kept) \in Nat
      /\ full # <<>> /\ full[Len(kept) + 1] = e
      /\ \A i \in 1..Len(kept) : full[i] = kept[i]
  <2>1. kept \in Seq(Entry)
    BY <1>2
  <2>2. QED
    BY <2>1
<1>6. Blanks(full) = Blanks(kept)
  <2>1. CASE kept = <<>>
    BY <1>5, <2>1 DEF Blanks
  <2>2. CASE kept # <<>>
    <3>1. 1 \in 1..Len(kept)
      BY <1>2, <2>2
    <3>2. QED
      BY <1>5, <2>2, <3>1 DEF Blanks
  <2>3. QED
    BY <2>1, <2>2
<1>7. BlankFirst(full)
  BY <1>1, <1>2, <1>5 DEF BlankFirst
<1>8. over \in Nat /\ over < Len(full)
  BY <1>1, <1>5 DEF Excess
<1>9. /\ pending' = SubSeq(full, over + 1, Len(full))
      /\ superseded' = superseded + (IF GivesWay(pending) THEN 1 ELSE 0)
                                  + Waiting(SubSeq(full, 1, over))
  BY DEF Enqueue, kept
<1> HIDE DEF full, over
<1>10. /\ Waiting(SubSeq(full, 1, over)) = over - (IF over > 0 THEN Blanks(full) ELSE 0)
       /\ Waiting(pending') = Len(full) - over - (IF over > 0 THEN 0 ELSE Blanks(full))
  BY <1>5, <1>7, <1>8, <1>9, SubSeqCount
<1>11. Waiting(pending) = Len(pending) - Blanks(pending)
  BY <1>1, WaitingCount
<1>12. Blanks(pending) \in {0, 1}
  BY DEF Blanks
<1>13. QED
  <2> DEFINE given == IF GivesWay(pending) THEN 1 ELSE 0
             b == Blanks(pending)
  <2>1. given \in Nat /\ b \in {0, 1} /\ Blanks(full) = b
    BY <1>4, <1>6, <1>12
  <2>2. /\ Len(full) = Len(pending) - given + 1
        /\ superseded' = superseded + given + Waiting(SubSeq(full, 1, over))
        /\ Waiting(pending) = Len(pending) - b
    BY <1>3, <1>5, <1>9, <1>11
  <2> HIDE DEF given, b
  <2>3. CASE over > 0
    <3>1. Waiting(SubSeq(full, 1, over)) = over - b /\ Waiting(pending') = Len(full) - over
      BY <1>5, <1>8, <1>10, <2>1, <2>3
    <3>2. QED
      BY <1>1, <1>8, <2>1, <2>2, <3>1
  <2>4. CASE over = 0
    <3>1. Waiting(SubSeq(full, 1, over)) = 0 /\ Waiting(pending') = Len(full) - b
      BY <1>5, <1>8, <1>10, <2>1, <2>4
    <3>2. QED
      BY <1>1, <2>1, <2>2, <3>1
  <2>5. QED
    BY <1>8, <2>3, <2>4

LEMMA ConservationStep ==
    ASSUME TypeOK, QueueShape, Conservation, [Next]_vars
    PROVE  Conservation'
<1>t. /\ pending \in Seq(Entry) /\ Waiting(pending) \in Nat
      /\ superseded \in Nat /\ taken \in Nat /\ submitted \in Nat
  BY WaitingType DEF TypeOK
<1>b. BlankFirst(pending)
  BY <1>t DEF QueueShape, BlankFirst
<1>1. ASSUME NEW d \in Displays, Submit(d) PROVE Conservation'
  <2>1. [n |-> calls + 1, what |-> d] \in Entry /\ d # Blank
    BY EntryOfDisplay, WorkerAssumption
  <2>2. Waiting(pending') + superseded' = Waiting(pending) + superseded + 1
    BY <1>1, <2>1, EnqueueConserves DEF Submit
  <2>3. submitted' = submitted + 1 /\ taken' = taken
    BY <1>1 DEF Submit, takes
  <2>4. Waiting(pending') \in Nat /\ superseded' \in Nat
    BY <1>1, <2>1, WaitingType, EnqueueKeeps, EnqueueCounts DEF Submit
  <2>5. QED
    BY <1>t, <2>2, <2>3, <2>4 DEF Conservation
<1>2. CASE BlankPanel
  <2>1. /\ superseded' = superseded + Waiting(pending)
        /\ pending' = <<[n |-> calls + 1, what |-> Blank]>>
        /\ UNCHANGED <<submitted, taken>>
    BY <1>2 DEF BlankPanel, ClearPending, takes
  <2>2. pending' \in Seq(Entry) /\ BlankFirst(pending') /\ Len(pending') = 1 /\ Blanks(pending') = 1
    BY <2>1, EntryOfDisplay DEF BlankFirst, Blanks
  <2>3. Waiting(pending') = 0
    <3>1. Waiting(pending') = Len(pending') - Blanks(pending')
      BY <2>2, WaitingCount, Zenon
    <3>2. QED
      BY <2>2, <3>1
  <2>4. QED
    BY <1>t, <2>1, <2>3 DEF Conservation
<1>3. CASE Stop
  <2>1. /\ superseded' = superseded + Waiting(pending) /\ pending' = <<>>
        /\ UNCHANGED <<submitted, taken>>
    BY <1>3 DEF Stop, ClearPending, takes, requests
  <2>2. pending' \in Seq(Entry) /\ BlankFirst(pending') /\ Len(pending') = 0 /\ Blanks(pending') = 0
    BY <2>1 DEF BlankFirst, Blanks
  <2>3. Waiting(pending') = 0
    <3>1. Waiting(pending') = Len(pending') - Blanks(pending')
      BY <2>2, WaitingCount, Zenon
    <3>2. QED
      BY <2>2, <3>1
  <2>4. QED
    BY <1>t, <2>1, <2>3 DEF Conservation
<1>4. CASE TakeNext
  <2>1. /\ pending # <<>> /\ pending' = Tail(pending)
        /\ taken' = taken + Waiting(<<Head(pending)>>)
        /\ UNCHANGED <<submitted, superseded>>
    BY <1>4 DEF TakeNext, requests
  <2>2. /\ <<Head(pending)>> \in Seq(Entry) /\ Len(<<Head(pending)>>) = 1
        /\ <<Head(pending)>>[1] = pending[1]
        /\ pending' \in Seq(Entry) /\ Len(pending) \in Nat \ {0}
        /\ Len(pending') = Len(pending) - 1
        /\ \A i \in 1..Len(pending') : i + 1 \in 1..Len(pending) /\ pending'[i] = pending[i + 1]
    BY <1>t, <2>1
  <2>3. BlankFirst(<<Head(pending)>>) /\ Blanks(<<Head(pending)>>) = Blanks(pending)
    BY <2>1, <2>2 DEF BlankFirst, Blanks
  <2>4. \A i \in 1..Len(pending') : pending'[i].what # Blank
    BY <1>b, <2>2 DEF BlankFirst
  <2>5. BlankFirst(pending') /\ Blanks(pending') = 0
    BY <2>2, <2>4 DEF BlankFirst, Blanks
  <2>6. /\ Waiting(<<Head(pending)>>) = 1 - Blanks(pending)
        /\ Waiting(pending') = Len(pending')
        /\ Waiting(pending) = Len(pending) - Blanks(pending)
    <3>1. Waiting(<<Head(pending)>>) = Len(<<Head(pending)>>) - Blanks(<<Head(pending)>>)
      BY <2>2, <2>3, WaitingCount, Zenon
    <3>2. Waiting(pending') = Len(pending') - Blanks(pending')
      BY <2>2, <2>5, WaitingCount, Zenon
    <3>3. Waiting(pending) = Len(pending) - Blanks(pending)
      BY <1>t, <1>b, WaitingCount, Zenon
    <3>4. QED
      BY <2>2, <2>3, <2>5, <3>1, <3>2, <3>3
  <2>7. Blanks(pending) \in {0, 1}
    BY DEF Blanks
  <2>8. Waiting(<<Head(pending)>>) + Waiting(pending') = Waiting(pending)
    BY <2>2, <2>6, <2>7
  <2>9. Waiting(<<Head(pending)>>) \in Nat /\ Waiting(pending') \in Nat
    BY <2>2, WaitingType
  <2>10. QED
    BY <1>t, <2>1, <2>8, <2>9 DEF Conservation
<1>5. CASE TakeNothing
  BY <1>5 DEF TakeNothing, Conservation, queue, takes, requests
<1>6. CASE UNCHANGED <<queue, cut, stopping, takes, calls, submitted, blankedAt>>
  BY <1>6 DEF Conservation, queue, takes
<1>7. QED
  BY <1>1, <1>2, <1>3, <1>4, <1>5, <1>6, OnlyFive

\* GET /display never miscounts: every submission was taken, waits, or is
\* counted in `dropped`, whatever the clients and the thread do.
THEOREM BooksBalance == Spec => []Conservation
<1>1. Init => Conservation
  <2> SUFFICES ASSUME Init PROVE Conservation
    OBVIOUS
  <2>1. pending \in Seq(Entry) /\ Len(pending) = 0 /\ BlankFirst(pending) /\ Blanks(pending) = 0
    BY DEF Init, BlankFirst, Blanks
  <2>2. Waiting(pending) = 0
    <3>1. Waiting(pending) = Len(pending) - Blanks(pending)
      BY <2>1, WaitingCount, Zenon
    <3>2. QED
      BY <2>1, <3>1
  <2>3. QED
    BY <2>2 DEF Init, Conservation
<1>2. TypeOK /\ QueueShape /\ Conservation /\ [Next]_vars => Conservation'
  BY ConservationStep
<1>3. Spec => []QueueShape
  BY QueueCorrect, PTL
<1>4. QED
  BY <1>1, <1>2, <1>3, TypeCorrect, PTL DEF Spec

\* Together: the queue of submit() and _take keeps the order of the calls, the
\* newest of them and the count of the others.
THEOREM QueueIsKept == Spec => []QueueKept
BY QueueCorrect, BooksBalance, PTL DEF QueueKept

-----------------------------------------------------------------------------
(* The panel.  KeptUp is why a held display stays: while it is the newest   *)
(* thing anybody asked for, it is marked as showing, and a thread that      *)
(* finds a mark goes past the playlist and the idle screen.                 *)

\* No call came after the one that put e there: nothing newer was taken, and
\* neither blank(), set_playlist() nor stop() was called since.
Newest(e) == takenAt <= e.n /\ blankedAt <= e.n /\ playlistAt < e.n /\ ~stopping

\* Where the thread can be while it leaves the panel to a held display.
Resting == {"held", "shown", "then", "loop", "take", "nothing", "idle?", "free?", "poll"}

PanelTaken == panel \in Entry => panel.n <= takenAt
DrawnIsMarked == pc = "draw" => showing = config \/ playlistAt >= config.n
KeptUp ==
    OnPanel(Stays) /\ Newest(panel) =>
        /\ showing = panel
        /\ pc \in Resting
        /\ pc \in {"held", "shown", "then"} => config = panel

LEMMA EntryFacts ==
    /\ \A e \in Entry : e.n \in Nat /\ e.what \in Displays \cup {Blank}
    /\ \A x \in Faces \cup Playlists \cup {None, Dark} : x \notin Entry
    /\ Blank \notin Held
BY WorkerAssumption DEF Entry

\* Where the thread can be when it darkens the panel.
Darkening == {"darken", "exit dark", "finite", "idle broken", "idle off", "playing", "playlist off"}

\* What a step may do to the panel: leave it, darken it, put the clock or the
\* playlist on it, or draw what the thread holds.
LEMMA PanelSteps ==
    ASSUME TypeOK, Locals, [Next]_vars
    PROVE  \/ panel' = panel
           \/ panel' = Dark /\ pc \in Darkening
           \/ panel' = captured /\ captured \in Faces \cup Playlists /\ pc \in {"clock", "item"}
           \/ panel' = config /\ config \in Entry /\ config.what \in Displays /\ (Draw \/ DrawFails)
<1> USE DEF rest, standby, active, thread, locals, Jump, Goto, Darkening
<1>1. ASSUME Client PROVE panel' = panel
  BY <1>1 DEF Client, Submit, BlankPanel, SetIdle, SetPlaylist, StopPlaylist, Stop
<1>2. ASSUME StopReturns \/ \E p \in Playlists : RunsOut(p) PROVE panel' = panel
  BY <1>2 DEF StopReturns, RunsOut
<1>3. ASSUME Run PROVE panel' = panel \/ (panel' = Dark /\ pc \in Darkening)
  BY <1>3
  DEF Run, CheckStop, TakeNothing, TakeNext, FreeForPlaylist, PlaylistDue, IdleDue, FreeForIdle,
      Poll, ForgetShowing, Die
<1>4. ASSUME Show, ~Draw, ~DrawFails PROVE panel' = panel \/ (panel' = Dark /\ pc \in Darkening)
  BY <1>4
  DEF Show, ShowBlank, Darken, Localise, FetchFails, FetchRaises, MarkShowing,
      HeldEnds, FiniteEnds, FiniteCut, ForgetCut, Shown, ShowThen
<1>5. ASSUME Draw \/ DrawFails
      PROVE  panel' = panel \/ (panel' = config /\ config \in Entry /\ config.what \in Displays)
  BY <1>5 DEF Draw, DrawFails, Locals
<1>6. ASSUME RunIdleScreen
      PROVE  \/ panel' = panel
             \/ panel' = Dark /\ pc \in Darkening
             \/ (panel' = captured /\ captured \in Faces \cup Playlists /\ pc = "clock")
  BY <1>6
  DEF RunIdleScreen, IdleOn, IdleCheck, DrawClock, ClockFails, IdleBroken, IdleOff, Locals
<1>7. ASSUME RunPlaylist
      PROVE  \/ panel' = panel
             \/ panel' = Dark /\ pc \in Darkening
             \/ (panel' = captured /\ captured \in Faces \cup Playlists /\ pc = "item")
  BY <1>7
  DEF RunPlaylist, PlaylistOn, PlaylistCheck, NextSlot, PlayItem, SkipItem, ItemCut, ItemEnds,
      PlaylistOff, Locals
<1>8. CASE UNCHANGED vars
  BY <1>8 DEF vars
<1>9. QED
  BY <1>1, <1>2, <1>3, <1>4, <1>5, <1>6, <1>7, <1>8 DEF Next, Worker

\* The stamps only grow.
LEMMA StampsGrow ==
    ASSUME TypeOK, Handed, [Next]_vars
    PROVE  /\ takenAt' = takenAt \/ (TakeNext /\ takenAt' > takenAt)
           /\ TakeNext => takenAt' > takenAt
           /\ blankedAt' >= blankedAt
           /\ playlistAt' = playlistAt \/ playlistAt' = calls
           /\ stopping => stopping'
<1>t. /\ takenAt \in Nat /\ blankedAt \in Nat /\ calls \in Nat /\ blankedAt <= calls
      /\ stopping \in BOOLEAN
  BY DEF TypeOK, Handed
<1>1. ASSUME NEW d \in Displays, Submit(d)
      PROVE  takenAt' = takenAt /\ blankedAt' = blankedAt /\ stopping' = stopping
  BY <1>1 DEF Submit, takes
<1>2. ASSUME BlankPanel PROVE takenAt' = takenAt /\ blankedAt' = calls + 1 /\ stopping' = stopping
  BY <1>2 DEF BlankPanel, takes
<1>3. ASSUME Stop PROVE takenAt' = takenAt /\ blankedAt' = blankedAt /\ stopping'
  BY <1>3 DEF Stop, takes, requests
<1>4. ASSUME TakeNothing PROVE takenAt' = takenAt /\ blankedAt' = blankedAt /\ stopping' = stopping
  BY <1>4 DEF TakeNothing, takes, requests
<1>5. ASSUME TakeNext PROVE takenAt' > takenAt /\ blankedAt' = blankedAt /\ stopping' = stopping
  <2>1. pending \in Seq(Entry) /\ pending # <<>> /\ takenAt' = pending[1].n
    BY <1>5 DEF TakeNext, TypeOK
  <2>2. pending[1].n > takenAt
    BY <2>1 DEF Handed, InOrder
  <2>3. QED
    BY <1>5, <2>1, <2>2 DEF TakeNext, requests
<1>6. playlistAt' = playlistAt \/ playlistAt' = calls
  <2> USE DEF rest, requests, Jump
  <2>1. ASSUME NEW p \in Playlists, SetPlaylist(p) PROVE playlistAt' = calls
    BY <2>1 DEF SetPlaylist
  <2>2. ASSUME Client, \A p \in Playlists : ~SetPlaylist(p) PROVE playlistAt' = playlistAt
    BY <2>2 DEF Client, Submit, BlankPanel, SetIdle, StopPlaylist, Stop
  <2>3. ASSUME StopReturns \/ \E p \in Playlists : RunsOut(p) PROVE playlistAt' = playlistAt
    BY <2>3 DEF StopReturns, RunsOut
  <2>4. ASSUME Run PROVE playlistAt' = playlistAt
    BY <2>4
    DEF Run, CheckStop, TakeNothing, TakeNext, FreeForPlaylist, PlaylistDue, IdleDue, FreeForIdle,
        Poll, ForgetShowing, Die
  <2>5. ASSUME Show PROVE playlistAt' = playlistAt
    BY <2>5
    DEF Show, ShowBlank, Darken, Localise, FetchFails, FetchRaises, MarkShowing, Draw,
        DrawFails, HeldEnds, FiniteEnds, FiniteCut, ForgetCut, Shown, ShowThen
  <2>6. ASSUME RunIdleScreen PROVE playlistAt' = playlistAt
    BY <2>6 DEF RunIdleScreen, IdleOn, IdleCheck, DrawClock, ClockFails, IdleBroken, IdleOff
  <2>7. ASSUME RunPlaylist PROVE playlistAt' = playlistAt
    BY <2>7
    DEF RunPlaylist, PlaylistOn, PlaylistCheck, NextSlot, PlayItem, SkipItem, ItemCut, ItemEnds,
        PlaylistOff
  <2>8. CASE UNCHANGED vars
    BY <2>8 DEF vars
  <2>9. QED
    BY <2>1, <2>2, <2>3, <2>4, <2>5, <2>6, <2>7, <2>8 DEF Next, Worker
<1>7. ASSUME UNCHANGED <<queue, cut, stopping, takes, calls, submitted, blankedAt>>
      PROVE  takenAt' = takenAt /\ blankedAt' = blankedAt /\ stopping' = stopping
  BY <1>7 DEF takes
<1>8. takenAt' = takenAt \/ (TakeNext /\ takenAt' > takenAt)
  BY <1>1, <1>2, <1>3, <1>4, <1>5, <1>7, OnlyFive
<1>9. blankedAt' = blankedAt \/ blankedAt' = calls + 1
  BY <1>1, <1>2, <1>3, <1>4, <1>5, <1>7, OnlyFive
<1>10. stopping => stopping'
  BY <1>1, <1>2, <1>3, <1>4, <1>5, <1>7, OnlyFive
<1>11. QED
  BY <1>t, <1>5, <1>6, <1>8, <1>9, <1>10

LEMMA PanelTakenStep ==
    ASSUME TypeOK, TypeOK', Locals, Handed, Stamped, PanelTaken, [Next]_vars
    PROVE  PanelTaken'
<1>1. takenAt \in Nat /\ takenAt' \in Nat /\ takenAt' >= takenAt
  BY StampsGrow DEF TypeOK
<1>2. ASSUME NEW e \in Entry, e.n <= takenAt PROVE e.n <= takenAt'
  BY <1>1, <1>2, EntryFacts
<1>3. CASE panel' = panel
  BY <1>2, <1>3 DEF PanelTaken
<1>4. CASE panel' = Dark \/ panel' \in Faces \cup Playlists
  BY <1>4, EntryFacts DEF PanelTaken
<1>5. CASE panel' = config /\ config \in Entry
  BY <1>2, <1>5, EntryFacts DEF PanelTaken, Stamped
<1>6. QED
  BY <1>3, <1>4, <1>5, PanelSteps
LEMMA DrawnIsMarkedStep ==
    ASSUME TypeOK, TypeOK', Locals, Handed, Stamped, DrawnIsMarked, [Next]_vars
    PROVE  DrawnIsMarked'
<1> USE DEF DrawnIsMarked, Goto, Jump, rest, standby, active, thread, locals
<1>t. /\ config # None => config.n \in Nat /\ config.n <= calls
      /\ calls \in Nat /\ playlistAt \in Nat
  <2>1. config # None => config \in Entry /\ config.n <= takenAt
    BY DEF TypeOK, Stamped
  <2>2. takenAt <= calls /\ takenAt \in Nat /\ calls \in Nat /\ playlistAt \in Nat
    BY DEF TypeOK, Handed
  <2>3. QED
    BY <2>1, <2>2, EntryFacts
<1>1. CASE pc' # "draw"
  BY <1>1
<1>2. CASE MarkShowing
  BY <1>2 DEF MarkShowing
<1>3. ASSUME NEW p \in Playlists, SetPlaylist(p), pc = "draw" PROVE DrawnIsMarked'
  BY <1>t, <1>3, EntryFacts DEF SetPlaylist, Locals
<1>4. ASSUME pc' = "draw", ~MarkShowing, \A p \in Playlists : ~SetPlaylist(p)
      PROVE  UNCHANGED <<pc, showing, config, playlistAt>>
  <2> USE DEF requests
  <2>1. CASE Client
    BY <1>4, <2>1 DEF Client, Submit, BlankPanel, SetIdle, StopPlaylist, Stop
  <2>2. CASE StopReturns \/ \E p \in Playlists : RunsOut(p)
    BY <1>4, <2>2 DEF StopReturns, RunsOut
  <2>3. CASE Run
    BY <1>4, <2>3
    DEF Run, CheckStop, TakeNothing, TakeNext, FreeForPlaylist, PlaylistDue, IdleDue, FreeForIdle,
        Poll, ForgetShowing, Die
  <2>4. CASE Show
    BY <1>4, <2>4
    DEF Show, ShowBlank, Darken, Localise, FetchFails, FetchRaises, Draw,
        DrawFails, HeldEnds, FiniteEnds, FiniteCut, ForgetCut, Shown, ShowThen, AfterShow
  <2>5. CASE RunIdleScreen
    BY <1>4, <2>5 DEF RunIdleScreen, IdleOn, IdleCheck, DrawClock, ClockFails, IdleBroken, IdleOff
  <2>6. CASE RunPlaylist
    BY <1>4, <2>6
    DEF RunPlaylist, PlaylistOn, PlaylistCheck, NextSlot, PlayItem, SkipItem, ItemCut, ItemEnds,
        PlaylistOff
  <2>7. CASE UNCHANGED vars
    BY <2>7 DEF vars
  <2>8. QED
    BY <2>1, <2>2, <2>3, <2>4, <2>5, <2>6, <2>7 DEF Next, Worker
<1>5. CASE \E p \in Playlists : SetPlaylist(p)
  <2>1. PICK p \in Playlists : SetPlaylist(p)
    BY <1>5
  <2>2. pc' = pc
    BY <2>1 DEF SetPlaylist
  <2>3. QED
    BY <1>1, <1>3, <2>1, <2>2
<1>6. QED
  BY <1>1, <1>2, <1>4, <1>5

\* A held display that is the newest stays where it is and stays marked, step by step.
LEMMA KeptUpStep ==
    ASSUME TypeOK, TypeOK', Locals, Handed, Stamped, PanelTaken, DrawnIsMarked, KeptUp, [Next]_vars,
           OnPanel(Stays)', Newest(panel)'
    PROVE  (showing = panel /\ pc \in Resting /\ (pc \in {"held", "shown", "then"} => config = panel))'
<1> DEFINE Goal == showing = panel /\ pc \in Resting
                   /\ (pc \in {"held", "shown", "then"} => config = panel)
<1>t. /\ takenAt \in Nat /\ blankedAt \in Nat /\ playlistAt \in Nat /\ calls \in Nat
      /\ takenAt' \in Nat /\ blankedAt' \in Nat /\ playlistAt' \in Nat
      /\ takenAt <= calls /\ blankedAt <= calls
  BY DEF TypeOK, Handed
<1>p. panel' \in Entry /\ panel'.n \in Nat /\ panel' \notin Faces \cup Playlists \cup {None, Dark}
      /\ panel'.what \in Held /\ Then[panel'.what] = None
  BY EntryFacts DEF OnPanel, Stays
<1>1. CASE panel' = config /\ (Draw \/ DrawFails)
  <2>1. /\ pc = "draw" /\ pc' \in {"held", "shown"}
        /\ UNCHANGED <<showing, config, playlistAt>>
    BY <1>p, <1>1 DEF Draw, DrawFails, Goto, rest, requests, locals
  <2>2. showing = config
    BY <1>t, <1>p, <1>1, <2>1 DEF DrawnIsMarked, Newest
  <2>3. QED
    BY <1>1, <2>1, <2>2 DEF Resting
<1>2. CASE panel' = panel
  <2>1. panel.n <= takenAt
    BY <1>p, <1>2 DEF PanelTaken
  <2>2. ~TakeNext /\ takenAt' = takenAt
    <3>1. ~(takenAt' > takenAt)
      BY <1>t, <1>p, <1>2, <2>1 DEF Newest
    <3>2. QED
      BY <3>1, StampsGrow
  <2>3. ~BlankPanel /\ ~Stop /\ \A p \in Playlists : ~SetPlaylist(p)
    BY <1>t, <1>p, <1>2, <2>1 DEF Newest, BlankPanel, Stop, SetPlaylist
  <2>4. Newest(panel)
    BY <1>t, <1>p, <1>2, <2>1, <2>2, StampsGrow DEF Newest
  <2>5. Goal
    BY <1>p, <1>2, <2>4 DEF KeptUp, OnPanel
  <2> USE DEF rest, standby, active, thread, locals, Jump, Goto, Resting
  <2>6. CASE Client
    BY <2>3, <2>5, <2>6 DEF Client, Submit, SetIdle, StopPlaylist
  <2>7. CASE StopReturns \/ \E p \in Playlists : RunsOut(p)
    BY <2>5, <2>7 DEF StopReturns, RunsOut
  <2>8. CASE Run
    BY <1>p, <1>2, <2>2, <2>4, <2>5, <2>8
    DEF Run, CheckStop, TakeNothing, FreeForPlaylist, PlaylistDue, IdleDue, FreeForIdle,
        Poll, ForgetShowing, Die, Newest
  <2>9. CASE Show
    BY <1>p, <1>2, <2>5, <2>9
    DEF Show, ShowBlank, Darken, Localise, FetchFails, FetchRaises, MarkShowing, Draw,
        DrawFails, HeldEnds, FiniteEnds, FiniteCut, ForgetCut, Shown, ShowThen, AfterShow, IsHeld
  <2>10. CASE RunIdleScreen
    BY <2>5, <2>10 DEF RunIdleScreen, IdleOn, IdleCheck, DrawClock, ClockFails, IdleBroken, IdleOff
  <2>11. CASE RunPlaylist
    BY <2>5, <2>11
    DEF RunPlaylist, PlaylistOn, PlaylistCheck, NextSlot, PlayItem, SkipItem, ItemCut, ItemEnds,
        PlaylistOff
  <2>12. CASE UNCHANGED vars
    BY <1>2, <2>5, <2>12 DEF vars
  <2>13. QED
    BY <1>2, <2>6, <2>7, <2>8, <2>9, <2>10, <2>11, <2>12 DEF Next, Worker
<1>3. QED
  BY <1>1, <1>2, <1>p, PanelSteps

Panel == PanelTaken /\ DrawnIsMarked /\ KeptUp

\* All that the thread and its locals keep, and the panel with them.
LEMMA PanelInvariant == Spec => [](TypeOK /\ Locals /\ Handed /\ Stamped /\ Panel)
<1> DEFINE Inv == TypeOK /\ Locals /\ Handed /\ Stamped /\ Panel
<1>1. Init => Inv
  <2> SUFFICES ASSUME Init PROVE Inv
    OBVIOUS
  <2>1. Panel
    BY EntryFacts DEF Init, Panel, PanelTaken, DrawnIsMarked, KeptUp, OnPanel
  <2>2. QED
    BY <2>1, TypeInit, HandedInit DEF Init, Stamped
<1>2. Inv /\ TypeOK' /\ [Next]_vars => Inv'
  <2> SUFFICES ASSUME Inv, TypeOK', [Next]_vars PROVE Inv'
    OBVIOUS
  <2>1. Locals' /\ Handed' /\ Stamped'
    BY ScreenStep, HandedStep, StampedStep
  <2>2. PanelTaken' /\ DrawnIsMarked'
    BY PanelTakenStep, DrawnIsMarkedStep DEF Panel
  <2>3. KeptUp'
    BY KeptUpStep DEF Panel, KeptUp
  <2>4. QED
    BY <2>1, <2>2, <2>3 DEF Panel
<1>3. QED
  BY <1>1, <1>2, TypeCorrect, PTL DEF Spec

\* A held display leaves the panel for something newer only, whatever the clock, the
\* playlist, failing fetches and failing drawings do meanwhile.
THEOREM HeldStays == Spec => HeldStaysUp
<1>1. ASSUME TypeOK, Locals, Handed, Stamped, Panel, [Next]_vars, OnPanel(Stays), panel' # panel
      PROVE  takenAt > panel.n \/ blankedAt > panel.n \/ playlistAt >= panel.n \/ stopping
  <2> SUFFICES ASSUME Newest(panel) PROVE FALSE
    BY <1>1, EntryFacts DEF OnPanel, Newest, TypeOK
  <2>1. pc \in Resting
    BY <1>1 DEF Panel, KeptUp
  <2>2. pc # "draw" /\ pc \notin Darkening \cup {"clock", "item"}
    BY <2>1 DEF Resting, Darkening
  <2>3. QED
    BY <1>1, <2>2, PanelSteps DEF Draw, DrawFails
<1>2. QED
  BY <1>1, PanelInvariant, PTL DEF Spec, HeldStaysUp

-----------------------------------------------------------------------------
(* What GET /display says of the panel.  Lit is inductive as long as every  *)
(* drawing succeeds: a cut always has something waiting behind it, so a     *)
(* text that blank() cut leaves the panel to what comes next.               *)

CutHasNext ==
    /\ cut /\ ~stopping => pending # <<>>
    /\ pc = "cut" => pending # <<>> \/ stopping
FiniteIsLit == pc \in {"finite", "cut"} => panel = config /\ ~IsHeld(config)
HeldIsMarked ==
    OnPanel(Held) /\ panel.n > playlistAt /\ pc \notin {"darken", "draw"} /\ ~ThreadEnds
        => showing = panel
FiniteIsLeft ==
    OnPanel(Displays \ (Held \cup AnimatedHold)) /\ panel.n = takenAt /\ ~stopping /\ ~ThreadEnds
        => pc = "finite" \/ (pc \in {"cut", "loop", "take"} /\ pending # <<>>)
Lit == CutHasNext /\ FiniteIsLit /\ HeldIsMarked /\ FiniteIsLeft

\* Only a take and stop() can empty the queue, and only blank() and stop() cut.
LEMMA QueueStays ==
    ASSUME TypeOK, [Next]_vars
    PROVE  /\ pending # <<>> /\ ~TakeNext /\ ~stopping' => pending' # <<>>
           /\ cut' /\ ~cut /\ ~stopping' => pending' # <<>>
           /\ TakeNext => ~cut'
<1>1. ASSUME NEW d \in Displays, Submit(d) PROVE pending' # <<>> /\ cut' = cut
  <2>1. [n |-> calls + 1, what |-> d] \in Entry
    BY EntryOfDisplay
  <2>2. QED
    BY <1>1, <2>1, EnqueueKeeps DEF Submit
<1>2. ASSUME BlankPanel PROVE pending' # <<>>
  BY <1>2 DEF BlankPanel
<1>3. ASSUME Stop PROVE stopping'
  BY <1>3 DEF Stop
<1>4. ASSUME TakeNothing PROVE pending' = pending /\ cut' = cut
  BY <1>4 DEF TakeNothing, queue
<1>5. ASSUME TakeNext PROVE ~cut'
  BY <1>5 DEF TakeNext, SpendCut
<1>6. ASSUME UNCHANGED <<queue, cut, stopping, takes, calls, submitted, blankedAt>>
      PROVE  pending' = pending /\ cut' = cut
  BY <1>6 DEF queue
<1>7. pending # <<>> /\ ~TakeNext /\ ~stopping' => pending' # <<>>
  BY <1>1, <1>2, <1>3, <1>4, <1>6, OnlyFive
<1>8. cut' /\ ~cut /\ ~stopping' => pending' # <<>>
  BY <1>1, <1>2, <1>3, <1>4, <1>5, <1>6, OnlyFive
<1>9. QED
  BY <1>5, <1>7, <1>8

\* What the thread's step into or out of these places is.
LEMMA FiniteSteps ==
    ASSUME [Next]_vars
    PROVE  /\ pc' = "cut" /\ pc # "cut" => FiniteCut
           /\ pc' = "finite" /\ pc # "finite" => Draw /\ config.what \notin Held
           /\ pc = "cut" /\ pc' # "cut" => ForgetCut
           /\ pc = "finite" /\ pc' # "finite" => FiniteEnds \/ FiniteCut
           /\ pc = "loop" /\ pc' # "loop" => CheckStop
           /\ pc = "take" /\ pc' # "take" => TakeNothing \/ TakeNext
           /\ pc = "draw" /\ pc' # "draw" => Draw \/ DrawFails
           /\ pc = "darken" /\ pc' # "darken" => Darken
           /\ ThreadEnds => ThreadEnds'
           /\ pc = "finite" /\ pc' = "finite" => panel' = panel /\ config' = config
           /\ pc = "cut" /\ pc' = "cut" => panel' = panel /\ config' = config
<1> USE DEF rest, standby, active, thread, locals, Jump, Goto, ThreadEnds
<1>1. CASE Client
  BY <1>1 DEF Client, Submit, BlankPanel, SetIdle, SetPlaylist, StopPlaylist, Stop
<1>2. CASE StopReturns \/ \E p \in Playlists : RunsOut(p)
  BY <1>2 DEF StopReturns, RunsOut
<1>3. CASE Run
  BY <1>3
  DEF Run, CheckStop, TakeNothing, TakeNext, FreeForPlaylist, PlaylistDue, IdleDue, FreeForIdle,
      Poll, ForgetShowing, Die
<1>4. CASE Show
  BY <1>4
  DEF Show, ShowBlank, Darken, Localise, FetchFails, FetchRaises, MarkShowing, Draw,
      DrawFails, HeldEnds, FiniteEnds, FiniteCut, ForgetCut, Shown, ShowThen, AfterShow
<1>5. CASE RunIdleScreen
  BY <1>5 DEF RunIdleScreen, IdleOn, IdleCheck, DrawClock, ClockFails, IdleBroken, IdleOff
<1>6. CASE RunPlaylist
  BY <1>6
  DEF RunPlaylist, PlaylistOn, PlaylistCheck, NextSlot, PlayItem, SkipItem, ItemCut, ItemEnds,
      PlaylistOff
<1>7. CASE UNCHANGED vars
  BY <1>7 DEF vars
<1>8. QED
  BY <1>1, <1>2, <1>3, <1>4, <1>5, <1>6, <1>7 DEF Next, Worker

LEMMA CutHasNextStep ==
    ASSUME TypeOK, Handed, CutHasNext, [Next]_vars
    PROVE  CutHasNext'
<1>1. stopping => stopping'
  BY StampsGrow
<1>2. (cut /\ ~stopping => pending # <<>>)'
  BY <1>1, QueueStays DEF CutHasNext
<1>3. ASSUME pc' = "cut", ~stopping' PROVE pending' # <<>>
  <2>1. ~TakeNext
    BY <1>3 DEF TakeNext, Goto
  <2>2. CASE pc = "cut"
    BY <1>1, <1>3, <2>1, <2>2, QueueStays DEF CutHasNext
  <2>3. CASE pc # "cut"
    BY <1>1, <1>3, <2>1, <2>3, FiniteSteps, QueueStays DEF CutHasNext, FiniteCut
  <2>4. QED
    BY <2>2, <2>3
<1>4. QED
  BY <1>2, <1>3 DEF CutHasNext

LEMMA FiniteIsLitStep ==
    ASSUME FiniteIsLit, [Next]_vars
    PROVE  FiniteIsLit'
<1> USE DEF FiniteIsLit, IsHeld
<1>1. CASE pc' = "finite" /\ pc = "finite"
  BY <1>1, FiniteSteps
<1>2. CASE pc' = "finite" /\ pc # "finite"
  BY <1>2, FiniteSteps DEF Draw, locals
<1>3. CASE pc' = "cut" /\ pc = "cut"
  BY <1>3, FiniteSteps
<1>4. CASE pc' = "cut" /\ pc # "cut"
  BY <1>4, FiniteSteps DEF FiniteCut, Jump, locals
<1>5. QED
  BY <1>1, <1>2, <1>3, <1>4

\* What can take the mark off a display, or put it elsewhere.
LEMMA MarkSteps ==
    ASSUME [Next]_vars
    PROVE  \/ UNCHANGED <<showing, playlistAt>>
           \/ \E p \in Playlists : SetPlaylist(p)
           \/ ShowBlank \/ MarkShowing \/ ForgetCut \/ Shown \/ ForgetShowing
<1> USE DEF rest, requests, Jump
<1>1. ASSUME Client, \A p \in Playlists : ~SetPlaylist(p) PROVE UNCHANGED <<showing, playlistAt>>
  BY <1>1 DEF Client, Submit, BlankPanel, SetIdle, StopPlaylist, Stop
<1>2. ASSUME StopReturns \/ \E p \in Playlists : RunsOut(p) PROVE UNCHANGED <<showing, playlistAt>>
  BY <1>2 DEF StopReturns, RunsOut
<1>3. ASSUME Run, ~ForgetShowing PROVE UNCHANGED <<showing, playlistAt>>
  BY <1>3
  DEF Run, CheckStop, TakeNothing, TakeNext, FreeForPlaylist, PlaylistDue, IdleDue, FreeForIdle,
      Poll, Die
<1>4. ASSUME Show, ~ShowBlank, ~MarkShowing, ~ForgetCut, ~Shown
      PROVE  UNCHANGED <<showing, playlistAt>>
  BY <1>4
  DEF Show, Darken, Localise, FetchFails, FetchRaises, Draw, DrawFails, HeldEnds, FiniteEnds,
      FiniteCut, ShowThen
<1>5. ASSUME RunIdleScreen PROVE UNCHANGED <<showing, playlistAt>>
  BY <1>5 DEF RunIdleScreen, IdleOn, IdleCheck, DrawClock, ClockFails, IdleBroken, IdleOff
<1>6. ASSUME RunPlaylist PROVE UNCHANGED <<showing, playlistAt>>
  BY <1>6
  DEF RunPlaylist, PlaylistOn, PlaylistCheck, NextSlot, PlayItem, SkipItem, ItemCut, ItemEnds,
      PlaylistOff
<1>7. CASE UNCHANGED vars
  BY <1>7 DEF vars, requests
<1>8. QED
  BY <1>1, <1>2, <1>3, <1>4, <1>5, <1>6, <1>7 DEF Next, Worker

LEMMA HeldIsMarkedStep ==
    ASSUME "draw" \notin Faults, TypeOK, TypeOK', Locals, Handed, Stamped, PanelTaken,
           DrawnIsMarked, FiniteIsLit, HeldIsMarked, [Next]_vars
    PROVE  HeldIsMarked'
<1> SUFFICES ASSUME OnPanel(Held)', panel'.n > playlistAt', pc' \notin {"darken", "draw"},
                    ~ThreadEnds'
             PROVE  showing' = panel'
  BY DEF HeldIsMarked
<1>e. panel' \in Entry /\ panel'.n \in Nat /\ panel' \notin Faces \cup Playlists \cup {None, Dark}
      /\ panel'.what \in Held
  BY EntryFacts DEF OnPanel
<1>t. /\ takenAt \in Nat /\ playlistAt \in Nat /\ calls \in Nat /\ playlistAt' \in Nat
      /\ takenAt <= calls
  BY DEF TypeOK, Handed
<1>1. CASE panel' = config /\ (Draw \/ DrawFails)
  <2>1. pc = "draw" /\ UNCHANGED <<showing, config, playlistAt>>
    BY <1>1 DEF Draw, DrawFails, rest, requests, locals
  <2>2. QED
    BY <1>1, <1>e, <1>t, <2>1 DEF DrawnIsMarked
<1>2. CASE panel' = panel /\ ~Draw
  <2>1. panel.n <= takenAt
    BY <1>e, <1>2 DEF PanelTaken
  <2>2. \A p \in Playlists : ~SetPlaylist(p)
    BY <1>e, <1>t, <1>2, <2>1 DEF SetPlaylist
  <2>3. ~ShowBlank /\ ~MarkShowing /\ ~ForgetShowing
    BY DEF ShowBlank, MarkShowing, ForgetShowing, Goto, ThreadEnds
  <2>4. ~ForgetCut
    BY <1>e, <1>2 DEF ForgetCut, FiniteIsLit, IsHeld
  <2>5. playlistAt' = playlistAt
    BY <2>2, <2>3, <2>4, MarkSteps DEF Shown, rest, requests
  <2>6. pc # "draw" /\ pc # "darken" /\ ~ThreadEnds
    BY <1>e, <1>2, FiniteSteps DEF Draw, DrawFails, Darken
  <2>7. showing = panel
    BY <1>e, <1>2, <2>5, <2>6 DEF HeldIsMarked, OnPanel
  <2>8. CASE Shown
    BY <1>e, <1>2, <2>7, <2>8 DEF Shown, IsHeld
  <2>9. QED
    BY <1>2, <2>2, <2>3, <2>4, <2>7, <2>8, MarkSteps
<1>3. Draw => panel' = config
  BY DEF Draw
<1>4. QED
  BY <1>1, <1>2, <1>3, <1>e, PanelSteps

LEMMA FiniteIsLeftStep ==
    ASSUME "draw" \notin Faults, TypeOK, TypeOK', Locals, Handed, Stamped, PanelTaken,
           CutHasNext, FiniteIsLeft, [Next]_vars
    PROVE  FiniteIsLeft'
<1> DEFINE Left == pc = "finite" \/ (pc \in {"cut", "loop", "take"} /\ pending # <<>>)
<1> SUFFICES ASSUME OnPanel(Displays \ (Held \cup AnimatedHold))', panel'.n = takenAt',
                    ~stopping', ~ThreadEnds'
             PROVE  Left'
  BY DEF FiniteIsLeft
<1>e. panel' \in Entry /\ panel'.n \in Nat /\ panel' \notin Faces \cup Playlists \cup {None, Dark}
      /\ panel'.what \in Displays \ (Held \cup AnimatedHold)
  BY EntryFacts DEF OnPanel
<1>1. ASSUME panel' = config, Draw PROVE Left'
  BY <1>1, <1>e DEF Draw, Goto
<1>2. CASE panel' = panel /\ ~Draw
  <2>1. ~TakeNext
    <3>1. panel.n <= takenAt /\ takenAt \in Nat /\ takenAt' \in Nat
      BY <1>e, <1>2 DEF PanelTaken, TypeOK
    <3>2. ~(takenAt' > takenAt)
      BY <1>e, <1>2, <3>1
    <3>3. QED
      BY <3>2, StampsGrow
  <2>2. takenAt' = takenAt /\ ~stopping /\ ~ThreadEnds
    BY <2>1, StampsGrow, FiniteSteps
  <2>3. Left
    BY <1>e, <1>2, <2>2 DEF FiniteIsLeft, OnPanel
  <2>4. pending # <<>> => pending' # <<>>
    BY <2>1, QueueStays
  <2>5. CASE pc = "finite"
    <3>1. ~FiniteEnds
      BY <1>e, <1>2 DEF FiniteEnds
    <3>2. FiniteCut => pc' = "cut" /\ pending # <<>>
      BY DEF FiniteCut, Jump, Goto, CutHasNext
    <3>3. QED
      BY <2>4, <2>5, <3>1, <3>2, FiniteSteps
  <2>6. CASE pc # "finite"
    <3>1. /\ ForgetCut => pc' = "loop"
          /\ CheckStop => pc' = "take"
          /\ ~TakeNothing
      BY <2>2, <2>3, <2>6 DEF ForgetCut, CheckStop, TakeNothing, Jump, Goto
    <3>2. QED
      BY <2>1, <2>3, <2>4, <2>6, <3>1, FiniteSteps
  <2>7. QED
    BY <2>5, <2>6
<1>3. Draw => panel' = config
  BY DEF Draw
<1>4. QED
  BY <1>1, <1>2, <1>3, <1>e, PanelSteps DEF DrawFails

\* While drawings succeed, nothing is left on the panel that GET /display does not
\* name, but a text that blank() cut for a display whose image could not be fetched.
THEOREM LitIsShowing ==
    ASSUME "draw" \notin Faults
    PROVE  Spec => []LitDisplayIsShowing
<1> DEFINE Before == TypeOK /\ Locals /\ Handed /\ Stamped /\ Panel
<1>1. Init => Lit
  <2> SUFFICES ASSUME Init PROVE Lit
    OBVIOUS
  <2>1. panel \notin Entry /\ pc = "loop" /\ ~cut
    BY EntryFacts DEF Init
  <2>2. QED
    BY <2>1 DEF Lit, CutHasNext, FiniteIsLit, HeldIsMarked, FiniteIsLeft, OnPanel
<1>2. Before /\ Before' /\ Lit /\ [Next]_vars => Lit'
  <2> SUFFICES ASSUME Before, Before', Lit, [Next]_vars PROVE Lit'
    OBVIOUS
  <2>1. CutHasNext' /\ FiniteIsLit'
    BY CutHasNextStep, FiniteIsLitStep DEF Lit
  <2>2. HeldIsMarked'
    BY HeldIsMarkedStep DEF Lit, Panel
  <2>3. FiniteIsLeft'
    BY FiniteIsLeftStep DEF Lit, Panel
  <2>4. QED
    BY <2>1, <2>2, <2>3 DEF Lit
<1>3. Before /\ Lit => LitDisplayIsShowing
  <2> SUFFICES ASSUME Before, Lit, Idling, OnPanel(Displays \ AnimatedHold), panel.n > playlistAt,
                      IsHeld(panel) \/ panel.n = takenAt
               PROVE  showing = panel
    BY DEF LitDisplayIsShowing
  <2>1. pc = "poll" /\ pending = <<>> /\ ~stopping
    BY DEF Idling, Handed, NoLostWakeup
  <2>2. CASE IsHeld(panel)
    BY <2>1, <2>2 DEF Lit, HeldIsMarked, OnPanel, IsHeld, ThreadEnds
  <2>3. CASE ~IsHeld(panel)
    BY <2>1, <2>3 DEF Lit, FiniteIsLeft, OnPanel, IsHeld, ThreadEnds
  <2>4. QED
    BY <2>2, <2>3
<1>4. QED
  BY <1>1, <1>2, <1>3, PanelInvariant, PTL DEF Spec

-----------------------------------------------------------------------------
(* The hand-off.  What waits, to a caller of submit(), is the queue without  *)
(* the instruction to blank at its front.                                    *)

Unblanked(q) == IF q # <<>> /\ Head(q).what = Blank THEN Tail(q) ELSE q

LEMMA UnblankedParts ==
    ASSUME NEW q \in Seq(Entry)
    PROVE  /\ Unblanked(q) \in Seq(Entry)
           /\ Len(Unblanked(q)) = Len(q) - Blanks(q)
           /\ \A i \in 1..Len(Unblanked(q)) :
                 i + Blanks(q) \in 1..Len(q) /\ Unblanked(q)[i] = q[i + Blanks(q)]
<1>1. CASE q # <<>> /\ q[1].what = Blank
  <2>1. Unblanked(q) = Tail(q) /\ Blanks(q) = 1
    BY <1>1 DEF Unblanked, Blanks
  <2>2. /\ Tail(q) \in Seq(Entry) /\ Len(Tail(q)) = Len(q) - 1 /\ Len(q) \in Nat
        /\ \A i \in 1..Len(Tail(q)) : Tail(q)[i] = q[i + 1]
    BY <1>1, HeadTailProperties
  <2>3. QED
    BY <2>1, <2>2
<1>2. CASE q = <<>> \/ q[1].what # Blank
  <2>1. Unblanked(q) = q /\ Blanks(q) = 0
    BY <1>2 DEF Unblanked, Blanks
  <2>2. QED
    BY <2>1
<1>3. QED
  BY <1>1, <1>2

\* A sequence that is a slice of another with one element behind it.
LEMMA AppendedSlice ==
    ASSUME NEW w \in Seq(Entry), NEW v \in Seq(Entry), NEW e \in Entry,
           NEW from \in 1..Len(w) + 1, NEW to \in 0..Len(w), from <= to + 1,
           Len(v) = to - from + 2, v[Len(v)] = e,
           \A i \in 1..Len(v) - 1 : v[i] = w[from + i - 1]
    PROVE  v = Append(SubSeq(w, from, to), e)
<1> DEFINE slice == SubSeq(w, from, to)
<1>1. Len(w) \in Nat /\ from \in Int /\ to \in Int /\ \A i \in from..to : w[i] \in Entry
  OBVIOUS
<1>2. /\ slice \in Seq(Entry)
      /\ Len(slice) = IF from <= to THEN to - from + 1 ELSE 0
      /\ \A i \in 1..to - from + 1 : slice[i] = w[from + i - 1]
  BY <1>1, SubSeqProperties
<1>3. Len(slice) = to - from + 1
  BY <1>1, <1>2
<1> HIDE DEF slice
<1>4. /\ Append(slice, e) \in Seq(Entry)
      /\ Len(Append(slice, e)) = Len(v)
      /\ Append(slice, e)[Len(v)] = e
      /\ \A i \in 1..Len(v) - 1 : Append(slice, e)[i] = slice[i]
  <2>1. /\ Append(slice, e) \in Seq(Entry)
        /\ Len(Append(slice, e)) = Len(slice) + 1
        /\ Append(slice, e)[Len(slice) + 1] = e
        /\ \A i \in 1..Len(slice) : Append(slice, e)[i] = slice[i]
    BY <1>2
  <2>2. Len(v) = Len(slice) + 1 /\ Len(v) - 1 = Len(slice)
    BY <1>1, <1>3
  <2>3. QED
    BY <2>1, <2>2
<1>5. \A i \in 1..Len(v) : i = Len(v) \/ i \in 1..Len(v) - 1
  BY <1>1
<1>6. \A i \in 1..Len(v) : v[i] = Append(slice, e)[i]
  BY <1>2, <1>3, <1>4, <1>5
<1>7. v = Append(slice, e)
  BY <1>4, <1>6, SeqEqual
<1>8. QED
  BY <1>7 DEF slice

\* What a submit() does to the queue, an offer does to what waits: the oldest go,
\* and the last if it is held.
LEMMA OfferStep ==
    ASSUME TypeOK, QueueShape, NEW e \in Entry, e.what # Blank, Enqueue(e)
    PROVE  /\ \E from \in 1..Len(Unblanked(pending)) + 1,
                 to \in {Len(Unblanked(pending)) - 1, Len(Unblanked(pending))} :
                 Unblanked(pending') = Append(SubSeq(Unblanked(pending), from, to), e)
           /\ Len(Unblanked(pending')) <= QueueSize
           /\ superseded' = superseded + (Len(Unblanked(pending)) + 1 - Len(Unblanked(pending')))
<1> DEFINE w == Unblanked(pending)
           v == Unblanked(pending')
           b == Blanks(pending)
           c == Blanks(pending')
           kept == Kept(pending)
<1>1. /\ pending \in Seq(Entry) /\ pending' \in Seq(Entry) /\ pending' # <<>>
      /\ Len(pending') <= QueueSize /\ QueueSize \in Nat
      /\ pending'[Len(pending')] = e
  BY EnqueueKeeps, WorkerAssumption DEF TypeOK
<1>2. PICK over \in Nat :
         /\ Len(pending') = Len(kept) + 1 - over
         /\ \A i \in 1..Len(pending') - 1 :
               /\ i + over \in 1..Len(kept)
               /\ pending'[i] = kept[i + over]
  BY EnqueueKeeps
<1>3. /\ kept \in Seq(Entry)
      /\ Len(kept) \in {Len(pending), Len(pending) - 1}
      /\ \A i \in 1..Len(kept) : i \in 1..Len(pending) /\ kept[i] = pending[i]
  BY <1>1, KeptType
<1>4. /\ w \in Seq(Entry) /\ Len(w) = Len(pending) - b
      /\ \A i \in 1..Len(w) : i + b \in 1..Len(pending) /\ w[i] = pending[i + b]
  BY <1>1, UnblankedParts
<1>5. /\ v \in Seq(Entry) /\ Len(v) = Len(pending') - c
      /\ \A i \in 1..Len(v) : i + c \in 1..Len(pending') /\ v[i] = pending'[i + c]
  BY <1>1, UnblankedParts
<1>6. b \in {0, 1} /\ c \in {0, 1}
  BY DEF Blanks
<1>l. /\ Len(pending) \in Nat /\ Len(kept) \in Nat
      /\ Len(pending') \in Nat /\ Len(pending') # 0
  BY <1>1, <1>3
<1>d. DOMAIN pending = 1..Len(pending)
  BY <1>1
<1>7. BlankFirst(pending)
  BY <1>d DEF QueueShape, BlankFirst
<1>8. pending # <<>> /\ pending[1].what = Blank => Len(kept) >= 1
  <2> SUFFICES ASSUME pending # <<>>, pending[1].what = Blank, Len(pending) = 1 PROVE ~GivesWay(pending)
    BY <1>1, <1>3, <1>l DEF Kept
  <2>1. QED
    BY EntryFacts DEF GivesWay, IsHeld
<1>9. b = 1 => Len(kept) >= 1
  BY <1>8 DEF Blanks
<1>10. c = IF over = 0 THEN b ELSE 0
  <2>1. CASE Len(pending') = 1
    <3>1. over = Len(kept)
      <4>1. Len(pending') = Len(kept) + 1 - over
        BY <1>2
      <4>2. QED
        BY <1>l, <2>1, <4>1
    <3>2. c = 0
      BY <1>1, <2>1 DEF Blanks
    <3>3. QED
      BY <1>6, <1>9, <3>1, <3>2
  <2>2. CASE Len(pending') > 1
    <3>1. 1 + over \in 1..Len(pending) /\ pending'[1] = pending[1 + over]
      <4>1. 1 \in 1..Len(pending') - 1
        BY <1>l, <2>2
      <4>2. 1 + over \in 1..Len(kept) /\ pending'[1] = kept[1 + over]
        BY <1>2, <4>1
      <4>3. QED
        BY <1>3, <4>2
    <3>2. pending # <<>>
      BY <3>1, <1>1
    <3>3. CASE over = 0
      BY <1>1, <3>1, <3>2, <3>3 DEF Blanks
    <3>4. CASE over # 0
      <4>1. pending'[1].what # Blank
        BY <1>2, <1>7, <3>1, <3>4 DEF BlankFirst
      <4>2. QED
        BY <3>4, <4>1 DEF Blanks
    <3>5. QED
      BY <3>3, <3>4
  <2>3. Len(pending') = 1 \/ Len(pending') > 1
    <3>1. \A n \in Nat : n = 0 \/ n = 1 \/ n > 1
      OBVIOUS
    <3>2. QED
      BY <1>l, <3>1
  <2>4. QED
    BY <2>1, <2>2, <2>3
<1> HIDE DEF w, v, b, c, kept
<1> DEFINE from == over + 1 - (b - c)
           to == Len(w) - (Len(pending) - Len(kept))
<1>11. Len(w) \in Nat /\ Len(v) \in Nat
  BY <1>4, <1>5
<1>12. over <= Len(kept)
  BY <1>2, <1>l
<1>13. to \in {Len(w) - 1, Len(w)} /\ to \in 0..Len(w)
  <2>1. Len(pending) - Len(kept) \in {0, 1} /\ Len(pending) - b >= Len(pending) - Len(kept)
    <3>1. Len(kept) = Len(pending) \/ Len(kept) = Len(pending) - 1
      BY <1>3
    <3>2. Len(pending) - Len(kept) \in {0, 1} /\ Len(kept) >= b
      BY <1>6, <1>9, <1>l, <3>1
    <3>3. QED
      BY <1>6, <1>l, <3>2
  <2>2. Len(w) = Len(pending) - b
    BY <1>4
  <2>3. QED
    BY <1>11, <2>1, <2>2
<1>14. from \in 1..Len(w) + 1 /\ from <= to + 1 /\ Len(v) = to - from + 2
  BY <1>2, <1>3, <1>4, <1>5, <1>6, <1>10, <1>9, <1>11, <1>12, <1>13, <1>l
<1>15. v[Len(v)] = e
  <2>1. Len(v) \in 1..Len(v) /\ Len(v) + c = Len(pending')
    BY <1>5, <1>6, <1>11, <1>13, <1>14
  <2>2. QED
    BY <1>1, <1>5, <2>1
<1>16. \A i \in 1..Len(v) - 1 : v[i] = w[from + i - 1]
  <2> SUFFICES ASSUME NEW i \in 1..Len(v) - 1 PROVE v[i] = w[from + i - 1]
    OBVIOUS
  <2>1. i \in 1..Len(v) /\ i + c \in 1..Len(pending') - 1
    BY <1>5, <1>6, <1>11, <1>l
  <2>2. v[i] = pending[i + c + over] /\ i + c + over \in 1..Len(kept)
    BY <1>2, <1>3, <1>5, <2>1
  <2>3. from + i - 1 \in 1..Len(w)
    BY <1>11, <1>13, <1>14
  <2>4. w[from + i - 1] = pending[from + i - 1 + b] /\ from + i - 1 + b = i + c + over
    BY <1>2, <1>4, <1>6, <2>3
  <2>5. QED
    BY <2>2, <2>4
<1> HIDE DEF from, to
<1>17. v = Append(SubSeq(w, from, to), e)
  <2>1. w \in Seq(Entry) /\ v \in Seq(Entry)
    BY <1>4, <1>5
  <2>2. QED
    BY <1>13, <1>14, <1>15, <1>16, <2>1, AppendedSlice
<1>18. Len(v) <= QueueSize
  BY <1>1, <1>5, <1>6, <1>l
<1>19. BlankFirst(pending')
  <2> SUFFICES ASSUME NEW i \in 1..Len(pending'), pending'[i].what = Blank PROVE i = 1
    BY DEF BlankFirst
  <2>1. i \in 1..Len(pending') - 1
    BY <1>1, <1>l
  <2>2. i + over \in 1..Len(pending) /\ pending'[i] = pending[i + over]
    BY <1>2, <1>3, <2>1 DEF kept
  <2>3. QED
    BY <1>7, <2>1, <2>2 DEF BlankFirst
<1>20. Waiting(pending) = Len(w) /\ Waiting(pending') = Len(v)
  <2>1. Waiting(pending) = Len(pending) - b
    BY <1>1, <1>7, WaitingCount DEF b
  <2>2. Waiting(pending') = Len(pending') - c
    BY <1>1, <1>19, WaitingCount DEF c
  <2>3. QED
    BY <1>4, <1>5, <2>1, <2>2
<1>21. superseded' = superseded + (Len(w) + 1 - Len(v))
  <2>1. Waiting(pending') + superseded' = Waiting(pending) + superseded + 1
    BY EnqueueConserves
  <2>2. superseded' \in Nat /\ superseded \in Nat
    BY EnqueueCounts DEF TypeOK
  <2>3. QED
    BY <1>11, <1>20, <2>1, <2>2
<1>22. QED
  BY <1>13, <1>14, <1>17, <1>18, <1>21 DEF w, v

\* What _take does to the queue: a display is taken from what waits, an instruction
\* to blank is not.
LEMMA TakeStep ==
    ASSUME TypeOK, QueueShape, TakeNext
    PROVE  \/ /\ Unblanked(pending) # <<>> /\ ~stopping
              /\ Unblanked(pending') = Tail(Unblanked(pending))
              /\ taken' = taken + 1
           \/ /\ Unblanked(pending') = Unblanked(pending)
              /\ taken' = taken
<1>1. /\ pending \in Seq(Entry) /\ pending # <<>> /\ pending' = Tail(pending) /\ ~stopping
      /\ taken' = taken + Waiting(<<Head(pending)>>) /\ taken \in Nat
  BY DEF TypeOK, TakeNext
<1>2. /\ Head(pending) = pending[1] /\ Head(pending) \in Entry /\ Len(pending) \in Nat
      /\ Tail(pending) \in Seq(Entry) /\ Len(Tail(pending)) = Len(pending) - 1
      /\ \A i \in 1..Len(Tail(pending)) : Tail(pending)[i] = pending[i + 1]
  BY <1>1, HeadTailProperties
<1>3. BlankFirst(pending)
  BY <1>1 DEF QueueShape, BlankFirst
<1>4. Unblanked(Tail(pending)) = Tail(pending)
  <2>1. Tail(pending) # <<>> => Tail(pending)[1] = pending[2] /\ 2 \in 1..Len(pending)
    BY <1>2
  <2>2. Tail(pending) # <<>> => Tail(pending)[1].what # Blank
    BY <1>3, <2>1 DEF BlankFirst
  <2>3. Tail(pending) # <<>> => Head(Tail(pending)) = Tail(pending)[1]
    BY <1>2
  <2>4. QED
    BY <2>2, <2>3 DEF Unblanked
<1>5. Waiting(<<Head(pending)>>) = 1 - Blanks(<<Head(pending)>>)
  <2>1. <<Head(pending)>> \in Seq(Entry) /\ Len(<<Head(pending)>>) = 1
        /\ BlankFirst(<<Head(pending)>>)
    BY <1>2 DEF BlankFirst
  <2>2. QED
    BY <2>1, WaitingCount
<1>6. CASE Head(pending).what = Blank
  <2>1. Blanks(<<Head(pending)>>) = 1 /\ Unblanked(pending) = Tail(pending)
    BY <1>1, <1>6 DEF Blanks, Unblanked
  <2>2. QED
    BY <1>1, <1>4, <1>5, <2>1
<1>7. CASE Head(pending).what # Blank
  <2>1. Blanks(<<Head(pending)>>) = 0 /\ Unblanked(pending) = pending
    BY <1>7 DEF Blanks, Unblanked
  <2>2. QED
    BY <1>1, <1>4, <1>5, <2>1
<1>8. QED
  BY <1>6, <1>7

\* The clients and the thread together are a hand-off, step by step: what a caller of
\* submit() sees of the queue is what DisplayHandOff promises it.
THEOREM WorkerHandsOff == Spec => HandOff!Init /\ [][HandOff!Next]_(HandOff!vars)
<1> USE DEF HandOff!vars
<1>1. Init => HandOff!Init
  BY DEF Init, HandOff!Init
<1>2. TypeOK /\ Handed /\ [Next]_vars => [HandOff!Next]_(HandOff!vars)
  <2> SUFFICES ASSUME TypeOK, Handed, [Next]_vars
               PROVE  [HandOff!Next]_(HandOff!vars)
    OBVIOUS
  <2>t. QueueShape /\ pending \in Seq(Entry)
    BY DEF TypeOK, Handed
  <2>1. ASSUME NEW d \in Displays, Submit(d) PROVE HandOff!Next
    <3> DEFINE e == [n |-> calls + 1, what |-> d]
    <3>1. e \in Entry /\ e.what # Blank /\ e.n = calls + 1
      BY EntryOfDisplay, WorkerAssumption
    <3>2. e \in [n : 1..MaxCalls, what : Displays]
      BY <2>1, WorkerAssumption DEF Submit, TypeOK
    <3>3. Enqueue(e) /\ submitted' = submitted + 1 /\ UNCHANGED <<taken, stopping>>
      BY <2>1 DEF Submit, takes
    <3> HIDE DEF e
    <3>4. \A i \in DOMAIN Unblanked(pending) : Unblanked(pending)[i] # e
      <4>1. \A i \in 1..Len(pending) : pending[i].n <= calls /\ pending[i].n \in Nat
        <5>1. \A i \in 1..Len(pending) : pending[i] \in Entry /\ i \in DOMAIN pending
          BY <2>t
        <5>2. QED
          BY <5>1, EntryFacts DEF Handed
      <4>2. \A i \in 1..Len(pending) : pending[i] # e
        BY <3>1, <4>1 DEF TypeOK
      <4>3. \A i \in DOMAIN Unblanked(pending) :
               i + Blanks(pending) \in 1..Len(pending)
               /\ Unblanked(pending)[i] = pending[i + Blanks(pending)]
        BY <2>t, UnblankedParts
      <4>4. QED
        BY <4>2, <4>3
    <3>5. HandOff!Offer(e)
      BY <2>t, <3>1, <3>3, <3>4, OfferStep DEF HandOff!Offer, Unblanked
    <3>6. QED
      BY <3>2, <3>5 DEF HandOff!Next
  <2>2. ASSUME BlankPanel \/ Stop PROVE HandOff!Next
    <3>1. Waiting(pending) = Len(Unblanked(pending))
      <4>1. BlankFirst(pending)
        BY <2>t DEF QueueShape, BlankFirst
      <4>2. QED
        BY <2>t, <4>1, WaitingCount, UnblankedParts
    <3>2. /\ superseded' = superseded + Waiting(pending)
          /\ UNCHANGED <<submitted, taken>>
          /\ stopping' = stopping \/ stopping' = TRUE
      BY <2>2 DEF BlankPanel, Stop, ClearPending, takes, requests
    <3>3. Unblanked(pending') = <<>>
      <4> DEFINE b == [n |-> calls + 1, what |-> Blank]
      <4>1. pending' = <<>> \/ pending' = <<b>>
        BY <2>2 DEF BlankPanel, Stop
      <4>2. b.what = Blank
        OBVIOUS
      <4> HIDE DEF b
      <4>3. Head(<<b>>) = b /\ Tail(<<b>>) = <<>> /\ <<b>> # <<>>
        OBVIOUS
      <4>4. QED
        BY <4>1, <4>2, <4>3 DEF Unblanked
    <3>4. HandOff!Discard
      BY <3>1, <3>2, <3>3 DEF HandOff!Discard, Unblanked
    <3>5. QED
      BY <3>4 DEF HandOff!Next
  <2>3. ASSUME TakeNext PROVE [HandOff!Next]_(HandOff!vars)
    <3>1. UNCHANGED <<submitted, superseded, stopping>>
      BY <2>3 DEF TakeNext, requests
    <3>2. CASE /\ Unblanked(pending) # <<>> /\ ~stopping
               /\ Unblanked(pending') = Tail(Unblanked(pending))
               /\ taken' = taken + 1
      BY <3>1, <3>2 DEF HandOff!Take, HandOff!Next, Unblanked
    <3>3. CASE Unblanked(pending') = Unblanked(pending) /\ taken' = taken
      BY <3>1, <3>3 DEF Unblanked
    <3>4. QED
      BY <2>3, <2>t, <3>2, <3>3, TakeStep
  <2>4. ASSUME TakeNothing \/ UNCHANGED <<queue, cut, stopping, takes, calls, submitted, blankedAt>>
        PROVE  UNCHANGED HandOff!vars
    BY <2>4 DEF TakeNothing, queue, takes, requests
  <2>5. QED
    BY <2>1, <2>2, <2>3, <2>4, OnlyFive
<1>3. TypeOK /\ Handed /\ TypeOK' /\ [Next]_vars => Handed'
  BY HandedStep
<1>4. QED
  BY <1>1, <1>2, <1>3, HandedInit, TypeCorrect, PTL DEF Spec
=============================================================================

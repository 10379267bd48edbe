--------------------------- MODULE DisplayWorker ---------------------------
(***************************************************************************)
(* The thread that owns the LED panel (display/worker.py).                 *)
(*                                                                         *)
(* Clients (the stream consumer's event loop and the HTTP handlers) call   *)
(* submit, blank, set_idle, set_playlist and stop at any moment; one       *)
(* worker thread takes from the queue and draws.  Each client call holds   *)
(* the lock from start to end and is one action.  The worker is split      *)
(* wherever it gives the lock up: between any two of its steps every       *)
(* client call can happen.  Consecutive unlocked reads are one step where  *)
(* a change between them has the same effect as the same change just       *)
(* before or just after both.                                              *)
(***************************************************************************)
EXTENDS Integers, Sequences, FiniteSets

CONSTANTS
    Displays,      \* the DisplayConfigs that are submitted
    Held,          \* those _is_held() says stay up: hold, and a still mode
    Remote,        \* those whose image is an https URL still to be fetched
    AnimatedHold,  \* hold set on an animated kind: a gif with one frame, or
                   \* whose file is gone, falls back to a still mode
    Then,          \* Then[d]: what an overlay played over, or None
    Faces,         \* the idle screens
    Playlists,     \* the playlist objects, each made once
    QueueSize,     \* DISPLAY_QUEUE
    MaxCalls,      \* bound: how many times submit() and blank() are called
    Calls,         \* which kinds of client calls are made
    Faults,        \* which failures the environment has
    None, Blank, Dark

ASSUME WorkerAssumption ==
    /\ QueueSize \in Nat \ {0}
    /\ MaxCalls \in Nat
    /\ Held \subseteq Displays
    /\ Remote \subseteq Displays
    /\ AnimatedHold \subseteq Displays \ Held
    /\ Then \in [Displays -> Displays \cup {None}]
    /\ Calls \subseteq {"blank", "idle", "playlist", "stop"}
    /\ Faults \subseteq {"fetch", "oserror", "draw"}
    /\ Blank \notin Displays
    /\ None \notin Displays \cup Faces \cup Playlists
    /\ \A x \in Faces \cup Playlists \cup {None, Dark} : x \notin [n : Nat, what : Displays \cup {Blank}]

VARIABLES
    \* what the lock protects
    pending, superseded, showing, idle, idle_active, playlist, playlist_active,
    \* the three events
    wake, cut, stopping,
    \* the thread: where it is, and its locals
    pc, config, then_due, captured,
    \* what the LEDs show
    panel,
    \* the world around it: playlists made and run out, the caller of stop()
    made, expired, stopper,
    \* history: stamps of the calls, counts of submissions
    calls, submitted, taken, takenAt, blankedAt, playlistAt

queue     == <<pending, superseded>>
events    == <<wake, cut, stopping>>
standby   == <<idle, playlist>>
active    == <<idle_active, playlist_active>>
locals    == <<config, then_due, captured>>
thread    == <<pc, locals>>
world     == <<made, expired, stopper>>
takes     == <<taken, takenAt>>
requests  == <<calls, submitted, blankedAt, playlistAt>>
\* what a step of the thread that neither takes nor switches leaves alone
rest      == <<queue, events, standby, world, takes, requests>>
vars == <<queue, events, standby, active, showing, panel, thread, world,
          takes, requests>>

\* A queue entry: what to show, and the number of the call that put it there.
Entry == [n : Nat, what : Displays \cup {Blank}]

Init ==
    /\ pending = <<>> /\ superseded = 0
    /\ wake = FALSE /\ cut = FALSE /\ stopping = FALSE
    /\ idle \in Faces \cup {None} /\ playlist = None
    /\ idle_active = FALSE /\ playlist_active = FALSE
    /\ showing = None /\ panel = Dark
    /\ pc = "loop" /\ config = None /\ then_due = FALSE /\ captured = None
    /\ made = {} /\ expired = {} /\ stopper = "none"
    /\ taken = 0 /\ takenAt = 0
    /\ calls = 0 /\ submitted = 0 /\ blankedAt = 0 /\ playlistAt = 0

-----------------------------------------------------------------------------
(* The queue. *)

\* _is_held: BLANK is no display and is never held.
IsHeld(e) == e.what \in Held

\* How many entries of q are displays (the `pending` property; what _drop counts).
Waiting(q) == Cardinality({i \in DOMAIN q : q[i].what # Blank})

\* Mutant: a waiting held display is kept.
GivesWay_Never(q) == FALSE

\* A pending held display is last, and gives way to anything newer.
GivesWay(q) == q # <<>> /\ IsHeld(q[Len(q)])

\* Mutant: one entry too many fits.
Excess_OffByOne(len) == IF len > QueueSize + 1 THEN len - QueueSize ELSE 0

\* How many of the oldest entries a queue of length len is over its size.
Excess(len) == IF len > QueueSize THEN len - QueueSize ELSE 0

\* What is left of the queue once a held display gave way.
Kept(q) == IF GivesWay(q) THEN SubSeq(q, 1, Len(q) - 1) ELSE q

\* Mutant: popleft and pop swapped, a full queue drops the newest.
Enqueue_DropsNewest(e) ==
    LET full == Append(Kept(pending), e)
        over == Excess(Len(full))
    IN  /\ pending' = SubSeq(full, 1, Len(full) - over)
        /\ superseded' = superseded + Waiting(pending) + 1 - Waiting(pending')

\* Mutant: the new entry goes to the front of the queue.
Enqueue_InFront(e) ==
    LET full == <<e>> \o Kept(pending)
        over == Excess(Len(full))
    IN  /\ pending' = SubSeq(full, over + 1, Len(full))
        /\ superseded' = superseded + Waiting(pending) + 1 - Waiting(pending')

Enqueue(e) ==
    LET full == Append(Kept(pending), e)
        over == Excess(Len(full))
    IN  /\ pending' = SubSeq(full, over + 1, Len(full))
        /\ superseded' = superseded + (IF GivesWay(pending) THEN 1 ELSE 0)
                                    + Waiting(SubSeq(full, 1, over))

\* Mutant: what is cleared away is not counted.
ClearPending_Uncounted == superseded' = superseded

ClearPending ==
    superseded' = superseded + Waiting(pending)

-----------------------------------------------------------------------------
(* Calls from the clients. *)

\* Mutant: nobody is woken.
Submit_NoWake(d) ==
    /\ calls < MaxCalls
    /\ Enqueue([n |-> calls + 1, what |-> d])
    /\ calls' = calls + 1 /\ submitted' = submitted + 1
    /\ UNCHANGED <<events, standby, active, showing, panel, thread, world,
                   takes, blankedAt, playlistAt>>

Submit(d) ==
    /\ calls < MaxCalls
    /\ Enqueue([n |-> calls + 1, what |-> d])
    /\ wake' = TRUE
    /\ calls' = calls + 1 /\ submitted' = submitted + 1
    /\ UNCHANGED <<cut, stopping, standby, active, showing, panel, thread, world,
                   takes, blankedAt, playlistAt>>

\* blank(): drop what waits, end the playlist, cut what is on the panel.
BlankPanel ==
    /\ calls < MaxCalls
    /\ ClearPending
    /\ pending' = <<[n |-> calls + 1, what |-> Blank]>>
    /\ playlist' = None
    /\ cut' = TRUE /\ wake' = TRUE
    /\ calls' = calls + 1 /\ blankedAt' = calls + 1
    /\ UNCHANGED <<stopping, idle, active, showing, panel, thread, world,
                   takes, submitted, playlistAt>>

SetIdle(f) ==
    /\ idle' = f
    /\ UNCHANGED <<queue, events, playlist, active, showing, panel, thread, world,
                   takes, calls, submitted, blankedAt, playlistAt>>

\* set_playlist(p): a held display on the panel gives way to it.
SetPlaylist(p) ==
    /\ p \notin made
    /\ made' = made \cup {p}
    /\ playlist' = p
    /\ showing' = IF showing # None /\ IsHeld(showing) THEN None ELSE showing
    /\ wake' = TRUE
    /\ playlistAt' = calls
    /\ UNCHANGED <<queue, cut, stopping, idle, active, panel, thread, expired, stopper,
                   takes, calls, submitted, blankedAt>>

\* Mutant: a running playlist is left to notice by itself.
StopPlaylist_NoWake ==
    /\ playlist' = None
    /\ UNCHANGED <<queue, events, idle, active, showing, panel, thread, world,
                   takes, requests>>

\* set_playlist(None), which DELETE /display/playlist calls whether or not
\* there is a playlist.
StopPlaylist ==
    /\ playlist' = None
    /\ wake' = TRUE
    /\ UNCHANGED <<queue, cut, stopping, idle, active, showing, panel, thread, world,
                   takes, requests>>

\* Mutant: a held display is left to notice by itself.
Stop_NoWake ==
    /\ stopper = "none" /\ stopper' = "joining"
    /\ ClearPending
    /\ pending' = <<>>
    /\ stopping' = TRUE /\ cut' = TRUE
    /\ UNCHANGED <<wake, standby, active, showing, panel, thread, made, expired,
                   takes, requests>>

\* stop(), up to the join.
Stop ==
    /\ stopper = "none" /\ stopper' = "joining"
    /\ ClearPending
    /\ pending' = <<>>
    /\ stopping' = TRUE /\ cut' = TRUE /\ wake' = TRUE
    /\ UNCHANGED <<standby, active, showing, panel, thread, made, expired,
                   takes, requests>>

\* The join ends with the thread, or gives up: only a fetch can outlast it.
StopReturns ==
    /\ stopper = "joining" /\ stopper' = "returned"
    /\ \/ pc = "dead"
       \/ pc = "show" /\ config.what \in Remote
    /\ UNCHANGED <<queue, events, standby, active, showing, panel, thread, made, expired,
                   takes, requests>>

\* The wall clock passes the end of a playlist's `total`.
RunsOut(p) ==
    /\ p \in made \ expired
    /\ expired' = expired \cup {p}
    /\ UNCHANGED <<queue, events, standby, active, showing, panel, thread, made, stopper,
                   takes, requests>>

-----------------------------------------------------------------------------
(* The worker thread: the loop of _run. *)

Goto(l) == pc' = l

\* A step that only reads, and goes on at l.
Jump(l) == Goto(l) /\ UNCHANGED <<rest, active, showing, panel, locals>>

CheckStop ==
    /\ pc = "loop"
    /\ Jump(IF stopping THEN "exit" ELSE "take")

\* Mutant: a wake with nothing to take is not spent.
TakeNothing_KeepsWake ==
    /\ pc = "take"
    /\ stopping \/ pending = <<>>
    /\ config' = None /\ then_due' = FALSE
    /\ Goto("nothing")
    /\ UNCHANGED <<queue, events, standby, active, showing, panel, captured, world,
                   takes, requests>>

\* _take with nothing to hand out: the wake is spent, unless stopping.
TakeNothing ==
    /\ pc = "take"
    /\ stopping \/ pending = <<>>
    /\ wake' = (stopping /\ wake)
    /\ config' = None /\ then_due' = FALSE
    /\ Goto("nothing")
    /\ UNCHANGED <<queue, cut, stopping, standby, active, showing, panel, captured, world,
                   takes, requests>>

\* Mutant: the wake is spent with whatever is taken.
WakeAfter_Spent(left) == FALSE

\* The wake stays set while more is waiting.
WakeAfter(left) == left # <<>>

\* Mutant: a blank() that was superseded leaves its cut behind.
SpendCut_Never == cut' = cut

SpendCut == cut' = FALSE

\* _take of the oldest entry.
TakeNext ==
    /\ pc = "take" /\ ~stopping /\ pending # <<>>
    /\ config' = Head(pending) /\ pending' = Tail(pending)
    /\ wake' = WakeAfter(Tail(pending))
    /\ SpendCut
    /\ taken' = taken + Waiting(<<Head(pending)>>)
    /\ takenAt' = Head(pending).n
    /\ then_due' = TRUE
    /\ Goto("show")
    /\ UNCHANGED <<superseded, stopping, standby, active, showing, panel, captured, world,
                   requests>>

\* Mutant: a playlist that is due does not ask what is on the panel.
FreeForPlaylist_Always ==
    /\ pc = "nothing"
    /\ Jump("due")

\* `self.showing is None`, asked once for the playlist and again for the idle screen.
FreeForPlaylist ==
    /\ pc = "nothing"
    /\ Jump(IF showing = None THEN "due" ELSE "idle?")

\* _playlist_due: one that ran out is dropped.
PlaylistDue ==
    /\ pc = "due"
    /\ Goto(IF playlist \in Playlists \ expired THEN "playlist on" ELSE "idle?")
    /\ playlist' = IF playlist \in expired THEN None ELSE playlist
    /\ UNCHANGED <<queue, events, idle, active, showing, panel, locals, world, takes, requests>>

IdleDue ==
    /\ pc = "idle?"
    /\ Jump(IF idle # None THEN "free?" ELSE "poll")

FreeForIdle ==
    /\ pc = "free?"
    /\ Jump(IF showing = None THEN "idle on" ELSE "poll")

\* wake.wait(timeout): over with a wake or without one.
Poll ==
    /\ pc = "poll"
    /\ Jump("loop")

\* The finally of _run, after the loop or on an exception nobody caught.
ForgetShowing ==
    /\ pc = "exit"
    /\ showing' = None
    /\ Goto("exit dark")
    /\ UNCHANGED <<rest, active, panel, locals>>

Die ==
    /\ pc = "exit dark"
    /\ panel' = Dark
    /\ Goto("dead")
    /\ UNCHANGED <<rest, active, showing, locals>>

-----------------------------------------------------------------------------
(* One display: _show, and _show_then after it. *)

\* Where _run goes on once a display was shown, skipped or has failed.
AfterShow == IF then_due THEN "then" ELSE "loop"

ShowBlank ==
    /\ pc = "show" /\ config.what = Blank
    /\ showing' = None
    /\ Goto("darken")
    /\ UNCHANGED <<rest, active, panel, locals>>

\* Mutant: cleared, but the empty canvas is not swapped in.
Darken_NoSwap ==
    /\ pc = "darken"
    /\ Jump("loop")

Darken ==
    /\ pc = "darken"
    /\ panel' = Dark
    /\ Goto("loop")
    /\ UNCHANGED <<rest, active, showing, locals>>

\* _localise: nothing to fetch, or the fetch (of any length) worked.
Localise ==
    /\ pc = "show" /\ config.what # Blank
    /\ Jump("mark")

\* RemoteImageError: the display is skipped.
FetchFails ==
    /\ pc = "show" /\ config.what \in Remote /\ "fetch" \in Faults
    /\ Jump(AfterShow)

\* Any other exception of fetch_image (the cache directory is full or not
\* writable, a file is pruned while it is listed) passes _localise, _show and _run.
FetchRaises ==
    /\ pc = "show" /\ config.what \in Remote /\ "oserror" \in Faults
    /\ Jump("exit")

MarkShowing ==
    /\ pc = "mark"
    /\ showing' = config
    /\ Goto("draw")
    /\ UNCHANGED <<rest, active, panel, locals>>

\* display_event up to its first wait.  An animated kind that falls back to a
\* still mode passes `hold` on to its wait.
Draw ==
    /\ pc = "draw"
    /\ panel' = config
    /\ \/ config.what \in Held \cup AnimatedHold /\ Goto("held")
       \/ config.what \notin Held /\ Goto("finite")
    /\ UNCHANGED <<rest, active, showing, locals>>

\* A broken font or image, before or after the first frame is swapped in.
DrawFails ==
    /\ pc = "draw" /\ "draw" \in Faults
    /\ panel' \in {panel, config}
    /\ Goto("shown")
    /\ UNCHANGED <<rest, active, showing, locals>>

\* _wait with hold: until anything sets the wake.  The panel is left lit.
HeldEnds ==
    /\ pc = "held" /\ wake
    /\ Jump("shown")

\* Mutant: the mode returns without clearing the panel.
FiniteEnds_LeavesLit ==
    /\ pc = "finite" /\ (stopping \/ ~cut)
    /\ Jump("shown")

\* _wait without hold: the time is over, or stop() ended it, and the mode
\* clears the panel.
FiniteEnds ==
    /\ pc = "finite" /\ (stopping \/ ~cut)
    /\ panel' = Dark
    /\ Goto("shown")
    /\ UNCHANGED <<rest, active, showing, locals>>

\* _Interrupted.
FiniteCut ==
    /\ pc = "finite" /\ cut /\ ~stopping
    /\ Jump("cut")

ForgetCut ==
    /\ pc = "cut"
    /\ showing' = None
    /\ Goto("loop")
    /\ UNCHANGED <<rest, active, panel, locals>>

\* Mutant: nothing is unmarked.
Shown_KeepsMark ==
    /\ pc = "shown"
    /\ Jump(AfterShow)

\* A held display stays marked; any other is unmarked, if it is still its mark.
Shown ==
    /\ pc = "shown"
    /\ showing' = IF ~IsHeld(config) /\ showing = config THEN None ELSE showing
    /\ Goto(AfterShow)
    /\ UNCHANGED <<rest, active, panel, locals>>

\* _show_then: what the overlay played over, if nothing waits at this moment.
ShowThen ==
    /\ pc = "then"
    /\ IF Then[config.what] = None \/ pending # <<>> \/ stopping
       THEN Goto("loop") /\ UNCHANGED <<config, then_due>>
       ELSE /\ config' = [config EXCEPT !.what = Then[config.what]]
            /\ then_due' = FALSE
            /\ Goto("show")
    /\ UNCHANGED <<rest, active, showing, panel, captured>>

-----------------------------------------------------------------------------
(* The idle screen: _run_idle_screen. *)

IdleOn ==
    /\ pc = "idle on"
    /\ captured' = idle /\ idle_active' = TRUE
    /\ Goto("idle")
    /\ UNCHANGED <<rest, playlist_active, showing, panel, config, then_due>>

\* The loop's condition, asked again at every wake and every poll.
IdleGoesOn == ~stopping /\ ~wake /\ idle = captured /\ playlist = None

IdleCheck ==
    /\ pc = "idle"
    /\ Jump(IF IdleGoesOn THEN "clock" ELSE "idle off")

\* draw_clock, and the wait after it.  There is nothing to draw a None with.
DrawClock ==
    /\ pc = "clock" /\ captured # None
    /\ panel' = captured
    /\ Goto("idle")
    /\ UNCHANGED <<rest, active, showing, locals>>

ClockFails ==
    /\ pc = "clock" /\ (captured = None \/ "draw" \in Faults)
    /\ idle' = None                      \* self.set_idle(None)
    /\ Goto("idle broken")
    /\ UNCHANGED <<queue, events, playlist, active, showing, panel, locals, world, takes, requests>>

IdleBroken ==
    /\ pc = "idle broken"
    /\ panel' = Dark
    /\ idle_active' = FALSE
    /\ captured' = None
    /\ Goto("loop")
    /\ UNCHANGED <<rest, playlist_active, showing, config, then_due>>

IdleOff ==
    /\ pc = "idle off"
    /\ idle_active' = FALSE
    /\ panel' = IF idle = None /\ ~stopping THEN Dark ELSE panel
    /\ captured' = None
    /\ Goto("loop")
    /\ UNCHANGED <<rest, playlist_active, showing, config, then_due>>

-----------------------------------------------------------------------------
(* The playlist: _run_playlist. *)

PlaylistOn ==
    /\ pc = "playlist on"
    /\ captured' = playlist /\ playlist_active' = TRUE
    /\ Goto("playlist")
    /\ UNCHANGED <<rest, idle_active, showing, panel, config, then_due>>

PlaylistGoesOn == ~stopping /\ ~wake /\ playlist = captured

PlaylistCheck ==
    /\ pc = "playlist"
    /\ Jump(IF PlaylistGoesOn THEN "slot" ELSE "playlist off")

\* playlist.slot(now): none is left, so the playlist is dropped unless another
\* took its place; or there is one.  On None it is an AttributeError, which
\* passes the finally and ends the thread.
NextSlot ==
    /\ pc = "slot"
    /\ playlist' = IF captured \in expired /\ playlist = captured THEN None ELSE playlist
    /\ playlist_active' = (captured # None)
    /\ Goto(IF captured = None THEN "exit"
            ELSE IF captured \in expired THEN "playlist off" ELSE "item")
    /\ UNCHANGED <<queue, events, idle, idle_active, showing, panel, locals, world, takes, requests>>

PlayItem ==
    /\ pc = "item"
    /\ panel' = captured
    /\ Goto("playing")
    /\ UNCHANGED <<rest, active, showing, locals>>

\* Too little of the slot is left, or the image cannot be drawn.
SkipItem ==
    /\ pc = "item"
    /\ Jump("sitting out")

\* The playlist's own wait raises: the frame stays on the panel.
ItemCut ==
    /\ pc \in {"playing", "sitting out"} /\ ~PlaylistGoesOn
    /\ Jump("playlist off")

ItemEnds ==
    /\ pc \in {"playing", "sitting out"} /\ PlaylistGoesOn
    /\ panel' = IF pc = "playing" THEN Dark ELSE panel
    /\ Goto("playlist")
    /\ UNCHANGED <<rest, active, showing, locals>>

PlaylistOff ==
    /\ pc = "playlist off"
    /\ playlist_active' = FALSE
    /\ panel' = IF playlist = None /\ idle = None /\ ~stopping THEN Dark ELSE panel
    /\ captured' = None
    /\ Goto("loop")
    /\ UNCHANGED <<rest, idle_active, showing, config, then_due>>

-----------------------------------------------------------------------------

Client ==
    \/ \E d \in Displays : Submit(d)
    \/ "blank" \in Calls /\ BlankPanel
    \/ "idle" \in Calls /\ \E f \in Faces \cup {None} : SetIdle(f)
    \/ "playlist" \in Calls /\ (StopPlaylist \/ \E p \in Playlists : SetPlaylist(p))
    \/ "stop" \in Calls /\ Stop

Run  == CheckStop \/ TakeNothing \/ TakeNext \/ FreeForPlaylist \/ PlaylistDue
        \/ IdleDue \/ FreeForIdle \/ Poll \/ ForgetShowing \/ Die
Show == ShowBlank \/ Darken \/ Localise \/ FetchFails \/ FetchRaises \/ MarkShowing
        \/ Draw \/ DrawFails \/ HeldEnds \/ FiniteEnds \/ FiniteCut \/ ForgetCut
        \/ Shown \/ ShowThen
RunIdleScreen == IdleOn \/ IdleCheck \/ DrawClock \/ ClockFails \/ IdleBroken \/ IdleOff
RunPlaylist == PlaylistOn \/ PlaylistCheck \/ NextSlot \/ PlayItem \/ SkipItem
               \/ ItemCut \/ ItemEnds \/ PlaylistOff

Worker == Run \/ Show \/ RunIdleScreen \/ RunPlaylist

Next == Client \/ Worker \/ StopReturns \/ \E p \in Playlists : RunsOut(p)

Spec == Init /\ [][Next]_vars

\* The thread keeps running: every wait with a timeout ends, every fetch ends
\* (its socket has a timeout), and a set event wakes the waiting thread.
FairSpec == Spec /\ WF_vars(Worker)

-----------------------------------------------------------------------------
(* Safety. *)

Labels == {"loop", "take", "nothing", "due", "idle?", "free?", "poll", "exit", "exit dark",
           "dead", "show", "darken", "mark", "draw", "held", "finite", "cut", "shown", "then",
           "idle on", "idle", "clock", "idle broken", "idle off", "playlist on", "playlist",
           "slot", "item", "playing", "sitting out", "playlist off"}

\* The type invariant: the queue never holds more than DISPLAY_QUEUE entries.
TypeOK ==
    /\ pending \in Seq(Entry) /\ Len(pending) <= QueueSize
    /\ superseded \in Nat
    /\ wake \in BOOLEAN /\ cut \in BOOLEAN /\ stopping \in BOOLEAN
    /\ idle \in Faces \cup {None} /\ playlist \in Playlists \cup {None}
    /\ idle_active \in BOOLEAN /\ playlist_active \in BOOLEAN
    /\ showing \in Entry \cup {None}
    /\ panel \in Entry \cup Faces \cup Playlists \cup {Dark}
    /\ pc \in Labels
    /\ config \in Entry \cup {None} /\ then_due \in BOOLEAN
    /\ captured \in Faces \cup Playlists \cup {None}
    /\ made \subseteq Playlists /\ expired \subseteq made
    /\ stopper \in {"none", "joining", "returned"}
    /\ calls \in Nat /\ submitted \in Nat /\ taken \in Nat
    /\ takenAt \in Nat /\ blankedAt \in Nat /\ playlistAt \in Nat

\* No wakeup is lost: while anything waits the wake is set, so neither a held
\* display nor the idle screen sits in front of a queue.
NoLostWakeup == pending # <<>> => wake

\* A held display is only ever last in the queue, and an instruction to blank
\* only ever first.
QueueShape ==
    \A i \in DOMAIN pending :
        /\ IsHeld(pending[i]) => i = Len(pending)
        /\ pending[i].what = Blank => i = 1

\* Every submission is accounted for: taken by the thread, still waiting, or
\* counted as dropped (GET /display, `dropped`), and only once.
Conservation == submitted = taken + Waiting(pending) + superseded

\* The queue is in the order of the calls, behind what was taken before, and
\* what waited when the panel was blanked is not taken any more.
InOrder ==
    /\ \A i \in DOMAIN pending : pending[i].n > takenAt /\ pending[i].n >= blankedAt
    /\ \A i, j \in DOMAIN pending : i < j => pending[i].n < pending[j].n

\* Under pressure the newest wins: the last call is waiting or was taken,
\* whatever the queue dropped to make room.
NewestSurvives ==
    stopping \/ takenAt = calls \/ (pending # <<>> /\ pending[Len(pending)].n = calls)

\* What submit() keeps, however calls and takes interleave: nothing is reordered,
\* lost or counted wrongly, and the newest is never the one that goes.
QueueKept == QueueShape /\ Conservation /\ InOrder /\ NewestSurvives

\* A finite display is cut short only by a blank() called after it was
\* submitted: never by a message, and never by an older blank() whose cut was
\* left set.
CutOnlyByLaterBlank == [][FiniteCut => blankedAt > config.n]_vars

\* No race between the client calls and the thread ends it: it runs until stop().
ThreadEnds == pc \in {"exit", "exit dark", "dead"}
ThreadSurvives == ThreadEnds => stopping

\* Whatever is lit and held stays lit until something newer comes: a later
\* submission the thread took, blank(), set_playlist(), or stop().  Only an
\* overlay that is itself held gives way sooner, to what it played over.
OnPanel(S) == panel \in Entry /\ panel.what \in S
Stays == {d \in Held : Then[d] = None}
HeldStaysUp ==
    [][OnPanel(Stays) /\ panel' # panel =>
         \/ takenAt > panel.n
         \/ blankedAt > panel.n \/ playlistAt >= panel.n \/ stopping]_vars

\* The thread waits with nothing to do, and nothing will wake it.
Idling == pc = "poll" /\ ~wake /\ ~stopping

\* A display that is left on the panel is what GET /display says is showing: a
\* held one always, and any other unless it was cut short and what was taken in
\* its place could not be fetched.  A call about a playlist after it was
\* submitted unmarks it (worker.py:234).
LitDisplayIsShowing ==
    Idling /\ OnPanel(Displays \ AnimatedHold) /\ panel.n > playlistAt
        /\ (IsHeld(panel) \/ panel.n = takenAt) => showing = panel

-----------------------------------------------------------------------------
(* Liveness. *)

\* Something from before call k is on the panel.
Older(k) == panel \in Entry /\ panel.n < k

\* What was taken after call k has come to nothing, its image could not be
\* fetched or drawn, and the panel is as it was.
NotShown(k) == pc \in {"then", "loop"} /\ config # None /\ config.n > k /\ Older(k)

\* After a blank() nothing submitted before it is on the panel for long, and
\* none comes back, also where a submission took the place of the instruction
\* to blank.  Only one that then cannot be shown leaves what was there before
\* the blank() lit (worker.py:173).
BlankTakesEffect ==
    \A k \in 1..MaxCalls : <>(blankedAt = k) => <>[]~Older(k) \/ <>NotShown(k)

\* stop() ends the thread, whatever it is doing, and leaves the panel dark.
StopEnds == stopping ~> (pc = "dead" /\ panel = Dark)

NothingHeld == showing = None \/ ~IsHeld(showing)

\* The clock comes back once nothing else is to be shown and nobody goes on
\* waking the thread, as a stop for a playlist that is not there does.
ClockReturns ==
    \A f \in Faces :
        <>[](idle = f /\ playlist = None /\ NothingHeld /\ pending = <<>> /\ ~stopping)
            => <>[](panel = f) \/ []<>wake

\* A playlist with time left plays once nothing else is to be shown.
PlaylistPlays ==
    \A p \in Playlists :
        <>[](playlist = p /\ p \notin expired /\ NothingHeld /\ pending = <<>> /\ ~stopping)
            => <>[]playlist_active

\* What stands by for the panel gets it back: clock and playlist.
StandbyReturns == ClockReturns /\ PlaylistPlays

-----------------------------------------------------------------------------
(* What the queue promises, whatever the panel shows: module DisplayHandOff. *)

HandOff == INSTANCE DisplayHandOff WITH
    Items   <- [n : 1..MaxCalls, what : Displays],
    Size    <- QueueSize,
    waiting <- IF pending # <<>> /\ Head(pending).what = Blank THEN Tail(pending) ELSE pending,
    offered <- submitted,
    taken   <- taken,
    dropped <- superseded,
    closed  <- stopping

\* The worker is a hand-off: in order, the newest never lost, every drop
\* counted, and nothing left waiting until stop().
HandsOff == HandOff!Spec
=============================================================================

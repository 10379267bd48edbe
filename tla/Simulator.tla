------------------------------ MODULE Simulator ------------------------------
(* The simulator: the event tracker (web/events.py), the handlers that fill it     *)
(* (web/handler.py, beside led_handler), the event stream of each open page        *)
(* (web/app.py) and the canvas script of the page, which follows it (index.html).  *)
(* Handlers and endpoints run on one event loop and hand it back only at an        *)
(* `await` or a `yield`, so each is one step here; led_handler and web_handler run  *)
(* one after the other with no await between. The mode is "full": with a panel.    *)
EXTENDS Integers, Sequences, FiniteSets, Functions

CONSTANTS Pages,        \* the browser tabs
          Kept,         \* EventTracker(max_events)
          Recent,       \* how many GET /api/events returns
          MaxEvents,    \* bound: events recorded
          MaxOthers,    \* bound: changes that are no event, connections lost, syncs that fail, restarts
          MaxRestarts   \* bound: how many of them are restarts

ASSUME SimulatorAssumption ==
    /\ Kept \in Nat \ {0} /\ Recent \in Nat \ {0}
    /\ MaxEvents \in Nat /\ MaxOthers \in Nat /\ MaxRestarts \in Nat

VARIABLES version,      \* the tracker's `_version`
          events,       \* its `_events`, newest first: [id, nr, replayOf]
          log,          \* every event ever recorded, by `nr`; the drawable ones are what the panel was given
          up,           \* the process: "running", "stopping" (`stop` is set), "gone"
          stream,       \* each page's event_stream(): [pc, seen], seen its last_version
          page,         \* each tab's script
          bounds        \* what is left of the bounds

trackerVars == <<version, events, log>>
vars == <<version, events, log, up, stream, page, bounds>>

Spend(what) == bounds[what] > 0 /\ bounds' = [bounds EXCEPT ![what] = @ - 1]

\* Mutant: the deque has no maxlen.
TheNewest_All(s, n) == s

\* The deque's maxlen, and recent(n).
TheNewest(s, n) == SubSeq(s, 1, IF Len(s) < n THEN Len(s) ELSE n)

\* record(): the next version is the event's id, and the oldest falls off the ring.
RecordEvent(source, drawable, replayOf, root) ==
    LET nr == Len(log) + 1
        id == version + 1
        all == <<[id |-> id, nr |-> nr, replayOf |-> replayOf]>> \o events
    IN  /\ Spend("events")
        /\ version' = id
        /\ events' = TheNewest(all, Kept)
        /\ log' = Append(log, [source |-> source, drawable |-> drawable, root |-> root, id |-> id])
        /\ UNCHANGED <<up, stream, page>>

Serving == up # "gone"

(* A message: led_handler submits what a rule matches, web_handler records every   *)
(* message, matched or not. A write through /display is submitted and recorded     *)
(* too, with no message it came from.                                             *)
Message(drawable) == Serving /\ RecordEvent("message", drawable, 0, Len(log) + 1)
ApiWrite == Serving /\ RecordEvent("api", TRUE, 0, Len(log) + 1)

(* replay_event(), the limiter allowing it: any event still kept that came from a   *)
(* message is recorded as a new one and shown; a replay of a replay names the       *)
(* event both came from.                                                          *)
\* Mutant: a replay names the event clicked.
Original_Clicked(e) == e.id

Original(e) == IF e.replayOf # 0 THEN e.replayOf ELSE e.id

Replay ==
    /\ Serving
    /\ \E e \in Range(events) :
        /\ log[e.nr].source = "message"
        /\ RecordEvent("message", TRUE, Original(e), log[e.nr].root)

\* touch(): PUT /display/idle and the playlist endpoints.
Touch ==
    /\ Serving /\ Spend("others")
    /\ version' = version + 1
    /\ UNCHANGED <<events, log, up, stream, page>>

----------------------------------------------------------------------------
(* event_stream() of one page. *)

\* Mutant: the loop does not look at `stop`.
StreamEnds_TabsOnly(p) ==
    /\ stream[p].pc = "polling" /\ ~page[p].open
    /\ stream' = [stream EXCEPT ![p].pc = "ended"]
    /\ UNCHANGED <<trackerVars, up, page, bounds>>

(* The loop's head: `stop` and a client gone end it; a version not seen yet is      *)
(* sent, and remembered before the yield.                                          *)
StreamEnds(p) ==
    /\ stream[p].pc = "polling"
    /\ up = "stopping" \/ ~page[p].open
    /\ stream' = [stream EXCEPT ![p].pc = "ended"]
    /\ UNCHANGED <<trackerVars, up, page, bounds>>

StreamSends(p) ==
    /\ stream[p].pc = "polling" /\ up = "running" /\ page[p].open
    /\ version # stream[p].seen
    /\ stream' = [stream EXCEPT ![p] = [pc |-> "yielded", seen |-> version]]
    /\ page' = [page EXCEPT ![p].due = @ + 1]
    /\ UNCHANGED <<trackerVars, up, bounds>>

\* Mutant: the version is remembered after the yield.
StreamResumes_Rereads(p) ==
    /\ stream[p].pc = "yielded"
    /\ stream' = [stream EXCEPT ![p] = [pc |-> "polling", seen |-> version]]
    /\ UNCHANGED <<trackerVars, up, page, bounds>>

\* After the yield: the wait for `stop` or the interval, and round again.
StreamResumes(p) ==
    /\ stream[p].pc = "yielded"
    /\ stream' = [stream EXCEPT ![p].pc = "polling"]
    /\ UNCHANGED <<trackerVars, up, page, bounds>>

----------------------------------------------------------------------------
(* The page: `lastId`, the syncs due (chained on one promise, so one at a time),    *)
(* the answer a sync waits to apply, and what it has drawn.                        *)
Closed == [open |-> FALSE, lastId |-> 0, due |-> 0, first |-> TRUE, pc |-> "idle",
           answer |-> <<>>, drawn |-> <<>>, since |-> 0, failed |-> FALSE, born |-> 0]

Open(p) ==
    /\ ~page[p].open /\ stream[p].pc = "none" /\ up = "running"
    /\ page' = [page EXCEPT ![p] = [Closed EXCEPT !.open = TRUE, !.due = 1, !.born = bounds.restarts]]
    /\ stream' = [stream EXCEPT ![p] = [pc |-> "polling", seen |-> 0]]
    /\ UNCHANGED <<trackerVars, up, bounds>>

Close(p) ==
    /\ page[p].open
    /\ page' = [page EXCEPT ![p] = Closed]
    /\ UNCHANGED <<trackerVars, up, stream, bounds>>

(* The connection breaks; the browser's EventSource connects again, to a new        *)
(* event_stream() that has seen nothing.                                           *)
Drop(p) ==
    /\ page[p].open /\ stream[p].pc \in {"polling", "yielded"} /\ Spend("others")
    /\ stream' = [stream EXCEPT ![p].pc = "ended"]
    /\ UNCHANGED <<trackerVars, up, page>>

Reconnect(p) ==
    /\ page[p].open /\ stream[p].pc = "ended" /\ up = "running"
    /\ stream' = [stream EXCEPT ![p] = [pc |-> "polling", seen |-> 0]]
    /\ UNCHANGED <<trackerVars, up, bounds, page>>

\* What there was when the page asked first: it need not draw that.
Since(p) == IF page[p].first THEN Len(log) ELSE page[p].since

\* sync(): GET /api/events answers with the newest events there are then ...
Fetch(p) ==
    /\ page[p].open /\ page[p].pc = "idle" /\ page[p].due > 0 /\ Serving
    /\ page' = [page EXCEPT ![p].pc = "answered", ![p].due = @ - 1, ![p].since = Since(p),
                            ![p].answer = TheNewest(events, Recent)]
    /\ UNCHANGED <<trackerVars, up, stream, bounds>>

\* ... or the fetch fails, which is logged: the next sync is the next message's.
FetchFails(p) ==
    /\ page[p].open /\ page[p].pc = "idle" /\ page[p].due > 0
    /\ Serving => bounds.others > 0
    /\ bounds' = [bounds EXCEPT !.others = IF Serving THEN @ - 1 ELSE @]
    /\ page' = [page EXCEPT ![p].due = @ - 1, ![p].first = FALSE, ![p].failed = TRUE, ![p].since = Since(p)]
    /\ UNCHANGED <<trackerVars, up, stream>>

\* Mutant: `lastId` is not compared.
Fresh_All(p) == {i \in DOMAIN page[p].answer : log[page[p].answer[i].nr].drawable}

\* Where in the answer there is something drawable and newer than `lastId`.
Fresh(p) == {i \in DOMAIN page[p].answer :
                page[p].answer[i].id > page[p].lastId /\ log[page[p].answer[i].nr].drawable}
Newest(p) == IF page[p].answer = <<>> THEN 0 ELSE Head(page[p].answer).id

\* An answer is newest first: its places from the last to the first.
OldestFirst(places) ==
    {s \in Bijection(1 .. Cardinality(places), places) : \A i, j \in DOMAIN s : i < j => s[i] > s[j]}

\* Mutant: every sync draws the last one only.
ToDraw_LastOnly(p) ==
    OldestFirst({i \in Fresh(p) : \A j \in Fresh(p) : i <= j})

(* What is newer than `lastId` is drawn, oldest first; the first sync of a page      *)
(* draws only the last of it, and that only when it is still up.                    *)
ToDraw(p) ==
    IF ~page[p].first THEN OldestFirst(Fresh(p))
    ELSE {<<>>} \cup OldestFirst({i \in Fresh(p) : \A j \in Fresh(p) : i <= j})

Apply(p) ==
    /\ page[p].pc = "answered"
    /\ \E draw \in ToDraw(p) :
        page' = [page EXCEPT ![p].pc = "idle", ![p].first = FALSE, ![p].answer = <<>>,
                             ![p].lastId = IF Newest(p) > @ THEN Newest(p) ELSE @,
                             ![p].drawn = @ \o [i \in DOMAIN draw |-> page[p].answer[draw[i]].nr]]
    /\ UNCHANGED <<trackerVars, up, stream, bounds>>

----------------------------------------------------------------------------
(* The process: a shutdown sets `stop`; when it is gone, what it served is cut off,  *)
(* and a new one starts with an empty tracker.                                      *)
Stop ==
    /\ up = "running" /\ up' = "stopping"
    /\ UNCHANGED <<trackerVars, stream, page, bounds>>

Exit ==
    /\ up = "stopping" /\ up' = "gone"
    /\ \A p \in Pages : stream[p].pc \notin {"polling", "yielded"}      \* uvicorn waits for them
    /\ UNCHANGED <<trackerVars, stream, page, bounds>>

Restart ==
    /\ up = "gone" /\ up' = "running"
    /\ bounds.restarts > 0 /\ bounds.others > 0
    /\ bounds' = [bounds EXCEPT !.restarts = @ - 1, !.others = @ - 1]
    /\ version' = 0 /\ events' = <<>>
    /\ UNCHANGED <<log, stream, page>>

Init ==
    /\ version = 0 /\ events = <<>> /\ log = <<>>
    /\ up = "running"
    /\ stream = [p \in Pages |-> [pc |-> "none", seen |-> 0]]
    /\ page = [p \in Pages |-> Closed]
    /\ bounds = [events |-> MaxEvents, others |-> MaxOthers, restarts |-> MaxRestarts]

Streaming(p) == StreamEnds(p) \/ StreamSends(p) \/ StreamResumes(p)
Script(p) == Reconnect(p) \/ Fetch(p) \/ FetchFails(p) \/ Apply(p)

Next ==
    \/ \E drawable \in BOOLEAN : Message(drawable)
    \/ ApiWrite \/ Replay \/ Touch
    \/ \E p \in Pages : Streaming(p) \/ Script(p) \/ Open(p) \/ Close(p) \/ Drop(p)
    \/ Stop \/ Exit \/ Restart

(* The loop runs every stream's generator and the browser its script; nothing has    *)
(* to happen on the bus, and no tab has to be closed.                               *)
Spec ==
    /\ Init /\ [][Next]_vars
    /\ \A p \in Pages : WF_vars(Streaming(p)) /\ WF_vars(Script(p))
    /\ WF_vars(Exit)
-----------------------------------------------------------------------------
TypeOK ==
    /\ version \in Nat /\ up \in {"running", "stopping", "gone"}
    /\ Len(events) <= Kept
    /\ \A i \in DOMAIN events : events[i].id <= version /\ log[events[i].nr].id = events[i].id
    /\ \A p \in Pages :
        /\ stream[p].pc \in {"none", "polling", "yielded", "ended"}
        /\ page[p].lastId \in Nat /\ page[p].pc \in {"idle", "answered"} /\ Len(page[p].answer) <= Recent

(* A replay names the event it shows again, not a replay of it, however often it is   *)
(* clicked and whatever fell off the ring since.                                     *)
ReplayNamesOriginal ==
    \A i \in DOMAIN events :
        LET e == events[i] IN
        IF log[e.nr].root = e.nr THEN e.replayOf = 0 ELSE e.replayOf = log[log[e.nr].root].id

(* The ring keeps the newest events under the ids they were given, and what they      *)
(* replay.                                                                           *)
RingIsRight == TypeOK /\ ReplayNamesOriginal

(* "A sequence the browser can follow without guessing from timestamps"               *)
(* (events.py:43-44): the canvas draws what the panel was given, each once, in its     *)
(* order, however its syncs, its reconnects and new events overlap.                   *)
DrawnOnceInOrder ==
    \A p \in Pages : \A i, j \in DOMAIN page[p].drawn :
        i < j => page[p].drawn[i] < page[p].drawn[j]

(* A sync leaves nothing out: once it is applied, what the panel was given since the   *)
(* page's first one, as far as the answer holds it, has been drawn.                        *)
LeavesNothingOut(p) ==
    page[p].pc = "answered" /\ page'[p].pc = "idle" /\ page'[p].open /\ ~page[p].first =>
        \A i \in DOMAIN page[p].answer :
            LET nr == page[p].answer[i].nr IN
            (log[nr].drawable /\ nr > page[p].since) => nr \in Range(page'[p].drawn)

(* That holds of a page as long as the process it was opened at is there. One left     *)
(* open across a restart misses events: the sequence starts again at 1, and the page's  *)
(* `lastId` is the old one.                                                            *)
NothingLeftOut == [][\A p \in Pages : page[p].born = bounds.restarts => LeavesNothingOut(p)]_vars

(* The canvas is what the panel was given: each once, in order, and all of it.        *)
CanvasIsThePanel == []DrawnOnceInOrder /\ NothingLeftOut

(* An open page catches up with the tracker: no change is lost between two polls of    *)
(* its stream or between two of its syncs. Only a sync that failed may leave it        *)
(* behind, until the next message.                                                   *)
CaughtUp(p) == events = <<>> \/ page[p].lastId >= Head(events).id
CanvasCatchesUp ==
    \A p \in Pages : page[p].open ~> (~page[p].open \/ CaughtUp(p) \/ page[p].failed \/ up # "running")

(* A shutdown finds no stream open: each ends by itself once `stop` is set, without    *)
(* a single tab being closed (#105, #158), and the process is gone.                   *)
StreamsEnd == (up = "stopping") ~> (up = "gone")
=============================================================================

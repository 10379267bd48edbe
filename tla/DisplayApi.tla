----------------------------- MODULE DisplayApi -----------------------------
(* The /display API (handlers/display_api.py): requests that overlap. authorize() *)
(* runs in a thread, the endpoint on the event loop, which it keeps from one      *)
(* `await` to the next: the only awaits are the downloads of the images a request *)
(* names by URL, so a whole body without one is a single step. The worker is what *)
(* the API calls on it (DisplayWorker is the whole of it); `panel` is FALSE in    *)
(* LED_MODE=web, where there is none and the API keeps the only state.            *)
EXTENDS RateLimiter, FiniteSets, SequencesExt

CONSTANTS Requests,     \* the requests, each sent once
          Calls,        \* what they may say: records [op, token, images, kind, text, color, mode, total]
          Colors,       \* `palette`: the colour names the profile knows
          StartColor,   \* LED_IDLE_COLOR
          Settings,     \* what somebody may set the wall clock to
          Second,       \* the ticks of a second
          Carry         \* the .999 that is added before Retry-After is cut, in ticks

ASSUME DisplayApiAssumption ==
    /\ StartColor \in Colors
    /\ \A c \in Calls : /\ c.op \in {"show", "idle", "play", "stop", "blank"}
                       /\ c.images \in Seq({"file", "url", "missing"})
                       /\ c.total \in Nat
    /\ Settings \subseteq Nat /\ Second \in Nat \ {0} /\ Carry \in 0 .. Second - 1

Off == "off"            \* no idle screen
Nothing == [by |-> "nobody", until |-> 0]      \* no playlist
Endless == 0            \* `total` omitted
Same == "same"          \* `color` omitted

VARIABLES wall,         \* `now`, time.time(): what a playlist's schedule runs on
          panel,        \* whether a worker exists
          state,        \* the router's `state`
          worker,       \* the worker's _idle and _playlist
          submitted,    \* every submit() and blank() the worker got, by request
          recorded,     \* every event the tracker got from here, by request
          touched,      \* how often the event stream was only told to look again
          req,          \* each request: pc, call, images still to resolve, status, Retry-After
          dropped,      \* whether the worker switched its idle screen off since it was last set
          last          \* the last request to set the playlist, when, and whether the wall
                        \* clock was set back since: what the properties speak of

apiVars == <<panel, state, worker, submitted, recorded, touched, dropped, last>>
clocks == <<limiterVars, wall>>
vars == <<clocks, apiVars, req>>

Request(pc, call, images, status, retry) ==
    [pc |-> pc, call |-> call, left |-> images, status |-> status, retry |-> retry]

\* Mutant: the endpoint goes on after the answer.
Answer_GoesOn(r, status) == req' = [req EXCEPT ![r].status = status]

Answer(r, status) == req' = [req EXCEPT ![r].pc = "answered", ![r].status = status]

(* authorize(): the token before the limiter, so a caller without one spends no   *)
(* slot; a request the endpoint goes on to refuse has spent one.                  *)
Unauthorized(r, call) ==
    /\ req[r].pc = "sent" /\ ~call.token
    /\ req' = [req EXCEPT ![r] = Request("answered", call, <<>>, 401, 0)]
    /\ UNCHANGED <<clocks, apiVars>>

Admit(r, call) ==
    /\ req[r].pc = "sent" /\ call.token
    /\ Acquire
    /\ req' = [req EXCEPT ![r] = Request("running", call, call.images, 0, 0)]
    /\ UNCHANGED <<wall, apiVars>>

\* Mutant: what is left of a second is cut.
RetryAfter_Cut(wait) == Max({1, wait \div Second})

\* Retry-After, in seconds: max(1, int(retry_after + 0.999)).
RetryAfter(wait) == Max({1, (wait + Carry) \div Second})

TurnAway(r, call) ==
    /\ req[r].pc = "sent" /\ call.token
    /\ \E wait \in 1 .. Window :
        /\ Refuse(wait)
        /\ req' = [req EXCEPT ![r] = Request("answered", call, <<>>, 429, RetryAfter(wait))]
    /\ UNCHANGED <<wall, apiVars>>

(* The images are resolved in the order named: local files at once, up to the     *)
(* next URL, which localize() hands to a thread; a playlist's missing file        *)
(* answers 404 there and then, a display's only in _to_config.                    *)
Blocking(r) ==
    {i \in DOMAIN req[r].left :
        req[r].left[i] = "url" \/ (req[r].left[i] = "missing" /\ req[r].call.op = "play")}
Resolved(r) == req[r].pc = "running" /\ Blocking(r) = {}
StopsAt(r, i) == req[r].pc = "running" /\ i \in Blocking(r) /\ \A j \in Blocking(r) : i <= j

StartFetch(r) ==
    /\ \E i \in DOMAIN req[r].left :
        /\ StopsAt(r, i) /\ req[r].left[i] = "url"
        /\ req' = [req EXCEPT ![r].pc = "fetching", ![r].left = SubSeq(@, i + 1, Len(@))]
    /\ UNCHANGED <<clocks, apiVars>>

MissingFile(r) ==
    /\ \E i \in DOMAIN req[r].left : StopsAt(r, i) /\ req[r].left[i] = "missing"
    /\ Answer(r, 404)
    /\ UNCHANGED <<clocks, apiVars>>

Fetched(r) ==
    /\ req[r].pc = "fetching"
    /\ req' = [req EXCEPT ![r].pc = "running"]
    /\ UNCHANGED <<clocks, apiVars>>

FetchFails(r) ==
    /\ req[r].pc = "fetching"
    /\ \E status \in {400, 502} : Answer(r, status)
    /\ UNCHANGED <<clocks, apiVars>>

Knows(color) == color \in Colors \cup {Same}

\* _to_config(): what the kind needs, then the colour.
Showable(call) ==
    CASE call.text = "long" -> 400
      [] call.kind = "text" /\ call.text = "blank" -> 400
      [] call.kind = "image" /\ call.images = <<>> -> 400
      [] call.kind = "image" /\ call.images = <<"missing">> -> 404
      [] ~Knows(call.color) -> 400
      [] OTHER -> 200

Submit(r) == submitted' = IF panel THEN Append(submitted, r) ELSE submitted
Record(r) == recorded' = Append(recorded, r)
Touch == touched' = touched + 1

\* Mutant: it is recorded before it is validated.
PostDisplay_RecordsFirst(r) ==
    LET call == req[r].call IN
    /\ Resolved(r) /\ call.op = "show"
    /\ Answer(r, Showable(call))
    /\ Record(r)
    /\ IF Showable(call) = 200 THEN Submit(r) ELSE UNCHANGED submitted
    /\ UNCHANGED <<clocks, panel, state, worker, touched, dropped, last>>

\* post_display()
PostDisplay(r) ==
    LET call == req[r].call IN
    /\ Resolved(r) /\ call.op = "show"
    /\ Answer(r, Showable(call))
    /\ IF Showable(call) = 200 THEN Submit(r) /\ Record(r) ELSE UNCHANGED <<submitted, recorded>>
    /\ UNCHANGED <<clocks, panel, state, worker, touched, dropped, last>>

\* Mutant: the screen is switched on in the colour it had.
PutIdle_OldColor(r) ==
    LET call  == req[r].call
        idle  == IF call.mode = Off THEN Off ELSE state.color
    IN  /\ Resolved(r) /\ call.op = "idle" /\ Knows(call.color)
        /\ state' = [state EXCEPT !.color = IF call.color = Same THEN @ ELSE call.color, !.idle = idle]
        /\ worker' = IF panel THEN [worker EXCEPT !.idle = idle] ELSE worker
        /\ dropped' = FALSE
        /\ Touch /\ Answer(r, 200)
        /\ UNCHANGED <<clocks, panel, submitted, recorded, last>>

\* put_idle(): an unknown colour is refused before anything is assigned.
PutIdle(r) ==
    LET call  == req[r].call
        color == IF call.color = Same THEN state.color ELSE call.color
        idle  == IF call.mode = Off THEN Off ELSE color
    IN  /\ Resolved(r) /\ call.op = "idle" /\ Knows(call.color)
        /\ state' = [state EXCEPT !.color = color, !.idle = idle]
        /\ worker' = IF panel THEN [worker EXCEPT !.idle = idle] ELSE worker
        /\ dropped' = FALSE
        /\ Touch /\ Answer(r, 200)
        /\ UNCHANGED <<clocks, panel, submitted, recorded, last>>

\* Mutant: the mode is assigned before the colour is looked up.
RefuseIdle_AssignsMode(r) ==
    /\ Resolved(r) /\ req[r].call.op = "idle" /\ ~Knows(req[r].call.color)
    /\ state' = [state EXCEPT !.idle = IF req[r].call.mode = Off THEN Off ELSE state.color]
    /\ Answer(r, 400)
    /\ UNCHANGED <<clocks, panel, worker, submitted, recorded, touched, dropped, last>>

RefuseIdle(r) ==
    /\ Resolved(r) /\ req[r].call.op = "idle" /\ ~Knows(req[r].call.color)
    /\ Answer(r, 400)
    /\ UNCHANGED <<clocks, apiVars>>

SetPlaylist(r, playlist) ==
    /\ state' = [state EXCEPT !.playlist = playlist]
    /\ worker' = IF panel THEN [worker EXCEPT !.playlist = playlist] ELSE worker
    /\ last' = [by |-> r, plays |-> playlist # Nothing, at |-> wall, back |-> FALSE]

\* Mutant: the new playlist begins where the one before would have ended.
PutPlaylist_Extends(r) ==
    LET total == req[r].call.total
        from  == IF state.playlist.until > wall THEN state.playlist.until ELSE wall
    IN  /\ Resolved(r) /\ req[r].call.op = "play"
        /\ SetPlaylist(r, [by |-> r, until |-> IF total = Endless THEN Endless ELSE from + total])
        /\ Touch /\ Answer(r, 200)
        /\ UNCHANGED <<clocks, panel, submitted, recorded, dropped>>

\* put_playlist(), once every image is a local file: its time starts now.
PutPlaylist(r) ==
    LET total == req[r].call.total IN
    /\ Resolved(r) /\ req[r].call.op = "play"
    /\ SetPlaylist(r, [by |-> r, until |-> IF total = Endless THEN Endless ELSE wall + total])
    /\ Touch /\ Answer(r, 200)
    /\ UNCHANGED <<clocks, panel, submitted, recorded, dropped>>

\* delete_playlist()
DeletePlaylist(r) ==
    /\ Resolved(r) /\ req[r].call.op = "stop"
    /\ SetPlaylist(r, Nothing)
    /\ Touch /\ Answer(r, 200)
    /\ UNCHANGED <<clocks, panel, submitted, recorded, dropped>>

\* Mutant: only the worker's playlist is dropped.
DeleteDisplay_KeepsState(r) ==
    /\ Resolved(r) /\ req[r].call.op = "blank"
    /\ worker' = [worker EXCEPT !.playlist = Nothing]
    /\ last' = [by |-> r, plays |-> FALSE, at |-> wall, back |-> FALSE]
    /\ Submit(r) /\ Record(r) /\ Answer(r, 200)
    /\ UNCHANGED <<clocks, panel, state, touched, dropped>>

\* delete_display(): blank() drops the playlist and queues a blank.
DeleteDisplay(r) ==
    /\ Resolved(r) /\ req[r].call.op = "blank"
    /\ SetPlaylist(r, Nothing)
    /\ Submit(r) /\ Record(r) /\ Answer(r, 200)
    /\ UNCHANGED <<clocks, panel, touched, dropped>>

Expired(playlist) == playlist.until # Endless /\ wall >= playlist.until

(* The worker's own doing: it drops a playlist that ran out, and switches off an   *)
(* idle screen it cannot draw.                                                    *)
RunsOut ==
    /\ worker.playlist # Nothing /\ Expired(worker.playlist)
    /\ worker' = [worker EXCEPT !.playlist = Nothing]
    /\ UNCHANGED <<clocks, panel, state, submitted, recorded, touched, req, dropped, last>>

IdleFails ==
    /\ worker.idle # Off
    /\ worker' = [worker EXCEPT !.idle = Off]
    /\ dropped' = TRUE
    /\ UNCHANGED <<clocks, panel, state, submitted, recorded, touched, req, last>>

\* Both clocks go on.
Later == Tick /\ wall' = wall + (clock' - clock) /\ UNCHANGED <<apiVars, req>>

\* The wall clock is set, forwards or back; the other is monotonic.
ClockIsSet ==
    /\ wall' \in Settings \ {wall}
    /\ last' = [last EXCEPT !.back = @ \/ wall' < wall]
    /\ UNCHANGED <<limiterVars, panel, state, worker, submitted, recorded, touched, req, dropped>>

(* GET /display: the idle screen is the router's, the playlist the worker's where  *)
(* there is one. playlist_body() reports none that has run out.                    *)
Reported(playlist) == IF Expired(playlist) THEN Nothing ELSE playlist
Body == [idle |-> state.idle, playlist |-> Reported(IF panel THEN worker.playlist ELSE state.playlist)]

Init ==
    /\ LimiterInit /\ wall = 0
    /\ panel \in BOOLEAN
    /\ state \in [idle : {Off, StartColor}, color : {StartColor}, playlist : {Nothing}]
    /\ worker = IF panel THEN [idle |-> state.idle, playlist |-> Nothing] ELSE [idle |-> Off, playlist |-> Nothing]
    /\ submitted = <<>> /\ recorded = <<>> /\ touched = 0
    /\ req = [r \in Requests |-> Request("sent", [op |-> "none"], <<>>, 0, 0)]
    /\ dropped = FALSE
    /\ last = [by |-> "nobody", plays |-> FALSE, at |-> 0, back |-> FALSE]

Endpoint(r) ==
    \/ StartFetch(r) \/ MissingFile(r) \/ Fetched(r) \/ FetchFails(r)
    \/ PostDisplay(r) \/ PutIdle(r) \/ RefuseIdle(r)
    \/ PutPlaylist(r) \/ DeletePlaylist(r) \/ DeleteDisplay(r)

Next ==
    \/ \E r \in Requests, call \in Calls : Unauthorized(r, call) \/ Admit(r, call) \/ TurnAway(r, call)
    \/ \E r \in Requests : Endpoint(r)
    \/ RunsOut \/ IdleFails \/ Later \/ ClockIsSet

Spec == Init /\ [][Next]_vars
-----------------------------------------------------------------------------
TypeOK ==
    /\ panel \in BOOLEAN /\ dropped \in BOOLEAN
    /\ state.idle \in Colors \cup {Off} /\ state.color \in Colors
    /\ worker.idle \in Colors \cup {Off}
    /\ \A p \in {state.playlist, worker.playlist} : p.by \in Requests \cup {"nobody"} /\ p.until \in Nat
    /\ \A r \in Requests :
        /\ req[r].pc \in {"sent", "running", "fetching", "answered"}
        /\ req[r].status \in {0, 200, 400, 401, 404, 429, 502}
        /\ req[r].pc = "answered" <=> req[r].status # 0

(* "The JSON logs, the event timeline and the canvas all see what the panel sees" *)
(* (display_api.py:17-19). What the worker was given is on the timeline in the     *)
(* same order however requests overlap, exactly the accepted ones, each once.      *)
TimelineIsThePanel ==
    /\ panel => submitted = recorded
    /\ \A i, j \in DOMAIN recorded : recorded[i] = recorded[j] => i = j
    /\ Range(recorded) = {r \in Requests : req[r].status = 200 /\ req[r].call.op \in {"show", "blank"}}

(* Requests stay what they are, and panel and timeline agree on them.               *)
TimelineIsRight == TypeOK /\ TimelineIsThePanel

(* Two places keep the playlist, the router and the worker, and either may be the  *)
(* one GET reads: they say the same at every moment, although the worker drops one *)
(* that ran out on its own and the router never does; only when the wall clock was *)
(* set back since may the router's come to life again, which GET then does not ask *)
(* (display_api.py:282-284). GET's is the playlist of the request that was answered *)
(* last, whichever of several began first.                                         *)
OnePlaylist ==
    /\ panel => \/ Reported(worker.playlist) = Reported(state.playlist)
                \/ worker.playlist = Nothing /\ last.back
    /\ Body.playlist # Nothing => last.plays /\ Body.playlist.by = last.by

(* A playlist has its whole total before it by the wall clock: none of it is spent *)
(* on fetching its images, and no later request's.                                 *)
WholeTotal ==
    Body.playlist # Nothing /\ Body.playlist.until # Endless =>
        Body.playlist.until = last.at + req[last.by].call.total

(* The router's idle screen is the worker's, as long as the worker could draw it,  *)
(* and it has the colour last named, also when that was while it was off.          *)
OneIdleScreen ==
    /\ panel /\ ~dropped => worker.idle = state.idle
    /\ state.idle \in {Off, state.color}

(* What GET /display reports is one state, kept in two places.                     *)
OneState == OnePlaylist /\ WholeTotal /\ OneIdleScreen

(* A 429 has its reason, Limit grants in the window behind it, and its Retry-After  *)
(* is right to a second: it is less than one too long, and too short, if at all, by *)
(* less than what the .999 does not carry over: a wait of 5.0005 s is sent as 5     *)
(* (display_api.py:208 and 336, over the history of all grants).                    *)
RefusedForAReason ==
    [][\A r \in Requests :
        (req[r].pc = "sent" /\ req'[r].pc # "sent" /\ req'[r].status = 429) =>
            LET n     == Len(granted)
                wait  == granted[n - Limit + 1] + Window - clock
                retry == req'[r].retry
            IN  /\ n >= Limit
                /\ 0 < wait /\ wait <= Window
                /\ (retry - 1) * Second < wait
                /\ wait < retry * Second + (Second - Carry)]_vars

(* A request that is answered with an error has changed nothing, whatever it did   *)
(* before it failed: not the panel, not the timeline, not what GET reports. One    *)
(* whose third image cannot be fetched has started no playlist with two.           *)
AllOrNothing ==
    [][\A r \in Requests :
        (req'[r] # req[r] /\ req'[r].status # 200) => UNCHANGED apiVars]_vars
=============================================================================

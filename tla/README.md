# homerun2-led-catcher in TLA+

led-catcher shows messages on a 64x64 LED panel. A consumer reads message ids
from Redis streams, resolves the payloads, matches them against display rules
and hands the result to one thread that owns the panel. An HTTP API puts
displays, an idle screen and playlists on the same panel, and a web simulator
shows the same stream in a browser.

This directory holds the models of that program, the TLC configurations that
check them and the proofs TLAPS checks.

    tlc -workers 2 -config worker_queue.cfg MCDisplayWorker.tla
    tlc -workers 2 -config consumer_safe.cfg MCRedisConsumer.tla
    tlc -workers 2 -config display_api.cfg MCDisplayApi.tla
    tlapm DisplayWorkerProofs.tla

The other configurations run the same way (the table under "Runs" names the
module of each), and so do the other `*Proofs` modules.

## The system

Paths are below `src/src/led_catcher/`.

| component | state | operations | correct when |
|---|---|---|---|
| display worker `display/worker.py` | queue `_pending`, events `_wake`, `_cut`, `_stopping`, `_showing`, idle screen, playlist | `submit`, `blank`, `set_idle`, `set_playlist`, `stop`; the thread's `_run` | nothing waits while the thread waits; newest wins; drops counted; blank and stop leave the panel dark; a held display stays until something newer; the thread survives |
| playlist `display/playlist.py` | images, order, start, duration, total | `slot`, `expired`, `describe` | slots follow each other without gap, each round plays every image, `expired` agrees with `slot` |
| image cache `display/remote.py` | a directory of `url-*` files | `fetch_image`, `_prune`; several threads | never half a file, never an image in use removed, bounded |
| display modes `display/modes.py`, `card.py`, `frames.py`, `bdf.py`, `clock.py`, `matrix.py`, `offscreen.py` | a canvas | drawing | ends after its time, leaves the panel clear unless held |
| Redis consumer `consumer/redis_consumer.py` | subscribed streams, state, client; group position and pending list in Redis | `run`, `_process_entry`, `set_streams`, `wait_ready`, `shutdown` | every entry handled at most once, each stream in order; no entry disappears unnoticed; a subscribed stream has its group and is read; a switch skips the backlog of what it adds and leaves the rest alone |
| lifecycle `__main__.py` | the consumer task, the server, the worker singleton | `_run`, `_run_consumer`, `_run_standalone` | a dead consumer ends the process; shutdown stops every part |
| HTTP API `handlers/display_api.py`, `control.py`, `health.py` | rate limiter window, `state["playlist"]`, `state["idle"]` | POST, PUT, DELETE | what GET reports is what the worker does; the limiter never admits more than its limit per minute |
| message handlers `handlers/led_handler.py`, `log_handler.py`, `web/handler.py` | - | one call per caught message | a message goes to every handler |
| rule engine `profile/engine.py` | profile, quiet hours | `match_rule`, `fallback_card`, `_resolve_config` | first matching rule wins; quiet hours wrap around midnight |
| score board `display/score.py` | - | `parse_score`, `format_score`, `panel_colors`, `from_the_left`, `render` | one board on every way that goes through it; each half of the panel is one player |
| web simulator `web/events.py`, `app.py`, `preview.py`, `fragments.py`, templates | the last events with sequence numbers, one position per browser | `add`, `touch`, `event_stream`, `replay` | a browser sees every event once and in order, or the newest if it fell behind |
| configuration, messages, tools `config/settings.py`, `models/message.py`, `tools/publish.py`, `openapi.py` | environment | parsing | - |

They interact in three ways.

* **Calls into the worker.** The consumer's event loop (through
  `handlers/led_handler.py`) and the HTTP handlers call `submit`, `blank`,
  `set_idle` and `set_playlist`; each takes `_lock` from its first to its last
  line. `__main__` calls `stop` through `reset_worker`.
* **The worker's thread.** It takes the lock for one read or one write at a time
  and draws, fetches and waits without it, so any call can fall between any two
  of its steps. Three events connect the two sides: `_wake` (something is
  waiting, or look again), `_cut` (end a finite display) and `_stopping`.
* **The event loop.** Consumer, API and browser streams are coroutines of one
  loop: they interleave at every `await`.

What is hard here is therefore first of all the worker: reads of shared state
that are acted on after the lock was given up, events that are set on one side
and cleared on the other, and a thread that must survive whatever a display
does. After it come

* the consumer: at-most-once delivery over a server that may restart, a
  subscription switched while a read is under way;
* the image cache: files touched, replaced and removed by several threads;
* the API: requests that overlap at their downloads, and a playlist and an idle
  screen kept in two places;
* the simulator: a page that polls a stream which remembers what it sent, while
  either side may lose the other;
* the shutdown: five parts that each may end first;
* rules, boards and playlists: sequential, but with many cases that a table of
  examples does not exhaust.

## Modules

| module | models |
|---|---|
| `DisplayWorker` | the worker: clients, thread, panel |
| `DisplayHandOff` | what its queue promises: a bounded hand-off where the newest wins |
| `RedisConsumer` | the consumer, `_run_consumer` and the Redis they talk to |
| `Delivery` | what the consumer promises: each stream in order, nothing twice |
| `ImageCache` | the directory of fetched images, `fetch_image` and `_prune` |
| `RateLimiter` | the sliding window of `/display` and of the replays |
| `DisplayApi` | the endpoints of `/display`, their requests and the router's state; EXTENDS `RateLimiter` |
| `Score` | a board from payload to panel: parsing, writing, colours, ends, layout |
| `Rules` | the rule engine and those who ask it; EXTENDS `Score` |
| `Playlist` | the schedule of a playlist, and the worker playing it |
| `Simulator` | event tracker, event streams and the pages that follow them |
| `Lifecycle` | the process from start to exit, in every `LED_MODE` |
| `MC...` | the instances TLC checks |
| `DisplayWorkerProofs`, `RedisConsumerProofs`, `ImageCacheProofs`, `DisplayApiProofs`, `RulesProofs`, `PlaylistProofs`, `SimulatorProofs`, `LifecycleProofs` | the theorems |

Three modules say what others may rely on. `DisplayHandOff` and `Delivery` are
promises to the outside, shown by refinement. `RateLimiter` is a specification of
its own that the whole of `DisplayApi` implements (`ApiIsLimited`). Where one
module needs another only for an outcome, it takes the outcome: a fetch in
`DisplayWorker` and `DisplayApi` ends well or badly (`ImageCache` says how), the
thread in `Lifecycle` draws, fetches or has ended (`DisplayWorker` says why, and
that it ends once it is told to stop, `StopEnds`), a stream in `Lifecycle` ends
once `stop` is set (`StreamsEnd` of `Simulator`), and a message
in `Simulator` has a display or none (`Rules`).

### DisplayWorker

*State.* `pending`, `superseded`, `showing`, `idle`, `idle_active`, `playlist`,
`playlist_active` are the fields of the class without their underscore; `wake`,
`cut`, `stopping` the three events. `pc` says where the thread is, `config`,
`then_due` and `captured` are its locals (the display in `_show`, whether
`_show_then` follows, and the idle screen or playlist captured at the start of
`_run_idle_screen` or `_run_playlist`). `panel` is what the LEDs show, which is
not a field of the code: the drawing functions change it. The history variables
(`calls`, `submitted`, `taken`, `takenAt`, `blankedAt`, `playlistAt`) number the
calls and appear in no guard but the bound on `calls`.

*Data.* A display is a model value; what the thread asks of it is in the sets
`Held`, `Remote`, `AnimatedHold` and the function `Then`. An entry of
the queue is a display and the number of the call that put it there, so that two
submissions of the same display are two entries, as two objects are in the code.

*Actions.* One per client call, each atomic because the code holds the lock
throughout. The thread is cut wherever it gives the lock up:

| code | actions |
|---|---|
| `_run` | `CheckStop`, `TakeNothing`, `TakeNext`, `FreeForPlaylist`, `PlaylistDue`, `IdleDue`, `FreeForIdle`, `Poll`, `ForgetShowing`, `Die` |
| `_show`, `_wait`, `_localise` | `ShowBlank`, `Darken`, `Localise`, `FetchFails`, `FetchRaises`, `MarkShowing`, `Draw`, `DrawFails`, `HeldEnds`, `FiniteEnds`, `FiniteCut`, `ForgetCut`, `Shown` |
| `_show_then` | `ShowThen`, then the actions of `_show` again with `then_due` false |
| `_run_idle_screen` | `IdleOn`, `IdleCheck`, `DrawClock`, `ClockFails`, `IdleBroken`, `IdleOff` |
| `_run_playlist` | `PlaylistOn`, `PlaylistCheck`, `NextSlot`, `PlayItem`, `SkipItem`, `ItemCut`, `ItemEnds`, `PlaylistOff` |

Time is a choice: a wait with a timeout may end at any moment, a fetch may take
any time, a playlist with a `total` may run out (`RunsOut`) whenever it is set.
Two unlocked reads in a row are one step where a change between them could as
well have happened before the first or after the second; the two reads of
`_showing` in `_run` and the reads of `_idle` and `_playlist` are steps of their
own, because there it matters.

### DisplayHandOff

Items waiting in order, at most `Size`; `Offer` appends one and may drop others
but never the newest, `Discard` drops all, `Take` hands out the oldest; every
item is offered once and taken, dropped or waiting, and nothing waits forever
until it is closed. `DisplayWorker` implements it (`HandsOff`) with BLANK, which
is an instruction and no display, left out of the queue.

### RedisConsumer

*State.* Redis is what the consumer sees of it: per stream the number of ids
handed out (`sent`), how many of them were lost with its data (`lost`), the
group's last-delivered-id (`group`, -1 without group) and its pending entries
(`pel`). `streams`, `state` and `running` are the fields of the class; `asked`,
`batch` and `acking` the locals of `run` and `_process_entry`; `requested`,
`added` and `skip` those of `set_streams`. `pc` says where the two coroutines
are, `todo` and `lacking` where each is in the loop of `_ensure_group`, `stop`
and `sup` where `_run_consumer` is. The history variables record what went to
the handlers (`handled`), what was left out on purpose (`skipped`), what a group
was moved past (`passed`) and where the streams ended when a switch began
(`mark`).

*Data.* An entry is a stream and a number. Lists of streams are sets: their
order decides only the order of commands that do not depend on each other, and
every order is allowed. Why an entry is left out (`MAX_MESSAGE_AGE`, no
`messageID`, no payload) is a choice, as is the time of everything.

*Actions.* A command to Redis is one step with its answer; where the answer can
be lost after Redis did what was asked, a second action does only Redis's half.

| code | actions |
|---|---|
| `wait_ready`, `_startup_attempt`, `_ensure_group` | `Ping`, `Look`, `Create`, `Ready`, `AttemptFails`, `AttemptBusy` |
| `run` | `Loop`, `Read`, `ReadLost`, `ReadNothing`, `ReadRefused`, `ReadFails`, `Wake` |
| `_process_entry`, `_resolve_payload`, `_too_old` | `Handle`, `Skip`, `Ack`, `AckFails` |
| `set_streams`, `POST /streams`, the simulator's form | `SwitchBegins`, `Look`, `Create`, `SwitchEnsured`, `SkipBacklog`, `SwitchDone`, `SwitchFails`, `SwitchRefused` |
| `_run_consumer`, `mark_failed`, `shutdown`, the signals | `Signal`, `ConsumerEnded`, `Shutdown`, `Cancel` |
| outside the program | `Produce`, `LoseData`, `Restart` |

`_switch_lock` makes one call of `set_streams` at a time; what another call does
while it waits for the lock changes nothing. XREADGROUP looks at the groups of
all streams before it hands anything out, so that one missing group refuses the
whole command (`GroupsThere`).

### Delivery

`Send` adds an entry to a stream, `Show` gives one to the handlers that is later
than all of its stream before it. `RedisConsumer` implements it (`InOrderOnce`)
with `handled` for what was shown.

### ImageCache

*State.* `files` has for each name, a URL and a suffix, when the file was last
stored or touched and whether its body is whole; `parts` the `.part-` files;
`fetch` what each thread is doing in `fetch_image`, with the listing and the
times its `_prune` has read. `got`, `alone` and `lost` are history: what a request
was answered so far, whether any other call has run since it began, and the names
that other calls removed or dated back since the thread listed the directory.

*Data.* The digest of a URL is the URL. What `_download` and `_verify` find out
(redirects, size, format) is the suffix or a failure. Times are distinct:
a touch or a write takes the next one.

*Actions.* A thread stops between any two accesses of the directory:

| code | actions |
|---|---|
| `fetch_image` | `Call` (the lookup), `Touch`, `Download`, `Write`, `Rename`, `DiskFails`, `Answer` |
| `_prune` | `List`, `Stat`, `Sort`, `Unlink` |
| `put_playlist` | `StartPlaylist` |
| outside the program | `Crash` |

### RateLimiter and DisplayApi

*State.* `clock`, `hits` and the history of all grants for the limiter; its clock
is the monotonic one. For the API `wall`, the wall clock a playlist goes by, the router's `state` (idle screen, its colour, playlist), the worker's
`_idle` and `_playlist`, and each request: where it is, the images it still has
to resolve, its status and Retry-After. `panel` is FALSE in `LED_MODE=web`,
where no worker exists. `submitted` and `recorded` are what the worker and the
tracker were given; `last` and `dropped` are history. `Later` moves both clocks on,
`ClockIsSet` sets the wall clock.

*Data.* A request is a record of what its endpoint looks at: operation, token,
images (each a local file, a URL or missing), kind, text (blank, fitting or
long), colour, mode and total. Time is counted in ticks, of which `Second` make a
second, so that a wait can be a fraction of one: `RetryAfter` adds `Carry`, which
is the .999 of the code, and cuts to whole seconds.

*Actions.* `acquire()` runs under its lock and is one step. An endpoint keeps the
event loop from one `await` to the next, and only downloads are awaited:

| code | actions |
|---|---|
| `authorize`, `acquire` | `Unauthorized`, `Admit` (`Acquire`), `TurnAway` (`Refuse`, `RetryAfter`) |
| `localize`, the loop over the images | `StartFetch`, `Fetched`, `FetchFails`, `MissingFile` |
| `post_display`, `_to_config` | `PostDisplay` (`Showable`) |
| `put_idle` | `PutIdle`, `RefuseIdle` |
| `put_playlist`, `delete_playlist`, `delete_display` | `PutPlaylist`, `DeletePlaylist`, `DeleteDisplay` |
| `get_display`, `playlist_body` | `Body`, `Reported` |
| the worker by itself | `RunsOut`, `IdleFails` |
| the clocks | `Later`, `ClockIsSet` |

### Score and Rules

*State.* `match_rule` is a loop and is modelled as one, a rule a step: `i` the
rule it looks at, `first` the overlay it has found, `out` its answer, `panel`
what the display mode makes of it. `case` is the question (profile, message,
time, and whether a replay asks) and never changes.

*Data.* Words are values and `Lower` is what `.lower()` makes of them; a picture
is fixed, a template that names a tag, or one that cannot be rendered. A score
payload is a list of fields (`Fields`, `Payload`), where of two with one name the
last counts; a number in it is the list of integers between its separators, so
that what is no number or has too many parts can be said. A number is as wide as
its characters, and its sign is one. A colour is a hue on a wheel, in the run one of
360 degrees, the palette's rounded to one: `panel_colors` and the model then agree
for every two hues of the run, while at five degrees blue and green would come out a
quarter of the wheel apart, which in the code they are not. `Strip`, `Upper` and `Cut` are functions on the texts, of which
`TextAssumption` says what holds of Python's: capitals have no others and keep the
space of a text, and what was cut is not cut again. `PaletteAssumption` says that
each of `PANEL_COLORS` has one apart from it, as `panel_colors` takes for granted.

| code | definitions |
|---|---|
| `Profile`, `load_profile`, `QuietHours.active` | `Colors`, `LoadRule`, `Active` |
| `_matches`, `_resolve_config`, `tag_value` | `Matches`, `Resolve`, `TagValue`, `NamesNoPicture` |
| `match_rule` | `Hours`, `Skip`, `Hit`, `NoMore` |
| `led_handler`, `create_replayer`, `fallback_card` | `Use`, `FallbackCard` |
| `parse_score`, `format_score` | `Parse` with `Field`, `Pairs`; `Format` |
| `panel_colors`, `from_the_left`, `render`, `display_score` | `PanelColors`, `FromTheLeft`, `Render`, `DisplayScore` |

### Playlist

*State.* `now` is the wall clock, which the schedule goes by and which may be set;
`left` is what remains of a wait, which runs on the monotonic clock; `slot` the
slot the worker plays, `kept` whether the wall clock was left alone since.

`slot`, `expired`, `_round` and `image_at` of the code are operators, and
`_shuffled` is any permutation: what Python's generator makes of a seed is left
open, so the checks hold for every seed. `_run_playlist` is `NextSlot`, `Fails`
(an item that cannot be shown), `Ends`, `Interrupted` and
`Back`.

### Simulator

*State.* The tracker (`version`, `events`), each page's `event_stream()` with its
`last_version`, each tab's script (`lastId`, the syncs due, the answer it is
about to apply) and `log`, everything ever recorded, which the properties speak
of. Handlers run on one event loop and hand it back only at an `await` or a
`yield`; `led_handler` and `web_handler` run with none between them, so a message
is one step for both.

| code | actions |
|---|---|
| `record`, `touch`, `recent` | `RecordEvent`, `Touch`, `TheNewest` |
| `led_handler` and `web_handler`, the writes of `/display`, `replay_event` | `Message`, `ApiWrite`, `Replay` |
| `event_stream` | `StreamSends`, `StreamResumes`, `StreamEnds` |
| the page: EventSource, `sync`, the drawing of what is new | `Open`, `Close`, `Drop`, `Reconnect`, `Fetch`, `FetchFails`, `Apply` |
| the process | `Stop`, `Exit`, `Restart` |

### Lifecycle

*State.* Where `_run` is, the `stop` event, and of each part what the others can
see of it: the consumer's task and its `state`, the worker, its thread, the server
and `should_exit`. One event stream and one write stand for all that are open.
`worker` says where `stop()` is and `thread` what the thread does. The join in
`stop()` is no await, so it keeps the event loop (`LoopRuns`); it goes on when the
thread has ended or when it is in a fetch, the one wait that can outlast the 5
seconds (`JoinEnds`, `gaveUp`). A thread that ends in time and one that outlives the
process with the panel lit are both behaviours of the model.

| code | actions |
|---|---|
| `main`, first half of `_run` | `Refused`, `Start` |
| `_run_consumer` | `NoticeConsumer`, `NoticeStop`, `Closed`, `Joined` |
| `_run_standalone` | `NoticeStandalone` |
| end of `_run`, `reset_worker`, `stop` | `ResetBegins`, `Reset` (`JoinEnds`), `Leave` |
| `health.py` | `Health` |
| the parts | `ConsumerReads`, `ConsumerFails`, `ConsumerSubmits`, `FetchBegins`, `FetchEnds`, `ThreadStops`, `ThreadDies`, `ServerFails`, `PortTaken`, `StreamOpens`, `StreamStops`, `WriteArrives`, `WriteEnds`, `ServerEnds` |
| outside the program | `Signal` |

## Runs

| run | module | bounds | what it shows |
|---|---|---|---|
| `worker_queue` | `MCDisplayWorker` | queue of 2, 3 calls; finite, held, remote and animated displays, clock, playlist, stop, every failure | types, no lost wakeup, the queue's order, newest and counts, no stale cut, a held display leaves only for something newer |
| `worker_live` | `MCDisplayWorker` | queue of 1, 3 calls; a held card and an overlay over it, both with images that may fail, clock, playlist, stop | no race ends the thread; what is lit is what GET /display says; blank and stop take effect, clock and playlist come back; the hand-off |
| `found_thread_dies` | `MCDisplayWorker` | one remote display | an OSError of a fetch ends the thread |
| `consumer_safe` | `MCRedisConsumer` | two streams of 2 entries, one loss of data, restart, switch and failure | types, accounts, order and at most once |
| `consumer_live` | `MCRedisConsumer` | two streams of 1 entry, 2 switches, one failure, one signal | subscribed streams have their group, a switch skips the backlog of what it adds and nothing else; reading, switching and ending are never stuck |
| `found_group_gone` | `MCRedisConsumer` | one stream, one loss of data | NOGROUP for ever, with the state `running` |
| `cache_safe` | `MCImageCache` | 2 threads, 3 URLs, 2 suffixes, 2 files kept, 4 calls, all faults | no half file, a prune removes what lies behind the files it keeps, whoever is alone finds what was fetched |
| `rules` | `MCRules` | every list of up to 3 of 7 rules against 5 messages, every quiet stretch of a day of 4 steps, some 6000 payloads | the answer is the one the profile reads like; a replay is always shown; a board survives its parsers and its halves are the players |
| `playlist` | `MCPlaylist` | 1 to 3 images; every pair of shuffles of three; totals that cut a slot; the clock set once; time to 12 | rounds are whole, the schedule is kept after any interruption, a total ends when it says |
| `simulator` | `MCSimulator` | one page, 3 events, a ring of 2, one mishap or restart | the ring and its replays; the canvas draws each event once, in order, and leaves none out; it catches up; streams end |
| `display_api` | `MCDisplayApi` | 3 of 12 requests, limit 2 in a window of 5 ticks, 3 to a second, at three instants; the wall clock set back; with and without a panel | timeline and panel agree, one state in two places, the limiter and its Retry-After, all or nothing |
| `lifecycle` | `MCLifecycle` | none: the state space is finite, all four modes | the shutdown's order, exit code and probe tell what happened, the process goes away |

A property of a configuration is often a conjunction of named parts, each with
its own comment in the module (`QueueKept`, `OneState`, `BoardReads`, ...).

*Why the bounds are enough.* A queue of two is the smallest in which an entry is
neither first nor last in turn; three calls fill and overflow it and put a held
display behind and before a finite one. The liveness run has a queue of one and
three calls: a display on the panel, a call that waits, such as a blank, and one that
supersedes it. Its displays are the held one and the overlay, the two that leave
something lit when something else fails; texts are in `worker_queue`. Clock and
playlist matter by being there, being exchanged and being gone. The calls
`set_idle`, `set_playlist(None)` and `stop` are not bounded.

For the consumer, two streams are one subscribed and one added, in every
combination a switch can meet; two entries are one before and one after an
event, and with `Count` 1 they need two reads. One mishap of each kind covers
every pair of mishaps of different kinds; two switches are there and back.

In the cache, three URLs are one more than it keeps, so that a prune has
something to take while both threads use others, and four calls let one thread
finish a playlist of two beside or after two others. A limit of two grants is the
smallest with an oldest grant that is not the newest. At the instants 0, 1 and 5 with
a window of 5 and 3 ticks to a second, a refusal has waits of 5, 4 and 1 ticks: one
that is carried to the next second, one that is cut, one below a second; and at 5 the
first grant falls out of the window to the tick. Three requests are one that was
there, one that is fetching and one that comes between. `Calls` holds every
outcome an endpoint can have for each operation. A ring of two loses an event
with three, and three events are one before, one during and one after a sync.
Four steps are every order of `from`, `to`, now and midnight. Rules see each other
only through the first and the second match, so three of them (one that does not
match, an overlay, another) are all there is to tell apart. Three images are the
fewest that are shuffled and the ones for which a swap at a round's seam touches
the most. `CHECK_DEADLOCK FALSE` stands where nothing is left to do: no calls, or
a process or a thread that has ended.

*Fairness.* `FairSpec` of `DisplayWorker` is weak fairness of the thread as a
whole: a daemon thread of the interpreter that is never blocked for good except in
the wait of a held display, whose guard is the `wake` event; every other wait and
every socket operation has a timeout. No fairness is assumed of the clients, and
none of the wall clock. For the consumer it is weak fairness of each of the three
coroutines: the event loop runs whatever can go on, every command to Redis has a
socket timeout, and XREADGROUP returns after `BLOCK_MS`. Failures are bounded by
`Allowed`; a Redis that fails for ever is read from never. `Playlist` adds that
time passes and that a message's time runs out (messages are finite or replaced).
`Simulator` and `Lifecycle` assume that the loop runs every generator, browser
every script, a write to its end (its downloads have timeouts) and `_run` to its
next await; no tab need be closed and no signal need come. Of the display thread
`Lifecycle` assumes that it leaves every wait but a fetch once it is told to stop; no
fetch need end.

### What does not hold

The two `found_` runs show traces of the code that a sentence of its
documentation rules out; PROJECT.json quotes the sentences. Others were met while
modelling. The models have these behaviours; the properties are stated so that
they hold beside them, and each exception is named where it is made.

Worker:

* A playlist is held up by a display that was taken but not yet marked when
  `set_playlist` looked for a held one (`worker.py:225`, `321`), though "a held
  display gives way to it". `HeldStaysUp` allows both.
* `set_playlist(p)` followed at once by `set_playlist(None)` clears `_showing`
  (`worker.py:234`) of a held display that stays lit; `LitDisplayIsShowing` speaks
  of displays submitted after the last call about a playlist.
* A clock stays lit after it was switched off when the switch falls between the
  reads of `_idle` (`worker.py:323`, `411`, `436`) and another screen follows.
* `stop()` says that it leaves the panel dark (`worker.py:258`), and `_run` counts on
  it (`__main__.py:329-330`), but the join gives up after 5 seconds with no more than
  a warning (`worker.py:265-267`). A fetch that takes longer leaves what was lit
  before it lit, and the process ends over its daemon thread. `StopEnds` is about the
  thread, which does end if the process lives on; `LeavesDark` says that this and a
  port that is taken are all the ways to end with the panel lit, and that without a
  consumer only the second is.
* With `DISPLAY_QUEUE=1` a submission drops a waiting blank; if its image cannot
  be fetched, a held display stays lit although it was blanked (`worker.py:163`,
  `173`) until something else is shown. `BlankTakesEffect` names this case
  (`NotShown`); without it `worker_live` finds it.
* DELETE /display/playlist without a playlist wakes the frame loop of a held card
  (`worker.py:531`), which then redraws early.
* `_show_then` gives the lock up between looking at the queue and showing
  (`worker.py:364-367`), so a submission in between is drawn after `then`.
* `set_idle(None)` after a failing `draw_clock` (`worker.py:427`) also switches
  off a screen that was put meanwhile.
* An overlay that is held over another display (`Then`) gives way to that display
  at the next wake, whatever set it (`worker.py:329`): `HeldStaysUp` speaks of
  displays that play over nothing.
* A drawing that fails may leave on the panel what was there before it, or what it
  had swapped in (`worker.py:389-398`), while GET /display names the new display if
  it is held and nothing otherwise; `LitIsShowing` is proved for drawings that
  succeed, and `worker_live` has no others.
* A text cut by a blank that was itself superseded stays lit when the image of
  what superseded it cannot be fetched; `LitDisplayIsShowing` leaves it out.
* A gif with `hold` whose file is missing or has one frame falls back to a still
  mode with `config.hold` (`modes.py:241`) and stays up, though
  `docs/display-api.md:81` says only the still modes honour it (`AnimatedHold`).

Consumer:

* A switch with `skipBacklog` false to a stream without group creates the group at
  `$` and passes its backlog over (`redis_consumer.py:149`, `README.md:243`).
* Entries that were pending when an XACK failed, an answer was lost or the
  process was killed are never read again (`redis_consumer.py:288` asks for `>`
  only), so `pending` in XINFO GROUPS only grows by them;
  `docs/raspberry-pi-operations.md:66` explains it by slow handlers. A JSON.GET
  that fails with the connection counts as a payload that does not exist (`213`).
* `set_streams` that fails half-way answers 503 and leaves the groups it has
  moved where they are (`redis_consumer.py:183-186`).
* `wait_ready` that returns while `shutdown` closes the client sets the state
  from `stopped` back to `running` (`redis_consumer.py:284`).

Cache:

* `touch()` re-creates a file that was pruned since the lookup, empty
  (`remote.py:99`), and `stat` of a removed file raises FileNotFoundError out of
  `_prune` and `fetch_image` (`172`), which no caller expects.
* A prune may remove a file that fewer than `CACHE_FILES` newer ones outlive:
  another prune took some of them, or a slow download was renamed over one and
  dated it back (`remote.py:112`). `PruneTakesOldest` counts these too (`lost`).
* `.part-` files of a killed process or a full disk are never removed.
* Only fetches touch a file, so the fetches of other clients can take an image of
  a playlist that is running (`remote.py:42-43`); `AloneIsFound` speaks of a
  request nobody fetched beside.

Rules, boards and playlists:

* A custom severity colour whose name is not in lower case is never found
  (`engine.py`, the lookup lowers the name and the list is not lowered).
* `match_rule` runs once for the panel and once for the simulator, at two
  instants; a boundary of the quiet hours between them parts the two. They also
  part when the picture of a display that is no overlay cannot be fetched
  (`web/handler.py:37-52`): the panel skips it, the canvas draws text.
* A name cut to its width may end in a blank, which the second parse removes
  (`BoardReads` compares names without it), and `PUT /display` hands a score on
  without writing it anew.
* `docs/profile-reference.md:183-185` says that `match`, `transition` and `side` are
  ignored. `match` is; `transition=point` with a `side` says who made the last point
  when there is no `last` (`score.py:309-313`), as `Parse` does.
* Points need not be such as fit. Below zero they are drawn with their sign, for which
  there is no digit and which takes the room of one (`score.py:483`, `509-516`); from
  -10 down and from 100 up they leave their half or the panel. `BoardFits` says
  exactly which fit.
* "Never one image twice in a row" (`display_api.py:155`) needs the images of a
  playlist to differ: named twice, an image follows itself.

API, simulator and process:

* A PUT of a playlist that is still fetching starts it after the DELETE that was
  meant to stop it (`display_api.py:414-424`): the last request is the one
  answered last. `playlist_body` asks for the time twice and may mix two slots.
* `Retry-After` may be too short by less than a thousandth of a second: 5.0005 is sent
  as 5 (`display_api.py:336`), and who waits the given seconds, as
  `docs/testing-with-curl.md:211` has it, can be refused once more. For replays it is
  `int(wait) + 1` (`web/app.py:200`), which is never too short.
* A wall clock that is set back makes a playlist that had run out current again in the
  router's `state`. With a worker nobody sees it; without one GET /display reports it
  again (`display_api.py:284-286`).
* `state["idle"]` still names the clock after the worker switched it off because
  it cannot be drawn (`OneIdleScreen`, `dropped`).
* A page that stays open across a restart compares new ids, which begin at 1, with
  its old `lastId` and draws nothing until they pass it (`index.html:1445`). A
  sync that fails leaves the canvas behind until the next message, and when the
  page's first one fails the next draws the whole backlog.
* While `stop()` joins the thread, for up to 5 seconds, the event loop stands still: no
  probe is answered and no signal handled (`__main__.py:331`, `LoopRuns`).
* A port that is taken ends the process past `reset_worker`, with the panel as it
  is (`__main__.py:336`, `portTaken`).
* With a consumer, nobody notices that the display thread or the server has ended:
  the process runs on and the probe says 200 (`__main__.py:327`). Without one a
  signal that comes with a failure makes the exit code 0.
* A write or a replay under way is handed to the worker after it was stopped
  (`__main__.py:329`, `late`).
* `REDIS_STARTUP_TIMEOUT=0` is unlimited and `0s` is refused.

## Proofs

Each proof rests on the named assumptions about the constants in the module it is
about, which TLC evaluates in every run, and on nothing else.

`DisplayWorkerProofs` proves for every `QueueSize`, every set of displays, idle
screens and playlists, every number of calls and every interleaving:

| theorem | states |
|---|---|
| `TypeCorrect` | `Spec => []TypeOK` |
| `QueueCorrect` | `Spec => [](NoLostWakeup /\ QueueShape /\ InOrder /\ NewestSurvives)` |
| `QueueIsKept` | `Spec => []QueueKept`, that is the above and `Conservation` |
| `CutCorrect` | `Spec => CutOnlyByLaterBlank` |
| `OnlyFetchEndsThread` | `"oserror" \notin Faults` implies `Spec => []ThreadSurvives` |
| `HeldStays` | `Spec => HeldStaysUp` |
| `LitIsShowing` | `"draw" \notin Faults` implies `Spec => []LitDisplayIsShowing` |
| `WorkerHandsOff` | `Spec => HandOff!Init /\ [][HandOff!Next]_(HandOff!vars)`, the safety part of `HandsOff` |

`TypeOK` alone is not inductive, because `ShowThen` applies
`Then` to the display of the thread: `Locals` adds what the locals hold at the
labels where they are used. It is proved in parts (`QueueType`, `LabelType`,
`FlagType`, `CountType`, `ScreenType`) that the prover can handle one by one.
`OnlyFive` says that all but five steps leave the queue and its counters alone
and at most set the wake, so the queue's invariants need five cases.

`Handed` strengthens the four queue invariants with the bounds on the stamps and
with the fact the cut rests on: while it is set and the thread is not stopping,
the last `blank()` is newer than the last entry taken. `CutCorrect` adds
`Stamped`: the display in the thread's hands is no newer than the last taken.

`Conservation` needs to know how many displays a queue holds. `QueueShape` makes
that simple: BLANK can only be first, so the displays are all entries or all but
one (`WaitingCount`), and cutting a queue in two splits the count
(`SubSeqCount`, `EnqueueConserves`).

`Chosen` carries the race for a playlist that is gone: whoever takes the
playlist away sets the wake, the wake is only spent in `_take`, and the thread
asks for it between capturing the playlist and asking it for a slot.

`KeptUp` is why a held display stays: as long as it is the newest thing anybody
asked for, it is marked as showing, and the thread is at a label (`Resting`) from
which a mark leads past the playlist and the idle screen. `PanelSteps` says once
what a step may do to the panel. `Lit` adds what GET /display rests on: a cut has
something waiting behind it, a finite display is on the panel while the thread
waits for it, a held one is marked unless a call about a playlist unmarked it, and
a finite one that is left behind is left for what waits.

For the hand-off, `Unblanked` is the queue without a BLANK, which can only be
first. A submission is an `Offer` whether it finds room, replaces a held display
that only waits, or pushes out the oldest, BLANK or not; it is new because calls
are numbered (`InOrder`). Taking a display is a `Take`, taking BLANK a stutter,
`blank()` a `Discard`. Of `HandsOff` only the fairness is left to TLC.

`RedisConsumerProofs` proves for every set of streams, every configuration and
set of requests, every batch size, any number of entries and of mishaps of each
kind:

| theorem | states |
|---|---|
| `TypeCorrect` | `Spec => []TypeOK` |
| `DeliversInOrderOnce` | `Spec => InOrderOnce`, that is `Spec => Promise!Spec` |
| `AccountsForAll` | `Spec => []Accounted` |
| `SwitchCorrect` | `Spec => SkipsOnlyAdded` |
| `NeverWithoutGroup` | `Spec => []SubscribedHasGroup` |

All rest on `Shaped`, which adds to the types that no position is ahead of what
was sent and what `set_streams` may rely on between its awaits (`SwitchShape`):
it alone changes `streams`, so what it found missing is still missing. The
`...Steps` lemmas say once which actions change a variable.

* Order: positions never go back (`Grows`), what is in `batch` lies behind the
  position and nothing as late of its stream was handled (`Fetched`), and what
  was handled lies behind the position (`Behind`). A batch therefore never meets
  the entries of an earlier one.
* Accounts: an entry comes behind the position by being delivered, when it is
  pending, or by being passed over; it leaves the pending ones by XACK only, and
  what waits for its XACK was handled or left out (`Settled`).
* Switches: the streams that were visited are read up to their `mark`
  (`Advanced`), and those that are visited are not subscribed (`SwitchShape`).
* Groups: at every label of either coroutine, the groups of the streams it is
  done with are there (`GroupsMade`); it survives the races of the two because
  `set_streams` subscribes only to streams whose group it has seen or made.

`DisplayApiProofs` proves for every limit and window, any set of requests and
calls, with and without a panel:

| theorem | states |
|---|---|
| `LimiterHolds` | `LimiterSpec => []AtMostLimit` |
| `ApiIsLimited` | `Spec => LimiterSpec /\ []AtMostLimit` |
| `ApiOneState` | `Spec => []OneState` |
| `ApiAllOrNothing` | `Spec => AllOrNothing` |
| `ApiRefusesRightly` | `Spec => RefusedForAReason` |
| `ApiTimeline` | `Spec => []TimelineIsRight` |

The limiter forgets grants, so `AtMostLimit` says nothing about what it still
knows. `LimiterInv` ties the two: `hits` is the tail of all grants ever given,
in order, and what was popped is a window old. Every step of the API is one of
the limiter's or leaves it alone (`SpendsOnly`), which is the refinement. `Agree`
says that router and worker differ at most by a playlist that has run out, which
only a wall clock that is set back undoes; `Timed` that the end of a playlist is counted from the moment
its request was answered, and answered requests stay as they are
(`AnsweredStays`). A request that is answered with an error leaves all of the
state alone (`RequestSteps`). What is refused was refused for the oldest of the
grants that still count (`RefusesRightly`); that its Retry-After is right to a second
is arithmetic (`WholeSeconds`, `RightToTheSecond`). `Timeline` is inductive because a request is put on
the timeline in the step that answers it, handed to the worker in the same one, and
never answered again: `Posts` and `Quiet` are the two kinds of step.

`ImageCacheProofs` proves for any number of threads, URLs and files, whatever is
left over in the directory, and all faults:

| theorem | states |
|---|---|
| `CacheWhole` | `Spec => []Whole` |
| `PruneCorrect` | `Spec => PruneTakesOldest` |
| `AloneFinds` | `Spec => AloneIsFound` |

`Whole` needs `Named`: a call that has got past the lookup is about a name.

A prune decides on times it read one after the other, and removes one file after
the other. `Looked` says what it may rely on meanwhile: a file it read is as new as
it saw it, or another call took it away or dated it back (`Kept`). `Times`
gives every file a time of its own, so that the files a prune removes lie behind
`CACHE_FILES` that it keeps (`BehindThoseThatStay`, where finite sets are counted).
Without `lost` the property is false: with three files kept and five left over, two
prunes that both saw all of them each remove what the other counted as newer.

For a request nobody fetches beside, `SoloInv` follows it from call to call: what
it was answered is there and newer than all else (`Safe`), the file just stored is
the newest (`Newest`), its prune sees the directory as it is (`SeesAll`), and what
the prune finds too old is none of the request's (`RemovesStale`).

`RulesProofs` proves for every profile, message and hour, every payload, and every
palette and set of texts:

| theorem | states |
|---|---|
| `MatchCorrect` | `Spec => []MatchIsRight` |
| `ReplayIsShown` | `Spec => []ReplayShows` |
| `BoardIsRead` | `Spec => []BoardReads` |

`LInv` says what the loop knows at rule `i`: no candidate lies before it, or exactly
the overlay it keeps. `ActiveIsTheArc` is the arithmetic of the quiet hours for a day
of any length. `Answered` carries what the loop has answered to what was asked, so
that a replay that found no rule gets the fallback card.

The board goes in five steps, each a lemma about operators and none about states.
What a payload says of a key is its last field of that name (`LastOf`, `FieldIs`),
so that what `Parse` returns is a `Board` (`ParsedIsBoard`). What `Format` writes
says each key once or not at all (`FormatSays`), so that parsing it gives the board
back (`ReadAgain`). The nearest colours of two players are told apart
(`NearestIs`, `ColorsTellApart`). Turning swaps each pair of the board or none, so
that a half is the player at that end (`TurnedStands`, `DrawnHalves`). What is drawn
fits its half (`DrawnFits`). `BoardInv` ties these to the loop, which may hand a
board on, write it anew or show something else.

Where a definition recurs over data, the library's induction theorems are of no use,
since they take an operator; the natural numbers are well-ordered, though, which is
a statement about sets. `LeastOf` says so, and `UpTo` turns it into an induction
over the lengths of a list: `CountExists` shows with it that the recursive function
in `Pairs` exists, and `PairsAreSets` and `PairsOfSets` what it computes.

`PlaylistProofs` proves for every number of images, every duration, start and total,
and for whatever `_shuffled` returns that has the same elements:

| theorem | states |
|---|---|
| `OrderIsWhole` | `Spec => []RoundsAreWhole` |
| `KeepsSchedule` | `Spec => []PlaysOnSchedule` |
| `NeverPastTotal` | `Spec => EndsOnTime`, the safety part of `TotalIsKept` |

A round is a permutation before and after the swap at its seam; which image of it
plays is integer division, of which the solver is told what it needs in lemmas of
their own. The schedule is kept because what remains of a wait and the clock always
add up to the end of the slot (`Inv`); setting the clock is what breaks it, and the
next slot restores it. `RoundsAreWhole` speaks of every round up to `MaxTime`, which
is any number.

`SimulatorProofs` proves for every ring, any number of pages, events, mishaps and
restarts:

| theorem | states |
|---|---|
| `RingCorrect` | `Spec => []RingIsRight` |
| `CanvasCorrect` | `Spec => CanvasIsThePanel` |

`RingOK` ties each entry of the ring to the log, `Rooted` each replay to the event
it repeats, which is no replay. For the canvas, `Order` says that everything newer
than a page's `lastId` is newer than all it has drawn, in the ring as it is and in
the answer the page still holds, and `Whole` that what the ring or the answer has up
to `lastId` is drawn. `Whole` holds of pages that have seen no restart (`Current`):
afterwards ids begin again at 1 while `lastId` stays.

`LifecycleProofs` proves `ShutdownInOrder`, `Spec => []StopsInOrder`, and `ExitTells`,
`Spec => TellsWhatHappened`, in all four modes. `Fresh` says that nothing is there
before the start, `Staged` what each stage of the shutdown has behind it, `Outlives` that a
thread which outlives `stop()` is one the join gave up on, `Caused` why the shutdown
began.

*Only model-checked:* what needs fairness, which is out of the prover's reach.
These are `BlankTakesEffect`, `StopEnds`, `StandbyReturns` and the liveness part of
`HandsOff` for the worker; `SubscribedIsRead`, `SwitchEnds` and `DeadConsumerEnds`
for the consumer; `CanvasCatchesUp` and `StreamsEnd` for the simulator; `GoesAway`
for the process; and the half of `TotalIsKept` that says a total runs out. Every
invariant and every action property of the runs is stated by a theorem.

## Plan

Done: `DisplayWorker`, `RedisConsumer`, `ImageCache`, `RateLimiter` and
`DisplayApi`, `Score` and `Rules`, `Playlist`, `Simulator`, `Lifecycle`, with the
proofs above. What would come next:

1. Two pages at once in the `simulator` run, and two event streams in `Lifecycle`:
   they share nothing but the tracker, which no page writes to, and the theorems
   about `Simulator` are for any number of pages.
2. The steps of `BlankTakesEffect` and `StopEnds` that need no fairness: the
   distance the thread still has to go, which no step but a new call lengthens.

## Not modelled

* What a display looks like (`card.py`, `frames.py`, `bdf.py`, `clock.py`,
  `offscreen.py`, the fonts, the preview, the fragments and the templates but for
  the page's script): no state, or state nothing else acts on. Of `score.py` the
  glyphs and rows are left out, the columns of the points are not.
* The parsing of settings, of YAML and of messages: their results are the
  constants. That `load_config` may refuse is `Refused`.
* `_localised` in `web/handler.py`, which rewrites an image's URL for the canvas
  and blocks the event loop while it fetches; `log_handler.py`, which logs; the
  queue of displays inside the canvas script and the parser of boards it has of its
  own (`web/templates/index.html`), of which nothing here says that it agrees with
  `score.py`.
* Mounting below a base path, `GET /display/options`, the OpenAPI document, the
  publishing tool and everything around the program (`kcl/`, `dagger/`, `hack/`,
  CI).
* The number of log lines, the wording of messages and the rates of animation
  appear in no property.

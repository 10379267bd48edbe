------------------------------ MODULE Lifecycle ------------------------------
(* The process (__main__.py, handlers/health.py, get_worker() and reset_worker()   *)
(* of display/worker.py): what it starts in each LED_MODE, what ends it, and the    *)
(* order in which a shutdown takes it down. The consumer, the display worker and    *)
(* the web server run beside _run(), which waits for the first of them to end or    *)
(* for `stop`. One event stream and one /display write stand for all that are open. *)
EXTENDS Naturals

Modes == {"led", "web", "full", "standalone"}
Panel(mode) == mode # "web"             \* get_worker() is called
Consumes(mode) == mode # "standalone"   \* there is a RedisConsumer
Simulates(mode) == mode # "led"         \* there is a tracker, and a page to stream to

VARIABLES mode,
          pc,           \* where _run() is
          clean,        \* what _run_consumer() or _run_standalone() returned
          code,         \* the exit code
          stop,         \* the `stop` event
          asked,        \* whether a signal asked for the shutdown
          consumer,     \* "none", its task "connecting", "reading" or "ended"
          label,        \* the consumer's `state`, which /healthz reports
          worker,       \* "none", "running", or in stop(): "stopping", and "stopped" after it
          thread,       \* its thread: "none", "drawing", "fetching" an image, "ended" with the panel dark
          gaveUp,       \* history: the join of stop() ran into its timeout
          displayed,    \* set_display_state(): whether /healthz looks at the worker
          server,       \* "none", "serving", "failed", "done"
          shouldExit,   \* `server.should_exit`
          open,         \* an event stream is open
          writing,      \* a /display write or a replay is under way
          late,         \* who handed the worker a display after it was stopped
          portTaken     \* uvicorn could not bind

runVars == <<mode, pc, clean, code, stop, asked>>
workVars == <<worker, thread, gaveUp, displayed>>
partVars == <<consumer, label, workVars>>
webVars == <<server, shouldExit, open, writing>>
vars == <<runVars, partVars, webVars, late, portTaken>>

(* main() and the first half of _run(): a configuration load_config() or            *)
(* _idle_screen() refuses ends it with 1 before anything has started. Otherwise      *)
(* everything is started without an await, so it is one step.                       *)
Refused ==
    /\ pc = "loading"
    /\ pc' = "exited" /\ code' = 1
    /\ UNCHANGED <<mode, clean, stop, asked, partVars, webVars, late, portTaken>>

Start ==
    /\ pc = "loading" /\ pc' = "waiting"
    /\ consumer' = IF Consumes(mode) THEN "connecting" ELSE "none"
    /\ label' = IF Consumes(mode) THEN "waiting" ELSE "none"
    /\ worker' = IF Panel(mode) THEN "running" ELSE "none"
    /\ thread' = IF Panel(mode) THEN "drawing" ELSE "none"
    /\ displayed' = ~Consumes(mode)
    /\ server' = "serving"
    /\ UNCHANGED <<mode, clean, code, stop, asked, gaveUp, shouldExit, open, writing, late, portTaken>>

Running == pc \notin {"loading", "exited"}

\* The event loop runs: the join of stop() is no await and keeps it.
LoopRuns == Running /\ pc # "stopping"

\* SIGTERM or SIGINT, at any time: the handler sets `stop`, as often as it comes.
Signal ==
    /\ LoopRuns
    /\ stop' = TRUE /\ asked' = TRUE
    /\ UNCHANGED <<mode, pc, clean, code, partVars, webVars, late, portTaken>>

-----------------------------------------------------------------------------
(* What runs beside it. *)

ConsumerReads ==
    /\ LoopRuns /\ consumer = "connecting"
    /\ consumer' = "reading" /\ label' = "running"
    /\ UNCHANGED <<runVars, workVars, webVars, late, portTaken>>

\* Redis not ready within REDIS_STARTUP_TIMEOUT, or any crash.
ConsumerFails ==
    /\ LoopRuns /\ consumer \in {"connecting", "reading"}
    /\ consumer' = "ended"
    /\ UNCHANGED <<runVars, label, workVars, webVars, late, portTaken>>

Late(who) == late' = IF worker \in {"stopping", "stopped"} THEN late \cup {who} ELSE late

\* A message reaches led_handler.
ConsumerSubmits ==
    /\ LoopRuns /\ consumer = "reading" /\ Panel(mode)
    /\ Late("consumer")
    /\ UNCHANGED <<runVars, partVars, webVars, portTaken>>

\* The thread is alive, and drawing or about to.
Draws == thread \in {"drawing", "fetching"}

(* An image of a message is fetched by the thread itself, while whatever it showed     *)
(* before stays lit; POST /display and the playlists fetch before they submit. It is    *)
(* "fetching" from _take() on, which hands nothing out once it is told to stop.         *)
FetchBegins ==
    /\ Running /\ Consumes(mode) /\ worker = "running" /\ thread = "drawing"
    /\ thread' = "fetching"
    /\ UNCHANGED <<runVars, consumer, label, worker, gaveUp, displayed, webVars, late, portTaken>>

FetchEnds ==
    /\ Running /\ thread = "fetching"
    /\ thread' = "drawing"
    /\ UNCHANGED <<runVars, consumer, label, worker, gaveUp, displayed, webVars, late, portTaken>>

\* Told to stop, it leaves its loop at the next look and darkens the panel.
ThreadStops ==
    /\ Running /\ worker \in {"stopping", "stopped"} /\ thread = "drawing"
    /\ thread' = "ended"
    /\ UNCHANGED <<runVars, consumer, label, worker, gaveUp, displayed, webVars, late, portTaken>>

\* It dies of what it does not catch (DisplayWorker's ThreadSurvives).
ThreadDies ==
    /\ Running /\ Draws
    /\ thread' = "ended"
    /\ UNCHANGED <<runVars, consumer, label, worker, gaveUp, displayed, webVars, late, portTaken>>

ServerFails ==
    /\ LoopRuns /\ server = "serving"
    /\ server' = "failed" /\ open' = FALSE /\ writing' = FALSE
    /\ UNCHANGED <<runVars, partVars, shouldExit, late, portTaken>>

(* uvicorn cannot bind the port: it calls sys.exit(1), and SystemExit ends the       *)
(* event loop from inside the server's task, past _run() and its reset_worker().     *)
PortTaken ==
    /\ pc = "waiting" /\ server = "serving" /\ ~open /\ ~writing
    /\ pc' = "exited" /\ code' = 1 /\ portTaken' = TRUE /\ server' = "failed"
    /\ UNCHANGED <<mode, clean, stop, asked, partVars, shouldExit, open, writing, late>>

StreamOpens ==
    /\ LoopRuns /\ server = "serving" /\ ~shouldExit /\ Simulates(mode) /\ ~open
    /\ open' = TRUE
    /\ UNCHANGED <<runVars, partVars, server, shouldExit, writing, late, portTaken>>

\* event_stream() ends on `stop`, or the tab is closed.
StreamStops ==
    /\ LoopRuns /\ open
    /\ open' = FALSE
    /\ UNCHANGED <<runVars, partVars, server, shouldExit, writing, late, portTaken>>

WriteArrives ==
    /\ LoopRuns /\ server = "serving" /\ ~shouldExit /\ ~writing
    /\ writing' = TRUE
    /\ UNCHANGED <<runVars, partVars, server, shouldExit, open, late, portTaken>>

\* It ends by calling the worker the router was built with, whatever became of it.
WriteEnds ==
    /\ LoopRuns /\ writing
    /\ writing' = FALSE
    /\ Late("api")
    /\ UNCHANGED <<runVars, partVars, server, shouldExit, open, portTaken>>

\* uvicorn, told to exit, waits for every response under way.
ServerEnds ==
    /\ LoopRuns /\ server = "serving" /\ shouldExit /\ ~open /\ ~writing
    /\ server' = "done"
    /\ UNCHANGED <<runVars, partVars, shouldExit, open, writing, late, portTaken>>

-----------------------------------------------------------------------------
(* _run(), from its wait to its end. *)

Return(result, to) == clean' = result /\ pc' = to

\* Mutant: only the return value tells that the consumer ended.
NoticeConsumer_Silent ==
    /\ pc = "waiting" /\ Consumes(mode) /\ consumer = "ended" /\ ~stop
    /\ label' = "failed"
    /\ Return(FALSE, "closing")
    /\ UNCHANGED <<mode, code, stop, asked, consumer, workVars, webVars, late, portTaken>>

\* _run_consumer(): the task ended without a shutdown; `stop` is set for the streams.
NoticeConsumer ==
    /\ pc = "waiting" /\ Consumes(mode) /\ consumer = "ended" /\ ~stop
    /\ stop' = TRUE /\ label' = "failed"
    /\ Return(FALSE, "closing")
    /\ UNCHANGED <<mode, code, asked, consumer, workVars, webVars, late, portTaken>>

\* Mutant: a consumer that ends during the shutdown makes it a failure.
NoticeStop_AnyEnd ==
    /\ pc = "waiting" /\ Consumes(mode) /\ stop
    /\ Return(consumer # "ended", "closing")
    /\ UNCHANGED <<mode, code, stop, asked, partVars, webVars, late, portTaken>>

\* _run_consumer(): a shutdown, also when the consumer has ended meanwhile.
NoticeStop ==
    /\ pc = "waiting" /\ Consumes(mode) /\ stop
    /\ Return(TRUE, "closing")
    /\ UNCHANGED <<mode, code, stop, asked, partVars, webVars, late, portTaken>>

\* Mutant: shutdown() reports whatever it stops as stopped.
Closed_Stopped ==
    /\ pc = "closing" /\ pc' = "joining" /\ label' = "stopped"
    /\ UNCHANGED <<mode, clean, code, stop, asked, consumer, workVars, webVars, late, portTaken>>

\* consumer.shutdown() has closed its connection; a failed consumer stays "failed".
Closed ==
    /\ pc = "closing" /\ pc' = "joining"
    /\ label' = IF label = "failed" THEN "failed" ELSE "stopped"
    /\ UNCHANGED <<mode, clean, code, stop, asked, consumer, workVars, webVars, late, portTaken>>

\* Mutant: the cancelled task is not awaited.
Joined_NotAwaited ==
    /\ pc = "joining" /\ pc' = "resetting"
    /\ UNCHANGED <<mode, clean, code, stop, asked, partVars, webVars, late, portTaken>>

\* consumer_task is cancelled and awaited: whatever it raises, it has ended.
Joined ==
    /\ pc = "joining" /\ pc' = "resetting"
    /\ consumer' = "ended"
    /\ UNCHANGED <<mode, clean, code, stop, asked, label, workVars, webVars, late, portTaken>>

\* `worker.alive`: stop() forgets the thread when it is through with it.
Alive == worker \in {"running", "stopping"} /\ Draws

(* _run_standalone(): a signal, the server or the watchdog, which polls whether the   *)
(* worker is alive; a shutdown is one even if the others have ended too.             *)
NoticeStandalone ==
    /\ pc = "waiting" /\ ~Consumes(mode)
    /\ stop \/ server \in {"failed", "done"} \/ ~Alive
    /\ Return(stop, "resetting")
    /\ stop' = TRUE
    /\ UNCHANGED <<mode, code, asked, partVars, webVars, late, portTaken>>

\* reset_worker(): stop() tells the thread, and its caller is then in the join.
ResetBegins ==
    /\ pc = "resetting" /\ pc' = "stopping"
    /\ worker' = IF worker = "none" THEN "none" ELSE "stopping"
    /\ UNCHANGED <<mode, clean, code, stop, asked, consumer, label, thread, gaveUp, displayed, webVars, late, portTaken>>

\* Mutant: the thread is told and not waited for.
JoinEnds_AtOnce == TRUE

\* The join is over with the thread, or after 5 seconds, which of all that the
\* thread waits for only a fetch can outlast (StopReturns of DisplayWorker).
JoinEnds == ~Draws \/ thread = "fetching"

\* Mutant: the probe is not told that the worker is stopped on purpose.
Reset_Untold ==
    /\ pc = "stopping" /\ pc' = "leaving"
    /\ JoinEnds
    /\ worker' = IF worker = "none" THEN "none" ELSE "stopped"
    /\ gaveUp' = (thread = "fetching")
    /\ shouldExit' = TRUE
    /\ UNCHANGED <<mode, clean, code, stop, asked, consumer, label, thread, displayed, server, open, writing, late, portTaken>>

(* stop() comes back, with the thread ended or only warned about, and forgets it; then  *)
(* the probe's provider is taken away and the server told, without an await.           *)
Reset ==
    /\ pc = "stopping" /\ pc' = "leaving"
    /\ JoinEnds
    /\ worker' = IF worker = "none" THEN "none" ELSE "stopped"
    /\ gaveUp' = (thread = "fetching")
    /\ displayed' = FALSE /\ shouldExit' = TRUE
    /\ UNCHANGED <<mode, clean, code, stop, asked, consumer, label, thread, server, open, writing, late, portTaken>>

\* `await server_task`, unless it is done; one that fails while awaited raises. With
\* the process goes the thread, a daemon, wherever it is.
Leave ==
    /\ pc = "leaving" /\ server \in {"done", "failed"}
    /\ pc' = "exited"
    /\ \E raised \in IF server = "failed" THEN BOOLEAN ELSE {FALSE} :
        code' = IF clean /\ ~raised THEN 0 ELSE 1
    /\ UNCHANGED <<mode, clean, stop, asked, partVars, webVars, late, portTaken>>

Init ==
    /\ mode \in Modes /\ pc = "loading" /\ clean = FALSE /\ code = 0
    /\ stop = FALSE /\ asked = FALSE
    /\ consumer = "none" /\ label = "none" /\ worker = "none" /\ displayed = FALSE
    /\ thread = "none" /\ gaveUp = FALSE
    /\ server = "none" /\ shouldExit = FALSE /\ open = FALSE /\ writing = FALSE
    /\ late = {} /\ portTaken = FALSE

Proceed ==
    \/ NoticeConsumer \/ NoticeStop \/ Closed \/ Joined \/ NoticeStandalone
    \/ ResetBegins \/ Reset \/ Leave
StreamEnds == stop /\ StreamStops

Next ==
    \/ Refused \/ Start \/ Signal
    \/ ConsumerReads \/ ConsumerFails \/ ConsumerSubmits
    \/ FetchBegins \/ FetchEnds \/ ThreadStops \/ ThreadDies
    \/ ServerFails \/ PortTaken \/ StreamOpens \/ StreamStops
    \/ WriteArrives \/ WriteEnds \/ ServerEnds
    \/ Proceed

(* The loop runs what can run: _run(), a stream once `stop` is set (Simulator's        *)
(* StreamsEnd), a write to its end (its downloads have timeouts), and the server to    *)
(* its; the thread's waits end once it is told to stop. A fetch of the thread need not *)
(* end, no tab need be closed, and no signal need come.                              *)
Spec ==
    /\ Init /\ [][Next]_vars
    /\ WF_vars(Proceed) /\ WF_vars(StreamEnds) /\ WF_vars(WriteEnds) /\ WF_vars(ServerEnds)
    /\ WF_vars(ThreadStops)

Health ==
    IF label = "failed" \/ (displayed /\ ~Alive) THEN 503 ELSE 200
-----------------------------------------------------------------------------
TypeOK ==
    /\ mode \in Modes /\ clean \in BOOLEAN /\ code \in {0, 1}
    /\ pc \in {"loading", "waiting", "closing", "joining", "resetting", "stopping", "leaving", "exited"}
    /\ {stop, asked, displayed, gaveUp, shouldExit, open, writing, portTaken} \subseteq BOOLEAN
    /\ consumer \in {"none", "connecting", "reading", "ended"}
    /\ label \in {"none", "waiting", "running", "failed", "stopped"}
    /\ worker \in {"none", "running", "stopping", "stopped"}
    /\ thread \in {"none", "drawing", "fetching", "ended"}
    /\ server \in {"none", "serving", "failed", "done"}
    /\ late \subseteq {"consumer", "api"}
    /\ mode = "web" => worker = "none"
    /\ mode = "standalone" => consumer = "none" /\ label = "none"

(* The exit code tells a requested shutdown from a failure, whichever comes first     *)
(* and whatever fails during the other: 0 only when a signal asked, and then always   *)
(* unless something failed too (#65).                                               *)
ExitCodeTells ==
    pc = "exited" =>
        /\ code = 0 => asked
        /\ code = 1 /\ asked => label = "failed" \/ server = "failed" \/ (mode = "standalone" /\ ~clean)

(* A consumer that failed is a failure to the probe too, from then to the end: no     *)
(* later step of the shutdown makes it "stopped".                                    *)
FailureStays == [][label = "failed" => label' = "failed"]_vars

(* "After the consumer, so nothing is still submitting displays" (__main__.py:329): no  *)
(* message is handed to a worker that is being stopped or was. A request under way and   *)
(* a replay may come later than that: `late` can hold "api".                            *)
ConsumerEndsFirst == "consumer" \notin late

(* "Leaves the panel dark rather than stuck on the last score" (__main__.py:330): when    *)
(* the process is gone its thread had ended, in standalone mode always, and with a       *)
(* consumer unless the join gave up on a fetch (worker.py:265); a port that is taken      *)
(* takes the process past reset_worker(). Neither the exit code nor the probe tells.     *)
LeavesDark ==
    pc = "exited" /\ Draws => portTaken \/ (gaveUp /\ Consumes(mode))

(* The shutdown takes its steps in order, in every mode.                              *)
StopsInOrder == TypeOK /\ ConsumerEndsFirst /\ LeavesDark

\* The thread has ended and nobody has told it to.
WorkerDead == worker = "running" /\ thread = "ended"

(* Once there is nothing the process can do it is gone, and a tab left open does not   *)
(* keep it: a shutdown, a consumer that ended, and without one a server or a worker    *)
(* that did (#65, #105, #158).                                                       *)
GoesAway ==
    /\ stop ~> pc = "exited"
    /\ consumer = "ended" ~> pc = "exited"
    /\ (mode = "standalone" /\ (WorkerDead \/ server = "failed")) ~> pc = "exited"

(* The probe says what is wrong and nothing else: in standalone mode a dead worker is  *)
(* unhealthy as long as the process runs on with it, and a shutdown that was asked for, *)
(* which stops the worker before the server, does not look like one. While the join     *)
(* keeps the event loop no probe is answered.                                          *)
ProbeIsRight ==
    /\ pc # "stopping" /\ Health = 503 => WorkerDead \/ (label = "failed" /\ ~clean)
    /\ mode = "standalone" /\ pc = "waiting" /\ WorkerDead => Health = 503

(* What the process tells those who watch it, by its exit code and by the probe, is    *)
(* what happened, whatever came first and whatever else failed meanwhile.               *)
TellsWhatHappened == []ExitCodeTells /\ []ProbeIsRight /\ FailureStays
=============================================================================

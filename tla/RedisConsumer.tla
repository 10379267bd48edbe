--------------------------- MODULE RedisConsumer ---------------------------
(***************************************************************************)
(* The consumer of the Redis streams (consumer/redis_consumer.py), the     *)
(* coroutine that runs it (__main__._run_consumer) and the Redis it reads. *)
(*                                                                         *)
(* run() and set_streams() are coroutines of one event loop and interleave *)
(* at every await, that is at every command sent to Redis.  A command and  *)
(* its answer are one step, unless the answer is lost: then Redis has done *)
(* what the caller believes to have failed.  The process can be killed and *)
(* started again between any two steps, and Redis can lose its data.       *)
(*                                                                         *)
(* A list of streams is the set of its members: the order of the streams   *)
(* in a request decides nothing but the order of independent commands, and *)
(* the model allows every order.  What normalize_streams() removes is gone *)
(* before a request gets here.                                             *)
(***************************************************************************)
EXTENDS Integers, Sequences, FiniteSets

CONSTANTS
    Streams,         \* the streams that exist or may exist
    Configured,      \* REDIS_STREAMS
    Requests,        \* the stream sets that are asked for at runtime
    Skips,           \* which values of skip_backlog are asked for
    FromEnd,         \* CONSUMER_START_ID: TRUE for "$", FALSE for "0"
    StartupLimited,  \* REDIS_STARTUP_TIMEOUT is not 0
    Count,           \* the count of XREADGROUP
    MaxEntries,      \* bound: entries added to each stream
    Allowed          \* bounds: how often each kind of mishap happens

Kinds == {"fault", "loss", "restart", "switch", "signal"}

ASSUME ConsumerAssumption ==
    /\ Configured \subseteq Streams /\ Configured # {}
    /\ Requests \subseteq (SUBSET Streams) \ {{}}
    /\ Skips \subseteq BOOLEAN
    /\ FromEnd \in BOOLEAN /\ StartupLimited \in BOOLEAN
    /\ Count \in Nat \ {0}
    /\ MaxEntries \in Nat
    /\ Allowed \in [Kinds -> Nat]

VARIABLES
    \* Redis: ids handed out so far, ids lost with the stream, and of the group
    \* the last id delivered and the entries not yet acknowledged
    sent, lost, group, pel,
    \* the consumer: its fields, and the locals of run()
    streams, state, running, asked, batch, acking,
    \* where run() and set_streams() are, and the streams each still has to visit
    \* and the one found without a group
    pc, todo, lacking,
    \* set_streams(): what was asked for, and which of it is new
    requested, added, skip,
    \* _run_consumer(): the stop event, and how far it got
    stop, sup,
    \* history: entries given to the handlers in order, entries acknowledged
    \* unshown, entries a group was moved past, and what was in the streams
    \* when the switch under way began
    handled, skipped, passed, mark,
    \* what is left of the bounds
    left

redis   == <<sent, lost, group, pel>>
fields  == <<streams, state, running>>
reading == <<asked, batch, acking>>
control == <<pc, todo, lacking>>
switch  == <<requested, added, skip, mark>>
process == <<stop, sup>>
history == <<handled, skipped, passed>>
vars == <<redis, fields, reading, control, switch, process, history, left>>

NoGroup == -1
Actors == {"run", "switch"}
None == [s \in Streams |-> {}]
Zero == [s \in Streams |-> 0]

\* The consumer as __init__ leaves it, with run() not yet called.
Fresh ==
    /\ streams' = Configured /\ state' = "waiting_for_redis" /\ running' = FALSE
    /\ asked' = {} /\ batch' = None /\ acking' = {}
    /\ pc' = [a \in Actors |-> IF a = "run" THEN "ping" ELSE "idle"]
    /\ todo' = [a \in Actors |-> {}] /\ lacking' = [a \in Actors |-> {}]
    /\ requested' = {} /\ added' = {} /\ skip' = FALSE /\ mark' = Zero
    /\ stop' = FALSE /\ sup' = "waiting"

\* The streams are empty, with or without the group; entries from before the start
\* are those added before run() takes its first step.
Init ==
    /\ sent = Zero /\ lost = Zero
    /\ group \in [Streams -> {NoGroup, 0}] /\ pel = None
    /\ streams = Configured /\ state = "waiting_for_redis" /\ running = FALSE
    /\ asked = {} /\ batch = None /\ acking = {}
    /\ pc = [a \in Actors |-> IF a = "run" THEN "ping" ELSE "idle"]
    /\ todo = [a \in Actors |-> {}] /\ lacking = [a \in Actors |-> {}]
    /\ requested = {} /\ added = {} /\ skip = FALSE /\ mark = Zero
    /\ stop = FALSE /\ sup = "waiting"
    /\ handled = <<>> /\ skipped = {} /\ passed = {}
    /\ left = Allowed

Spend(kind) == /\ left[kind] > 0
               /\ left' = [left EXCEPT ![kind] = @ - 1]

-----------------------------------------------------------------------------
(* Redis. *)

\* How far the group has read a stream: what was lost need not be read.
Position(s) == IF group[s] > lost[s] THEN group[s] ELSE lost[s]

Unread(s) == Position(s) + 1 .. sent[s]

\* How far one XREADGROUP with ">" goes: the oldest entries, at most Count.
UpTo(s) == IF sent[s] > Position(s) + Count THEN Position(s) + Count ELSE sent[s]

\* Mutant: reading from "0", which hands out the pending entries again.
Oldest_Again(s) == pel[s] \cup (Position(s) + 1 .. UpTo(s))

Oldest(s) == Position(s) + 1 .. UpTo(s)

\* Mutant: one past the end.
MoveToEnd_Beyond(s) ==
    /\ group' = [group EXCEPT ![s] = sent[s] + 1]
    /\ passed' = passed \cup {<<s, id>> : id \in Unread(s)}

\* Moving the group of s to the end: nobody will read what was waiting there.
MoveToEnd(s) ==
    /\ group' = [group EXCEPT ![s] = sent[s]]
    /\ passed' = passed \cup {<<s, id>> : id \in Unread(s)}

\* A producer: XADD.
Produce(s) ==
    /\ sent[s] < MaxEntries
    /\ sent' = [sent EXCEPT ![s] = @ + 1]
    /\ UNCHANGED <<lost, group, pel, fields, reading, control, switch, process,
                   history, left>>

\* Redis comes back empty: streams, groups and pending entries are gone.  The
\* ids, which are timestamps, go on.
LoseData ==
    /\ Spend("loss")
    /\ lost' = sent
    /\ group' = [s \in Streams |-> NoGroup]
    /\ pel' = None
    /\ UNCHANGED <<sent, fields, reading, control, switch, process, history>>

-----------------------------------------------------------------------------
(* _ensure_group, called by run() at startup and by set_streams(). *)

At(a, label) == pc[a] = label
GoTo(a, label) == pc' = [pc EXCEPT ![a] = label]

\* Mutant: any stream is taken to have the group.
Look_Trusting(a) ==
    /\ At(a, "ensure") /\ lacking[a] = {}
    /\ \E s \in todo[a] : todo' = [todo EXCEPT ![a] = @ \ {s}]
    /\ UNCHANGED <<redis, fields, reading, pc, lacking, switch, process, history,
                   left>>

\* XINFO GROUPS: a stream that has the group is left alone.
Look(a) ==
    /\ At(a, "ensure") /\ lacking[a] = {}
    /\ \E s \in todo[a] :
          IF group[s] = NoGroup
          THEN lacking' = [lacking EXCEPT ![a] = {s}] /\ UNCHANGED todo
          ELSE todo' = [todo EXCEPT ![a] = @ \ {s}] /\ UNCHANGED lacking
    /\ UNCHANGED <<redis, fields, reading, pc, switch, process, history, left>>

\* XGROUP CREATE: the group starts at CONSUMER_START_ID.  The two calls of the
\* code differ only in what they make of an error, and both give up on BUSYGROUP.
Create(a) ==
    /\ At(a, "ensure")
    /\ \E s \in lacking[a] :
          /\ group[s] = NoGroup
          /\ IF FromEnd THEN MoveToEnd(s)
                        ELSE /\ group' = [group EXCEPT ![s] = 0]
                             /\ UNCHANGED passed
          /\ todo' = [todo EXCEPT ![a] = @ \ {s}]
    /\ lacking' = [lacking EXCEPT ![a] = {}]
    /\ UNCHANGED <<sent, lost, pel, fields, reading, pc, switch, process,
                   handled, skipped, left>>

\* The coroutine a gives up what it was doing.
Abandon(a) ==
    /\ todo' = [todo EXCEPT ![a] = {}]
    /\ lacking' = [lacking EXCEPT ![a] = {}]

-----------------------------------------------------------------------------
(* run(): wait_ready. *)

\* PING answered: _ensure_group gets the streams of this moment.
Ping ==
    /\ At("run", "ping")
    /\ todo' = [todo EXCEPT !["run"] = streams]
    /\ GoTo("run", "ensure")
    /\ UNCHANGED <<redis, fields, reading, lacking, switch, process, history, left>>

\* Mutant: the groups are created while the loop already reads.
Ready_Early ==
    /\ At("run", "ensure")
    /\ running' = TRUE /\ state' = "running"
    /\ GoTo("run", "loop")
    /\ UNCHANGED <<redis, streams, reading, todo, lacking, switch, process,
                   history, left>>

\* Every group is there: the loop is entered without another await.
Ready ==
    /\ At("run", "ensure") /\ todo["run"] = {}
    /\ running' = TRUE /\ state' = "running"
    /\ GoTo("run", "loop")
    /\ UNCHANGED <<redis, streams, reading, todo, lacking, switch, process,
                   history, left>>

\* An attempt failed: the next one starts over, unless the budget is used up.
Retry ==
    /\ \/ GoTo("run", "ping")
       \/ StartupLimited /\ GoTo("run", "ended")
    /\ Abandon("run")
    /\ UNCHANGED <<redis, fields, reading, switch, process, history>>

\* No answer within STARTUP_ATTEMPT_TIMEOUT_SECONDS, or any error.
AttemptFails ==
    /\ pc["run"] \in {"ping", "ensure"}
    /\ Spend("fault") /\ Retry

\* BUSYGROUP: set_streams() created the group since XINFO.
AttemptBusy ==
    /\ At("run", "ensure") /\ \E s \in lacking["run"] : group[s] # NoGroup
    /\ Retry /\ UNCHANGED left

-----------------------------------------------------------------------------
(* run(): the read loop. *)

\* Mutant: the streams are looked at once.
Loop_Once ==
    /\ At("run", "loop")
    /\ IF running THEN asked' = (IF asked = {} THEN streams ELSE asked)
                       /\ GoTo("run", "read")
                  ELSE GoTo("run", "ended") /\ UNCHANGED asked
    /\ UNCHANGED <<redis, fields, batch, acking, todo, lacking, switch, process,
                   history, left>>

\* The streams are looked at anew in every round.
Loop ==
    /\ At("run", "loop")
    /\ IF running THEN asked' = streams /\ GoTo("run", "read")
                  ELSE GoTo("run", "ended") /\ UNCHANGED asked
    /\ UNCHANGED <<redis, fields, batch, acking, todo, lacking, switch, process,
                   history, left>>

GroupsThere == \A s \in asked : group[s] # NoGroup

\* XREADGROUP hands out what the group has not seen yet, of all streams asked for.
Deliver ==
    /\ At("run", "read") /\ GroupsThere
    /\ \E s \in asked : Unread(s) # {}
    /\ group' = [s \in Streams |->
                    IF s \in asked /\ Unread(s) # {} THEN UpTo(s) ELSE group[s]]
    /\ pel' = [s \in Streams |->
                    IF s \in asked THEN pel[s] \cup Oldest(s) ELSE pel[s]]
    /\ UNCHANGED <<sent, lost, fields, asked, acking, todo, lacking, switch,
                   process, history>>

\* ... and its answer arrives.
Read ==
    /\ Deliver
    /\ batch' = [s \in Streams |-> IF s \in asked THEN Oldest(s) ELSE {}]
    /\ GoTo("run", "entry")
    /\ UNCHANGED left

\* ... and its answer is lost with the connection.
ReadLost ==
    /\ Deliver
    /\ Spend("fault")
    /\ GoTo("run", "sleep")
    /\ UNCHANGED batch

\* BLOCK_MS passed with nothing to hand out.
ReadNothing ==
    /\ At("run", "read") /\ GroupsThere
    /\ \A s \in asked : Unread(s) = {}
    /\ GoTo("run", "loop")
    /\ UNCHANGED <<redis, fields, reading, todo, lacking, switch, process, history,
                   left>>

\* NOGROUP, for whichever stream.  Nothing in the loop creates a group.
ReadRefused ==
    /\ At("run", "read") /\ ~GroupsThere
    /\ GoTo("run", "sleep")
    /\ UNCHANGED <<redis, fields, reading, todo, lacking, switch, process, history,
                   left>>

ReadFails ==
    /\ At("run", "read") /\ Spend("fault")
    /\ GoTo("run", "sleep")
    /\ UNCHANGED <<redis, fields, reading, todo, lacking, switch, process, history>>

\* The two seconds after an error.
Wake ==
    /\ At("run", "sleep")
    /\ GoTo("run", "loop")
    /\ UNCHANGED <<redis, fields, reading, todo, lacking, switch, process, history,
                   left>>

-----------------------------------------------------------------------------
(* _process_entry. *)

\* The next entry of the batch, streams in any order.
Take(s, id) ==
    /\ At("run", "entry")
    /\ id \in batch[s] /\ \A j \in batch[s] : id <= j
    /\ batch' = [batch EXCEPT ![s] = @ \ {id}]
    /\ acking' = {<<s, id>>}
    /\ GoTo("run", "ack")
    /\ UNCHANGED <<redis, fields, asked, todo, lacking, switch, process, passed, left>>

\* The payload is there: every handler is called, whatever the others do.
Handle(s, id) ==
    /\ Take(s, id)
    /\ handled' = Append(handled, <<s, id>>)
    /\ UNCHANGED skipped

\* Too old, without messageID, or _resolve_payload returned None.
Skip(s, id) ==
    /\ Take(s, id)
    /\ skipped' = skipped \cup {<<s, id>>}
    /\ UNCHANGED handled

\* Mutant: everything pending of the stream is acknowledged at once.
Acknowledged_All ==
    pel' = [s \in Streams |-> IF \E e \in acking : e[1] = s THEN {} ELSE pel[s]]

\* XACK done by Redis.
Acknowledged == pel' = [s \in Streams |-> {id \in pel[s] : <<s, id>> \notin acking}]

Ack ==
    /\ At("run", "ack")
    /\ Acknowledged
    /\ acking' = {}
    /\ GoTo("run", IF batch = None THEN "loop" ELSE "entry")
    /\ UNCHANGED <<sent, lost, group, fields, asked, batch, todo, lacking, switch,
                   process, history, left>>

\* An error, with or without the XACK done, leaves both loops: the rest of the
\* batch is never looked at again.
AckFails ==
    /\ At("run", "ack")
    /\ Spend("fault")
    /\ Acknowledged \/ UNCHANGED pel
    /\ acking' = {} /\ batch' = None
    /\ GoTo("run", "sleep")
    /\ UNCHANGED <<sent, lost, group, fields, asked, todo, lacking, switch, process,
                   history>>

-----------------------------------------------------------------------------
(* set_streams, one call at a time because of _switch_lock. *)

\* The new set takes effect.
Subscribe(new) ==
    /\ streams' = new
    /\ GoTo("switch", "idle")
    /\ requested' = {} /\ added' = {} /\ skip' = FALSE /\ mark' = Zero

\* Mutant: every requested stream is treated as new.
SwitchBegins_AllNew(new, skip_backlog) ==
    /\ At("switch", "idle") /\ Spend("switch")
    /\ requested' = new /\ added' = new /\ skip' = skip_backlog /\ mark' = sent
    /\ todo' = [todo EXCEPT !["switch"] = new]
    /\ GoTo("switch", "ensure")
    /\ UNCHANGED <<redis, fields, reading, lacking, process, history>>

\* Without new streams there is no await.
SwitchBegins(new, skip_backlog) ==
    /\ At("switch", "idle") /\ Spend("switch")
    /\ IF new \subseteq streams
       THEN Subscribe(new) /\ UNCHANGED todo
       ELSE /\ requested' = new /\ added' = new \ streams /\ skip' = skip_backlog
            /\ mark' = sent
            /\ todo' = [todo EXCEPT !["switch"] = new \ streams]
            /\ GoTo("switch", "ensure")
            /\ UNCHANGED streams
    /\ UNCHANGED <<redis, state, running, reading, lacking, process, history>>

\* Mutant: the backlog is never skipped.
SwitchEnsured_NoSkip ==
    /\ At("switch", "ensure") /\ todo["switch"] = {}
    /\ GoTo("switch", "subscribe")
    /\ UNCHANGED <<redis, fields, reading, todo, lacking, switch, process, history,
                   left>>

\* The groups are there: next the backlog, or the subscription at once.
SwitchEnsured ==
    /\ At("switch", "ensure") /\ todo["switch"] = {}
    /\ IF skip THEN /\ todo' = [todo EXCEPT !["switch"] = added]
                    /\ GoTo("switch", "setid")
               ELSE GoTo("switch", "subscribe") /\ UNCHANGED todo
    /\ UNCHANGED <<redis, fields, reading, lacking, switch, process, history, left>>

\* XGROUP SETID s group "$".
SkipBacklog(s) ==
    /\ At("switch", "setid") /\ s \in todo["switch"]
    /\ group[s] # NoGroup
    /\ MoveToEnd(s)
    /\ todo' = [todo EXCEPT !["switch"] = @ \ {s}]
    /\ UNCHANGED <<sent, lost, pel, fields, reading, pc, lacking, switch, process,
                   handled, skipped, left>>

SwitchDone ==
    /\ \/ At("switch", "subscribe")
       \/ At("switch", "setid") /\ todo["switch"] = {}
    /\ Subscribe(requested)
    /\ UNCHANGED <<redis, state, running, reading, todo, lacking, process, history,
                   left>>

\* Mutant: the lock is not given back.
SwitchRaises_Locked ==
    /\ GoTo("switch", "locked") /\ Abandon("switch")
    /\ UNCHANGED <<redis, fields, reading, switch, process, history>>

\* The exception goes to the caller, who answers 503.  What was done to the groups
\* so far stays done.
SwitchRaises ==
    /\ GoTo("switch", "idle") /\ Abandon("switch")
    /\ requested' = {} /\ added' = {} /\ skip' = FALSE /\ mark' = Zero
    /\ UNCHANGED <<redis, fields, reading, process, history>>

SwitchFails ==
    /\ pc["switch"] \in {"ensure", "setid"}
    /\ Spend("fault") /\ SwitchRaises

\* BUSYGROUP from run(), or NOGROUP because Redis lost its data.
SwitchRefused ==
    /\ \/ At("switch", "ensure") /\ \E s \in lacking["switch"] : group[s] # NoGroup
       \/ At("switch", "setid") /\ \E s \in todo["switch"] : group[s] = NoGroup
    /\ SwitchRaises /\ UNCHANGED left

-----------------------------------------------------------------------------
(* _run_consumer, and the process. *)

\* SIGINT or SIGTERM.
Signal ==
    /\ sup = "waiting" /\ ~stop
    /\ Spend("signal")
    /\ stop' = TRUE
    /\ UNCHANGED <<redis, fields, reading, control, switch, sup, history>>

\* Mutant: only the signal is waited for.
ConsumerEnded_Unseen == FALSE /\ UNCHANGED vars

\* run() ended by itself: mark_failed(), shutdown(), and the process exits 1.
ConsumerEnded ==
    /\ sup = "waiting" /\ ~stop /\ At("run", "ended")
    /\ stop' = TRUE
    /\ state' = IF state = "stopped" THEN state ELSE "failed"
    /\ running' = FALSE
    /\ sup' = "failed"
    /\ UNCHANGED <<redis, streams, reading, control, switch, history, left>>

\* shutdown(), up to the closing of the client, which is awaited.
Shutdown ==
    /\ sup = "waiting" /\ stop
    /\ state' = IF state = "failed" THEN state ELSE "stopped"
    /\ running' = FALSE
    /\ sup' = "closing"
    /\ UNCHANGED <<redis, streams, reading, control, switch, stop, history, left>>

\* The task is cancelled wherever it is, and the process exits 0.
Cancel ==
    /\ sup = "closing"
    /\ GoTo("run", "ended") /\ Abandon("run")
    /\ asked' = {} /\ batch' = None /\ acking' = {}
    /\ sup' = "clean"
    /\ UNCHANGED <<redis, fields, switch, stop, history, left>>

\* The process is started again: after it exited, or because it was killed.
Restart ==
    /\ Spend("restart")
    /\ Fresh
    /\ UNCHANGED <<redis, history>>

-----------------------------------------------------------------------------
Run ==
    \/ Look("run") \/ Create("run") \/ Ping \/ Ready \/ AttemptBusy
    \/ Loop \/ Read \/ ReadNothing \/ ReadRefused \/ Wake
    \/ (\E s \in Streams : \E id \in batch[s] : Handle(s, id) \/ Skip(s, id))
    \/ Ack

SetStreams ==
    \/ Look("switch") \/ Create("switch") \/ SwitchEnsured
    \/ (\E s \in Streams : SkipBacklog(s))
    \/ SwitchDone \/ SwitchRefused

RunConsumer == ConsumerEnded \/ Shutdown \/ Cancel

Mishap ==
    \/ LoseData \/ AttemptFails \/ ReadLost \/ ReadFails \/ AckFails \/ SwitchFails
    \/ Signal \/ Restart

Next ==
    \/ (\E s \in Streams : Produce(s))
    \/ (\E new \in Requests, skip_backlog \in Skips : SwitchBegins(new, skip_backlog))
    \/ Run \/ SetStreams \/ RunConsumer \/ Mishap

Spec == Init /\ [][Next]_vars

\* The event loop runs every coroutine that can go on, and Redis answers.
FairSpec == Spec /\ WF_vars(Run) /\ WF_vars(SetStreams) /\ WF_vars(RunConsumer)

-----------------------------------------------------------------------------
(* Properties. *)

RunLabels == {"ping", "ensure", "loop", "read", "entry", "ack", "sleep", "ended"}
SwitchLabels == {"idle", "ensure", "setid", "subscribe"}

\* The types of the variables; no position is beyond what was sent.
TypeOK ==
    /\ sent \in [Streams -> 0..MaxEntries] /\ lost \in [Streams -> 0..MaxEntries]
    /\ group \in [Streams -> NoGroup..MaxEntries]
    /\ pel \in [Streams -> SUBSET (1..MaxEntries)]
    /\ streams \subseteq Streams /\ streams # {}
    /\ state \in {"waiting_for_redis", "running", "stopped", "failed"}
    /\ running \in BOOLEAN
    /\ asked \subseteq Streams /\ batch \in [Streams -> SUBSET (1..MaxEntries)]
    /\ acking \subseteq Streams \X (1..MaxEntries)
    /\ pc \in [Actors -> RunLabels \cup SwitchLabels]
    /\ pc["run"] \in RunLabels /\ pc["switch"] \in SwitchLabels
    /\ todo \in [Actors -> SUBSET Streams] /\ lacking \in [Actors -> SUBSET Streams]
    /\ requested \subseteq Streams /\ added \subseteq requested /\ skip \in BOOLEAN
    /\ mark \in [Streams -> 0..MaxEntries]
    /\ stop \in BOOLEAN /\ sup \in {"waiting", "closing", "clean", "failed"}
    /\ handled \in Seq(Streams \X (1..MaxEntries))
    /\ skipped \subseteq Streams \X (1..MaxEntries)
    /\ passed \subseteq Streams \X (1..MaxEntries)
    /\ left \in [Kinds -> Nat]

Handled == {handled[i] : i \in DOMAIN handled}

\* Every entry behind the group's position is accounted for: it was lost with the
\* stream, waits for its XACK, went to the handlers, was skipped, or was passed over.
\* (XACK comes last in _process_entry, whatever the way out of it.)
Accounted ==
    \A s \in Streams : \A id \in 1..Position(s) :
        id > lost[s] => id \in pel[s] \/ <<s, id>> \in Handled \cup skipped \cup passed

\* As long as Redis keeps its data, the read loop never meets a stream without its
\* group, whatever was switched while run() was still creating the groups of the
\* streams it started with (_startup_attempt against set_streams).
SubscribedHasGroup ==
    (/\ pc["run"] \in {"loop", "read", "entry", "ack", "sleep"}
     /\ left["loss"] = Allowed["loss"])
    => \A s \in streams \cup asked : group[s] # NoGroup

\* The handlers get every entry at most once and each stream in order, across lost
\* answers, restarts and switches ("XREADGROUP to consume", with ">" only).
Promise == INSTANCE Delivery WITH shown <- handled
InOrderOnce == Promise!Spec

\* "Streams already in the set are left untouched" (set_streams): no entry of a
\* subscribed stream with a group is ever passed over.
SubscribedUndisturbed ==
    [][\A s \in streams : group[s] # NoGroup =>
          \A id \in Unread(s) : <<s, id>> \in passed' => <<s, id>> \in passed]_vars

\* "Whatever accumulated while unsubscribed is not replayed onto the panel"
\* (set_streams): when a switch takes effect, nothing that was in an added stream
\* when the switch began is left for the loop to read.  (A restart also changes the
\* streams, back to the configured ones, and does read what accumulated.)
BacklogSkipped ==
    [][(/\ pc["switch"] # "idle" /\ streams' = requested /\ skip
        /\ left'["restart"] = left["restart"])
       => \A s \in added : Position(s) >= mark[s]]_vars

\* A switch skips the backlog of what it adds, all of it, and of nothing else.
SkipsOnlyAdded == BacklogSkipped /\ SubscribedUndisturbed

\* What is added to a subscribed stream is read, unless the stream is given up
\* or the consumer ends (the read loop, with its errors and pauses).
SubscribedIsRead ==
    \A s \in Streams : \A id \in 1..MaxEntries :
        (s \in streams /\ id \in Unread(s))
            ~> (id \notin Unread(s) \/ s \notin streams \/ pc["run"] = "ended")

\* "The new set is picked up by the read loop on its next iteration" (set_streams):
\* entries under way, pauses and failing reads do not keep the loop on the old set.
SwitchTakesEffect ==
    \A new \in Requests :
        streams = new ~> (asked = new \/ streams # new \/ pc["run"] = "ended")

\* Every call of set_streams comes back, by an answer or by an exception.
SwitchReturns == pc["switch"] # "idle" ~> pc["switch"] = "idle"

\* A switch is never stuck: the call ends, and the loop follows it.
SwitchEnds == SwitchTakesEffect /\ SwitchReturns

\* A consumer that ended by itself ends the process (_run_consumer, #65).
DeadConsumerEnds ==
    pc["run"] = "ended" ~> (sup \in {"failed", "clean"} \/ pc["run"] # "ended")
=============================================================================

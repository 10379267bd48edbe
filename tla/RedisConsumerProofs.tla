------------------------ MODULE RedisConsumerProofs ------------------------
(***************************************************************************)
(* Proofs about the stream consumer, for every set of streams, every       *)
(* number of entries and any number of mishaps.                            *)
(*                                                                         *)
(*   TypeCorrect          Spec => []TypeOK                                 *)
(*   DeliversInOrderOnce  Spec => InOrderOnce  (implements Delivery)       *)
(*   AccountsForAll       Spec => []Accounted                              *)
(*   SwitchCorrect        Spec => BacklogSkipped /\ SubscribedUndisturbed  *)
(*   NeverWithoutGroup    Spec => []SubscribedHasGroup                     *)
(*                                                                         *)
(* Each follows from Shaped, the inductive strengthening of TypeOK, and    *)
(* one more invariant: Fetched and Behind for the order, Settled for the   *)
(* accounts, Advanced for the backlog, GroupsMade for the groups.  The     *)
(* lemmas named ...Steps say which actions change a variable and how; the  *)
(* proofs that follow then only look at those actions.                     *)
(***************************************************************************)
EXTENDS RedisConsumer, TLAPS

-----------------------------------------------------------------------------
(* The parts of TypeOK, and what is true of a switch under way. *)

\* What Redis holds; neither what was lost nor what was read is ahead of what
\* was sent (XADD, XGROUP and XREADGROUP only ever use ids that exist).
RedisType ==
    /\ sent \in [Streams -> 0..MaxEntries] /\ lost \in [Streams -> 0..MaxEntries]
    /\ group \in [Streams -> NoGroup..MaxEntries]
    /\ pel \in [Streams -> SUBSET (1..MaxEntries)]
    /\ \A s \in Streams : lost[s] <= sent[s] /\ group[s] <= sent[s]

\* The locals of run().
ReadType ==
    /\ asked \subseteq Streams /\ batch \in [Streams -> SUBSET (1..MaxEntries)]
    /\ acking \subseteq Streams \X (1..MaxEntries)

\* Where the two coroutines are.
ControlType ==
    /\ pc \in [Actors -> RunLabels \cup SwitchLabels]
    /\ pc["run"] \in RunLabels /\ pc["switch"] \in SwitchLabels
    /\ todo \in [Actors -> SUBSET Streams] /\ lacking \in [Actors -> SUBSET Streams]

\* The fields of the consumer and the state of _run_consumer.
ProcessType ==
    /\ streams \subseteq Streams /\ streams # {}
    /\ state \in {"waiting_for_redis", "running", "stopped", "failed"}
    /\ running \in BOOLEAN /\ stop \in BOOLEAN
    /\ sup \in {"waiting", "closing", "clean", "failed"}

\* The locals of set_streams().
SwitchType ==
    /\ requested \subseteq Streams /\ added \subseteq requested /\ skip \in BOOLEAN
    /\ mark \in [Streams -> 0..MaxEntries]
    /\ \A s \in Streams : mark[s] <= sent[s]

\* The history and the bounds.
HistoryType ==
    /\ handled \in Seq(Streams \X (1..MaxEntries))
    /\ skipped \subseteq Streams \X (1..MaxEntries)
    /\ passed \subseteq Streams \X (1..MaxEntries)
    /\ left \in [Kinds -> Nat]

\* All of it.
Typed == /\ RedisType /\ ReadType /\ ControlType /\ ProcessType /\ SwitchType
         /\ HistoryType

\* set_streams() between its awaits: the streams it still visits are among the
\* new ones, and the ones it keeps are still subscribed, because nothing else
\* changes streams while it holds the lock.
SwitchShape ==
    /\ todo["switch"] \subseteq added /\ lacking["switch"] \subseteq todo["switch"]
    /\ pc["switch"] # "idle" =>
          requested # {} /\ added # {} /\ requested \ added \subseteq streams
          /\ added \cap streams = {}
    /\ pc["switch"] # "ensure" => lacking["switch"] = {}
    /\ pc["switch"] = "idle" => todo["switch"] = {}
    /\ pc["switch"] = "setid" => skip
    /\ pc["switch"] = "subscribe" => ~skip /\ todo["switch"] = {}

\* The inductive invariant the theorems share.
Shaped == Typed /\ SwitchShape

\* The parts imply TypeOK.
LEMMA TypeParts == Typed => TypeOK
BY DEF Typed, TypeOK, RedisType, ReadType, ControlType, ProcessType, SwitchType,
   HistoryType

-----------------------------------------------------------------------------
(* Which actions change what. *)

USE DEF Next, Run, SetStreams, RunConsumer, Mishap, vars, redis, fields,
    reading, control, switch, process, history, Produce, LoseData, Look, Create,
    Ping, Ready, Retry, AttemptFails, AttemptBusy, Abandon, Loop, Deliver, Read,
    ReadLost, ReadNothing, ReadRefused, ReadFails, Wake, Take, Handle, Skip,
    Ack, AckFails, Subscribe, SwitchBegins, SwitchEnsured, SkipBacklog,
    SwitchDone, SwitchRaises, SwitchFails, SwitchRefused, Signal, ConsumerEnded,
    Shutdown, Cancel, Restart, Fresh

\* Redis is changed by a producer, by losing its data, by XGROUP CREATE,
\* XREADGROUP, XACK or XGROUP SETID, and by nothing else.
LEMMA RedisSteps ==
    [Next]_vars =>
      \/ UNCHANGED redis
      \/ \E s \in Streams : Produce(s)
      \/ LoseData
      \/ \E a \in Actors : Create(a)
      \/ Deliver
      \/ (Acknowledged /\ UNCHANGED <<sent, lost, group>>)
      \/ \E s \in Streams : SkipBacklog(s)
<1>1. Run => \/ UNCHANGED redis
             \/ \E a \in Actors : Create(a)
             \/ Deliver
             \/ (Acknowledged /\ UNCHANGED <<sent, lost, group>>)
  BY DEF Actors
<1>2. SetStreams => \/ UNCHANGED redis
                    \/ \E a \in Actors : Create(a)
                    \/ \E s \in Streams : SkipBacklog(s)
  BY DEF Actors
<1>3. RunConsumer => UNCHANGED redis
  OBVIOUS
<1>4. Mishap => \/ UNCHANGED redis
                \/ LoseData
                \/ Deliver
                \/ (Acknowledged /\ UNCHANGED <<sent, lost, group>>)
  OBVIOUS
<1>5. \A new, skip_backlog : SwitchBegins(new, skip_backlog) => UNCHANGED redis
  OBVIOUS
<1>6. UNCHANGED vars => UNCHANGED redis
  OBVIOUS
<1>7. QED
  BY <1>1, <1>2, <1>3, <1>4, <1>5, <1>6

\* A mishap uses up one of its kind.
LEMMA LeftSteps ==
    [Next]_vars => UNCHANGED left \/ \E kind \in Kinds : Spend(kind)
BY DEF Kinds

\* Only _process_entry calls the handlers, with an entry of the batch.
LEMMA HandledSteps ==
    [Next]_vars =>
      \/ UNCHANGED handled
      \/ \E s \in Streams : \E id \in batch[s] : Handle(s, id)
OBVIOUS

\* Only _process_entry leaves an entry out, and it is one of the batch.
LEMMA SkippedSteps ==
    [Next]_vars =>
      \/ UNCHANGED skipped
      \/ \E s \in Streams : \E id \in batch[s] : skipped' = skipped \cup {<<s, id>>}
OBVIOUS

\* Only XGROUP CREATE and XGROUP SETID pass entries over.
LEMMA PassedSteps ==
    [Next]_vars =>
      \/ UNCHANGED passed
      \/ \E a \in Actors : Create(a)
      \/ \E s \in Streams : SkipBacklog(s)
BY DEF Actors

\* The subscription changes to the configured streams (restart), to a request
\* without new streams, or at the end of set_streams().
LEMMA StreamsSteps ==
    [Next]_vars =>
      \/ streams' \in {streams, Configured} \cup Requests
      \/ pc["switch"] \in {"setid", "subscribe"} /\ streams' = requested
BY DEF At

\* The locals of set_streams() are set when a switch begins and reset when it
\* ends.
LEMMA SwitchSteps ==
    [Next]_vars =>
      \/ UNCHANGED switch
      \/ requested' = {} /\ added' = {} /\ skip' = FALSE /\ mark' = Zero
      \/ \E new \in Requests, skip_backlog \in Skips :
            requested' = new /\ added' = new \ streams /\ skip' = skip_backlog /\ mark' = sent
OBVIOUS

\* The states of the consumer and of _run_consumer.
LEMMA SupervisorSteps ==
    [Next]_vars =>
      /\ state' \in {state, "waiting_for_redis", "running", "stopped", "failed"}
      /\ running' \in {running, TRUE, FALSE}
      /\ stop' \in {stop, TRUE, FALSE}
      /\ sup' \in {sup, "waiting", "closing", "clean", "failed"}
OBVIOUS

\* Only a producer adds entries.
LEMMA SentSteps ==
    [Next]_vars => UNCHANGED sent \/ \E s \in Streams : Produce(s)
OBVIOUS

\* A batch is read, used up entry by entry, or thrown away.
LEMMA BatchSteps ==
    Typed /\ [Next]_vars =>
      \/ Read
      \/ \E s \in Streams : \E id \in batch[s] : Handle(s, id)
      \/ /\ UNCHANGED handled
         /\ \/ batch' \in {batch, None}
            \/ \E s \in Streams, id \in Nat : batch' = [batch EXCEPT ![s] = @ \ {id}]
BY DEF Typed, ReadType

\* The entry to acknowledge is the one just handled or left out.
LEMMA AckingSteps ==
    [Next]_vars =>
      \/ acking' \in {acking, {}}
      \/ \E s \in Streams : \E id \in batch[s] :
            acking' = {<<s, id>>} /\ (Handle(s, id) \/ skipped' = skipped \cup {<<s, id>>})
OBVIOUS

\* While set_streams() skips the backlog it visits one stream after another.
LEMMA SetIdSteps ==
    ASSUME Typed, [Next]_vars, pc'["switch"] = "setid"
    PROVE  \/ UNCHANGED <<pc["switch"], todo["switch"], switch>>
           \/ todo'["switch"] = added'
           \/ \E r \in Streams : SkipBacklog(r)
BY DEF Typed, ControlType, Actors, GoTo, At

\* But for a restart, a subscription changes at once or at the end of a
\* switch.
LEMMA SubscribeSteps ==
    ASSUME Typed, [Next]_vars, left'["restart"] = left["restart"]
    PROVE  \/ streams' = streams
           \/ pc["switch"] = "idle"
           \/ pc["switch"] = "subscribe"
           \/ pc["switch"] = "setid" /\ todo["switch"] = {}
BY DEF Typed, HistoryType, Kinds, Spend, At

HIDE DEF Next, Run, SetStreams, RunConsumer, Mishap, vars, redis, fields,
    reading, control, switch, process, history, Produce, LoseData, Look, Create,
    Ping, Ready, Retry, AttemptFails, AttemptBusy, Abandon, Loop, Deliver, Read,
    ReadLost, ReadNothing, ReadRefused, ReadFails, Wake, Take, Handle, Skip,
    Ack, AckFails, Subscribe, SwitchBegins, SwitchEnsured, SkipBacklog,
    SwitchDone, SwitchRaises, SwitchFails, SwitchRefused, Signal, ConsumerEnded,
    Shutdown, Cancel, Restart, Fresh

-----------------------------------------------------------------------------
(* Types. *)

\* The group's position and what XREADGROUP returns lie within the stream.
LEMMA Positions ==
    ASSUME RedisType, NEW s \in Streams
    PROVE  /\ Position(s) \in 0..MaxEntries /\ Position(s) <= sent[s]
           /\ Position(s) >= lost[s] /\ Position(s) >= group[s]
           /\ Unread(s) \subseteq 1..MaxEntries
           /\ Oldest(s) \subseteq Unread(s)
           /\ UpTo(s) \in 0..MaxEntries /\ UpTo(s) <= sent[s] /\ UpTo(s) >= Position(s)
           /\ Unread(s) # {} => UpTo(s) > Position(s)
<1>1. /\ sent[s] \in 0..MaxEntries /\ lost[s] \in 0..MaxEntries
      /\ group[s] \in -1..MaxEntries /\ lost[s] <= sent[s] /\ group[s] <= sent[s]
      /\ Count \in Nat \ {0} /\ MaxEntries \in Nat
  BY ConsumerAssumption DEF RedisType, NoGroup
<1>2. /\ Position(s) \in 0..MaxEntries /\ Position(s) <= sent[s]
      /\ Position(s) >= lost[s] /\ Position(s) >= group[s]
  BY <1>1 DEF Position
<1>3. Unread(s) \subseteq 1..MaxEntries
  BY <1>1, <1>2 DEF Unread
<1>4. /\ UpTo(s) \in 0..MaxEntries /\ UpTo(s) <= sent[s] /\ UpTo(s) >= Position(s)
      /\ Oldest(s) \subseteq Unread(s)
  BY <1>1, <1>2 DEF UpTo, Oldest, Unread
<1>5. Unread(s) # {} => UpTo(s) > Position(s)
  BY <1>1, <1>2 DEF UpTo, Unread
<1>6. QED
  BY <1>2, <1>3, <1>4, <1>5

\* Redis hands out no id twice: positions only grow, even over a loss of the
\* data, because ids go on where they were.
Grows == \A s \in Streams : Position(s)' >= Position(s)

\* Every step keeps the types of Redis, and no position goes back.
LEMMA RedisTypeKept ==
    ASSUME RedisType, ControlType, acking \subseteq Streams \X (1..MaxEntries), [Next]_vars
    PROVE  RedisType' /\ Grows
<1>0. /\ MaxEntries \in Nat /\ NoGroup \in Int /\ NoGroup = -1
      /\ \A s \in Streams : /\ sent[s] \in 0..MaxEntries /\ lost[s] \in 0..MaxEntries
                           /\ group[s] \in -1..MaxEntries
  BY ConsumerAssumption DEF RedisType, NoGroup
<1>1. CASE UNCHANGED redis
  BY <1>0, <1>1 DEF RedisType, Grows, Position, redis
<1>2. ASSUME NEW s \in Streams, Produce(s) PROVE RedisType' /\ Grows
  BY <1>0, <1>2 DEF RedisType, Grows, Position, Produce
<1>3. CASE LoseData
  BY <1>0, <1>3 DEF RedisType, Grows, Position, LoseData, None
<1>4. ASSUME NEW a \in Actors, Create(a) PROVE RedisType' /\ Grows
  <2>1. PICK s \in lacking[a] : /\ group[s] = NoGroup
                                /\ group' \in {[group EXCEPT ![s] = 0], [group EXCEPT ![s] = sent[s]]}
    BY <1>4 DEF Create, MoveToEnd
  <2>2. s \in Streams
    BY <2>1 DEF ControlType
  <2>3. UNCHANGED <<sent, lost, pel>>
    BY <1>4 DEF Create
  <2>4. QED
    BY <1>0, <2>1, <2>2, <2>3 DEF RedisType, Grows, Position
<1>5. CASE Deliver
  <2>1. \A s \in Streams : /\ UpTo(s) \in 0..MaxEntries /\ UpTo(s) <= sent[s]
                           /\ Oldest(s) \subseteq 1..MaxEntries
                           /\ Unread(s) # {} => UpTo(s) > Position(s)
                           /\ UpTo(s) >= Position(s)
    BY Positions
  <2>2. /\ UNCHANGED <<sent, lost>>
        /\ \A s \in Streams : group'[s] = IF s \in asked /\ Unread(s) # {} THEN UpTo(s) ELSE group[s]
        /\ group' \in [Streams -> -1..MaxEntries]
    BY <1>0, <1>5, <2>1 DEF Deliver, RedisType
  <2>3. pel' \in [Streams -> SUBSET (1..MaxEntries)]
    BY <1>5, <2>1 DEF Deliver, RedisType
  <2>4. RedisType'
    BY <1>0, <2>1, <2>2, <2>3 DEF RedisType
  <2>5. Grows
    BY <1>0, <2>1, <2>2 DEF Grows, Position
  <2>6. QED
    BY <2>4, <2>5
<1>6. CASE Acknowledged /\ UNCHANGED <<sent, lost, group>>
  BY <1>0, <1>6 DEF RedisType, Grows, Position, Acknowledged
<1>7. ASSUME NEW s \in Streams, SkipBacklog(s) PROVE RedisType' /\ Grows
  BY <1>0, <1>7 DEF RedisType, Grows, Position, SkipBacklog, MoveToEnd
<1>8. QED
  BY <1>1, <1>2, <1>3, <1>4, <1>5, <1>6, <1>7, RedisSteps

\* Every step keeps the types of the history.
LEMMA HistoryTypeKept ==
    ASSUME Typed, [Next]_vars
    PROVE  HistoryType'
<1>1. left' \in [Kinds -> Nat]
  <2>1. left \in [Kinds -> Nat]
    BY DEF Typed, HistoryType
  <2>2. ASSUME NEW kind \in Kinds, Spend(kind) PROVE left' \in [Kinds -> Nat]
    BY <2>1, <2>2 DEF Spend
  <2>3. QED
    BY <2>1, <2>2, LeftSteps
<1>2. ASSUME NEW s \in Streams, NEW id \in batch[s] PROVE <<s, id>> \in Streams \X (1..MaxEntries)
  BY DEF Typed, ReadType
<1>3. handled' \in Seq(Streams \X (1..MaxEntries))
  <2>1. handled \in Seq(Streams \X (1..MaxEntries))
    BY DEF Typed, HistoryType
  <2>2. ASSUME NEW s \in Streams, NEW id \in batch[s], Handle(s, id)
        PROVE  handled' \in Seq(Streams \X (1..MaxEntries))
    <3>1. <<s, id>> \in Streams \X (1..MaxEntries)
      BY <1>2
    <3>2. handled' = Append(handled, <<s, id>>)
      BY <2>2 DEF Handle
    <3>3. QED
      BY <2>1, <3>1, <3>2
  <2>3. QED
    BY <2>1, <2>2, HandledSteps
<1>4. skipped' \subseteq Streams \X (1..MaxEntries)
  BY <1>2, SkippedSteps DEF Typed, HistoryType
<1>5. passed' \subseteq Streams \X (1..MaxEntries)
  <2>1. ASSUME NEW s \in Streams, MoveToEnd(s) PROVE passed' \subseteq Streams \X (1..MaxEntries)
    BY <2>1, Positions DEF MoveToEnd, Typed, HistoryType
  <2>2. ASSUME NEW a \in Actors, Create(a) PROVE passed' \subseteq Streams \X (1..MaxEntries)
    BY <2>1, <2>2 DEF Create, Typed, ControlType, HistoryType
  <2>3. QED
    BY <2>1, <2>2, PassedSteps DEF SkipBacklog, Typed, HistoryType
<1>6. QED
  BY <1>1, <1>3, <1>4, <1>5 DEF HistoryType

\* Every step keeps the types of the process; a switch never ends with no
\* stream at all.
LEMMA ProcessTypeKept ==
    ASSUME Typed, SwitchShape, [Next]_vars
    PROVE  ProcessType'
<1>1. /\ state' \in {"waiting_for_redis", "running", "stopped", "failed"}
      /\ running' \in BOOLEAN /\ stop' \in BOOLEAN
      /\ sup' \in {"waiting", "closing", "clean", "failed"}
  BY SupervisorSteps DEF Typed, ProcessType
<1>2. streams' \subseteq Streams /\ streams' # {}
  BY StreamsSteps, ConsumerAssumption DEF Typed, ProcessType, SwitchType,
     SwitchShape
<1>3. QED
  BY <1>1, <1>2 DEF ProcessType

\* Every step keeps the types of a switch.
LEMMA SwitchTypeKept ==
    ASSUME Typed, [Next]_vars
    PROVE  SwitchType'
<1>1. /\ MaxEntries \in Nat /\ sent \in [Streams -> 0..MaxEntries]
      /\ mark \in [Streams -> 0..MaxEntries]
      /\ \A s \in Streams : mark[s] <= sent[s]
  BY ConsumerAssumption DEF Typed, RedisType, SwitchType
<1>2. \A s \in Streams : sent[s] <= sent'[s]
  BY <1>1, SentSteps DEF Produce
<1>3. sent' \in [Streams -> 0..MaxEntries]
  BY RedisTypeKept DEF Typed, ReadType, RedisType
<1>4. mark' \in {mark, Zero, sent}
  BY SwitchSteps DEF switch
<1>5. mark' \in [Streams -> 0..MaxEntries] /\ \A s \in Streams : mark'[s] <= sent'[s]
  BY <1>1, <1>2, <1>3, <1>4 DEF Zero
<1>6. requested' \subseteq Streams /\ added' \subseteq requested' /\ skip' \in BOOLEAN
  BY SwitchSteps, ConsumerAssumption DEF Typed, SwitchType, switch
<1>7. QED
  BY <1>5, <1>6 DEF SwitchType

\* Every step keeps the types of control.
LEMMA ControlTypeKept ==
    ASSUME Typed, [Next]_vars
    PROVE  ControlType'
<1>1. CASE Run
  <2>1. CASE Look("run") \/ Create("run")
    BY <2>1, ConsumerAssumption DEF Typed, ControlType, ProcessType, SwitchType,
       Actors, RunLabels, SwitchLabels, Look, Create, MoveToEnd, At, redis,
       fields, reading, switch, process, history
  <2>2. CASE Ping \/ Ready \/ AttemptBusy
    BY <2>2, ConsumerAssumption DEF Typed, ControlType, ProcessType, SwitchType,
       Actors, RunLabels, SwitchLabels, Ping, Ready, AttemptBusy, Retry,
       Abandon, At, GoTo, redis, fields, reading, switch, process, history
  <2>3. CASE Loop \/ Read
    BY <2>3, ConsumerAssumption DEF Typed, ControlType, ProcessType, SwitchType,
       Actors, RunLabels, SwitchLabels, Loop, Read, Deliver, At, GoTo, redis,
       fields, switch, process, history
  <2>4. CASE ReadNothing \/ ReadRefused \/ Wake
    BY <2>4, ConsumerAssumption DEF Typed, ControlType, ProcessType, SwitchType,
       Actors, RunLabels, SwitchLabels, ReadNothing, ReadRefused, Wake, At,
       GoTo, redis, fields, reading, switch, process, history
  <2>5. CASE \E s \in Streams : \E id \in batch[s] : Handle(s, id) \/ Skip(s, id)
    BY <2>5, ConsumerAssumption DEF Typed, ControlType, ProcessType, SwitchType,
       Actors, RunLabels, SwitchLabels, Handle, Skip, Take, At, GoTo, redis,
       fields, switch, process
  <2>6. CASE Ack
    BY <2>6, ConsumerAssumption DEF Typed, ControlType, ProcessType, SwitchType,
       Actors, RunLabels, SwitchLabels, Ack, Acknowledged, At, GoTo, fields,
       switch, process, history
  <2>7. QED
    BY <1>1, <2>1, <2>2, <2>3, <2>4, <2>5, <2>6 DEF Run
<1>2. CASE SetStreams
  BY <1>2, ConsumerAssumption DEF Typed, ControlType, ProcessType, SwitchType,
     Actors, RunLabels, SwitchLabels, At, GoTo, SetStreams, redis, fields,
     reading, switch, process, history, Look, Create, Abandon, Subscribe,
     SwitchEnsured, SkipBacklog, SwitchDone, SwitchRaises, SwitchRefused
<1>3. CASE RunConsumer
  BY <1>3, ConsumerAssumption DEF Typed, ControlType, ProcessType, SwitchType,
     Actors, RunLabels, SwitchLabels, At, GoTo, RunConsumer, redis, fields,
     reading, control, switch, history, Abandon, ConsumerEnded, Shutdown, Cancel
<1>4. CASE Mishap
  BY <1>4, ConsumerAssumption DEF Typed, ControlType, ProcessType, SwitchType,
     Actors, RunLabels, SwitchLabels, At, GoTo, Mishap, redis, fields, reading,
     control, switch, process, history, LoseData, Retry, AttemptFails, Abandon,
     Deliver, ReadLost, ReadFails, AckFails, SwitchRaises, SwitchFails, Signal,
     Restart, Fresh
<1>5. ASSUME NEW new \in Requests, NEW skip_backlog \in Skips, SwitchBegins(new, skip_backlog)
      PROVE  ControlType'
  BY <1>5, ConsumerAssumption DEF Typed, ControlType, ProcessType, SwitchType,
     Actors, RunLabels, SwitchLabels, At, GoTo, redis, reading, switch, process,
     history, Subscribe, SwitchBegins
<1>6. ASSUME NEW s \in Streams, Produce(s) PROVE ControlType'
  BY <1>6, ConsumerAssumption DEF Typed, ControlType, ProcessType, SwitchType,
     Actors, RunLabels, SwitchLabels, fields, reading, control, switch, process,
     history, Produce
<1>7. CASE UNCHANGED vars
  BY <1>7, ConsumerAssumption DEF Typed, ControlType, ProcessType, SwitchType,
     Actors, RunLabels, SwitchLabels, vars, redis, fields, reading, control,
     switch, process, history
<1>8. QED
  BY <1>1, <1>2, <1>3, <1>4, <1>5, <1>6, <1>7 DEF Next

\* Every step keeps the shape of a switch.
LEMMA SwitchShapeKept ==
    ASSUME Typed, SwitchShape, [Next]_vars
    PROVE  SwitchShape'
<1>1. CASE Run
  <2>1. CASE Look("run")
    BY <2>1 DEF Typed, SwitchShape, ControlType, SwitchType, ProcessType,
       RunLabels, SwitchLabels, Actors, At, fields, switch, reading, Look
  <2>2. CASE Create("run")
    BY <2>2 DEF Typed, SwitchShape, ControlType, SwitchType, ProcessType,
       RunLabels, SwitchLabels, Actors, At, fields, switch, reading, Create
  <2>3. CASE Ping \/ Ready
    BY <2>3 DEF Typed, SwitchShape, ControlType, SwitchType, ProcessType,
       RunLabels, SwitchLabels, Actors, At, GoTo, fields, switch, reading, Ping,
       Ready
  <2>4. CASE AttemptBusy
    BY <2>4 DEF Typed, SwitchShape, ControlType, SwitchType, ProcessType,
       RunLabels, SwitchLabels, Actors, At, GoTo, fields, switch, reading,
       AttemptBusy, Retry, Abandon
  <2>5. CASE Loop \/ ReadNothing \/ ReadRefused \/ Wake
    BY <2>5 DEF Typed, SwitchShape, ControlType, SwitchType, ProcessType,
       RunLabels, SwitchLabels, Actors, At, GoTo, fields, switch, reading, Loop,
       ReadNothing, ReadRefused, Wake
  <2>6. CASE Read
    BY <2>6 DEF Typed, SwitchShape, ControlType, SwitchType, ProcessType,
       RunLabels, SwitchLabels, Actors, At, GoTo, fields, switch, Read, Deliver
  <2>7. CASE \E s \in Streams : \E id \in batch[s] : Handle(s, id) \/ Skip(s, id)
    BY <2>7 DEF Typed, SwitchShape, ControlType, SwitchType, ProcessType,
       RunLabels, SwitchLabels, Actors, At, GoTo, fields, switch, Handle, Skip,
       Take
  <2>8. CASE Ack
    BY <2>8 DEF Typed, SwitchShape, ControlType, SwitchType, ProcessType,
       RunLabels, SwitchLabels, Actors, At, GoTo, fields, switch, Ack
  <2>9. QED
    BY <1>1, <2>1, <2>2, <2>3, <2>4, <2>5, <2>6, <2>7, <2>8 DEF Run
<1>2. CASE SetStreams
  <2>1. CASE Look("switch") \/ Create("switch")
    BY <2>1, ConsumerAssumption DEF Typed, SwitchShape, ControlType, SwitchType,
       ProcessType, RunLabels, SwitchLabels, Actors, Look, Create, MoveToEnd,
       At, redis, fields, reading, switch, process, history
  <2>2. CASE SwitchEnsured
    BY <2>2, ConsumerAssumption DEF Typed, SwitchShape, ControlType, SwitchType,
       ProcessType, RunLabels, SwitchLabels, Actors, SwitchEnsured, At, GoTo,
       redis, fields, reading, switch, process, history
  <2>3. CASE \E s \in Streams : SkipBacklog(s)
    BY <2>3, ConsumerAssumption DEF Typed, SwitchShape, ControlType, SwitchType,
       ProcessType, RunLabels, SwitchLabels, Actors, SkipBacklog, MoveToEnd, At,
       fields, reading, switch, process
  <2>4. CASE SwitchDone
    BY <2>4, ConsumerAssumption DEF Typed, SwitchShape, ControlType, SwitchType,
       ProcessType, RunLabels, SwitchLabels, Actors, SwitchDone, Subscribe, At,
       GoTo, redis, reading, switch, process, history
  <2>5. CASE SwitchRefused
    BY <2>5, ConsumerAssumption DEF Typed, SwitchShape, ControlType, SwitchType,
       ProcessType, RunLabels, SwitchLabels, Actors, SwitchRefused,
       SwitchRaises, Abandon, At, GoTo, redis, fields, reading, switch, process,
       history
  <2>6. QED
    BY <1>2, <2>1, <2>2, <2>3, <2>4, <2>5 DEF SetStreams
<1>3. CASE RunConsumer
  BY <1>3, ConsumerAssumption DEF Typed, SwitchShape, ControlType, SwitchType,
     ProcessType, RunLabels, SwitchLabels, Actors, At, GoTo, RunConsumer, redis,
     fields, reading, control, switch, history, Abandon, ConsumerEnded,
     Shutdown, Cancel
<1>4. CASE Mishap
  BY <1>4, ConsumerAssumption DEF Typed, SwitchShape, ControlType, SwitchType,
     ProcessType, RunLabels, SwitchLabels, Actors, At, GoTo, Mishap, redis,
     fields, reading, control, switch, process, history, LoseData, Retry,
     AttemptFails, Abandon, Deliver, ReadLost, ReadFails, AckFails,
     SwitchRaises, SwitchFails, Signal, Restart, Fresh
<1>5. ASSUME NEW new \in Requests, NEW skip_backlog \in Skips, SwitchBegins(new, skip_backlog)
      PROVE  SwitchShape'
  BY <1>5, ConsumerAssumption DEF Typed, SwitchShape, ControlType, SwitchType,
     ProcessType, RunLabels, SwitchLabels, Actors, At, GoTo, redis, reading,
     switch, process, history, Subscribe, SwitchBegins
<1>6. ASSUME NEW s \in Streams, Produce(s) PROVE SwitchShape'
  BY <1>6, ConsumerAssumption DEF Typed, SwitchShape, ControlType, SwitchType,
     ProcessType, RunLabels, SwitchLabels, Actors, fields, reading, control,
     switch, process, history, Produce
<1>7. CASE UNCHANGED vars
  BY <1>7, ConsumerAssumption DEF Typed, SwitchShape, ControlType, SwitchType,
     ProcessType, RunLabels, SwitchLabels, Actors, vars, redis, fields, reading,
     control, switch, process, history
<1>8. QED
  BY <1>1, <1>2, <1>3, <1>4, <1>5, <1>6, <1>7 DEF Next

\* Every step keeps the types of the locals of run().
LEMMA ReadTypeKept ==
    ASSUME Typed, [Next]_vars
    PROVE  ReadType'
<1>0. \A s \in Streams : Oldest(s) \subseteq 1..MaxEntries
  BY Positions DEF Typed
<1>1. CASE Run
  BY <1>1, <1>0 DEF Typed, ReadType, ProcessType, None, GoTo, At, Run, redis,
     fields, reading, switch, process, history, Look, Create, Ping, Ready,
     Retry, AttemptBusy, Abandon, Loop, Deliver, Read, ReadNothing, ReadRefused,
     Wake, Take, Handle, Skip, Ack
<1>2. CASE SetStreams
  BY <1>2, <1>0 DEF Typed, ReadType, ProcessType, GoTo, At, SetStreams, redis,
     fields, reading, switch, process, history, Look, Create, Abandon,
     Subscribe, SwitchEnsured, SkipBacklog, SwitchDone, SwitchRaises,
     SwitchRefused
<1>3. CASE RunConsumer
  BY <1>3, <1>0 DEF Typed, ReadType, ProcessType, None, GoTo, At, RunConsumer,
     redis, fields, reading, control, switch, history, Abandon, ConsumerEnded,
     Shutdown, Cancel
<1>4. CASE Mishap
  BY <1>4, <1>0 DEF Typed, ReadType, ProcessType, None, GoTo, At, Mishap, redis,
     fields, reading, control, switch, process, history, LoseData, Retry,
     AttemptFails, Abandon, Deliver, ReadLost, ReadFails, AckFails,
     SwitchRaises, SwitchFails, Signal, Restart, Fresh
<1>5. ASSUME NEW new \in Requests, NEW skip_backlog \in Skips, SwitchBegins(new, skip_backlog)
      PROVE  ReadType'
  BY <1>5, <1>0 DEF Typed, ReadType, ProcessType, GoTo, At, redis, reading,
     switch, process, history, Subscribe, SwitchBegins
<1>6. ASSUME NEW s \in Streams, Produce(s) PROVE ReadType'
  BY <1>6, <1>0 DEF Typed, ReadType, ProcessType, fields, reading, control,
     switch, process, history, Produce
<1>7. CASE UNCHANGED vars
  BY <1>7, <1>0 DEF Typed, ReadType, ProcessType, vars, redis, fields, reading,
     control, switch, process, history
<1>8. QED
  BY <1>1, <1>2, <1>3, <1>4, <1>5, <1>6, <1>7 DEF Next

\* The initial states are shaped.
LEMMA ShapedInit == Init => Shaped
<1>1. MaxEntries \in Nat /\ Configured \subseteq Streams /\ Configured # {} /\ Allowed \in [Kinds -> Nat]
  BY ConsumerAssumption
<1>2. Init => RedisType
  <2>1. Init => /\ sent = Zero /\ lost = Zero /\ pel = None
                /\ \A s \in Streams : group[s] \in -1..MaxEntries /\ group[s] <= 0
                /\ group \in [Streams -> -1..MaxEntries]
    BY <1>1 DEF Init, NoGroup
  <2>2. /\ Zero \in [Streams -> 0..MaxEntries] /\ \A s \in Streams : Zero[s] = 0
        /\ None \in [Streams -> SUBSET (1..MaxEntries)]
    BY <1>1 DEF Zero, None
  <2>3. QED
    BY <2>1, <2>2 DEF RedisType, NoGroup
<1>5. Init => ReadType /\ ProcessType /\ SwitchType
  <2>1. Init => ReadType /\ ProcessType
    BY <1>1 DEF Init, ReadType, ProcessType, None
  <2>2. Zero \in [Streams -> 0..MaxEntries] /\ \A s \in Streams : Zero[s] <= Zero[s]
    BY <1>1 DEF Zero
  <2>3. Init => SwitchType
    BY <1>1, <2>2 DEF Init, SwitchType
  <2>4. QED
    BY <2>1, <2>3
<1>3. Init => ControlType /\ SwitchShape
  BY DEF Init, ControlType, SwitchShape, Actors, RunLabels, SwitchLabels
<1>4. Init => HistoryType
  BY <1>1 DEF Init, HistoryType
<1>6. QED
  BY <1>2, <1>3, <1>4, <1>5 DEF Shaped, Typed

\* So Shaped is inductive.
LEMMA ShapedKept == Shaped /\ [Next]_vars => Shaped'
<1>1. SUFFICES ASSUME Shaped, [Next]_vars PROVE Shaped'
  OBVIOUS
<1>2. RedisType'
  BY <1>1, RedisTypeKept DEF Shaped, Typed, ReadType
<1>3. QED
  BY <1>1, <1>2, ReadTypeKept, ControlTypeKept, ProcessTypeKept, SwitchTypeKept, HistoryTypeKept, SwitchShapeKept DEF
     Shaped, Typed

\* The type invariant: no command of the consumer, in whatever order run() and
\* set_streams() issue theirs, leads outside the states the code expects.
THEOREM TypeCorrect == Spec => []TypeOK
<1>1. Spec => []Shaped
  BY ShapedInit, ShapedKept, PTL DEF Spec
<1>2. Shaped => TypeOK
  BY TypeParts DEF Shaped
<1>3. QED
  BY <1>1, <1>2, PTL

-----------------------------------------------------------------------------
(* Each stream in order, nothing twice. *)

\* The entries of a batch have been handed out, and none of them, nor a later
\* one of its stream, has gone to the handlers.
Fetched ==
    \A s \in Streams : \A id \in batch[s] :
        /\ id <= Position(s)
        /\ \A i \in DOMAIN handled : handled[i][1] = s => handled[i][2] < id

\* What went to the handlers had been handed out.
Behind == \A i \in DOMAIN handled : handled[i][2] <= Position(handled[i][1])

\* The next entry given to the handlers is later than all of its stream before
\* it.
LEMMA HandleIsNew ==
    ASSUME Shaped, Fetched, NEW s \in Streams, NEW id \in batch[s], Handle(s, id)
    PROVE  Promise!Show(s, id)
<1>1. /\ id \in 1..MaxEntries /\ id <= Position(s) /\ Position(s) <= sent[s]
      /\ \A i \in DOMAIN handled : handled[i][1] = s => handled[i][2] < id
  BY Positions DEF Shaped, Typed, ReadType, Fetched
<1>2. sent[s] \in Nat /\ MaxEntries \in Nat /\ Position(s) \in Nat
  BY Positions, ConsumerAssumption DEF Shaped, Typed, RedisType
<1>3. id \in 1..sent[s]
  BY <1>1, <1>2
<1>4. handled' = Append(handled, <<s, id>>) /\ UNCHANGED sent
  BY DEF Handle, Take, redis
<1>5. QED
  BY <1>1, <1>3, <1>4 DEF Promise!Show

\* Every step keeps both: XREADGROUP only hands out what lies beyond the
\* position, and _process_entry takes the oldest of the batch.
LEMMA FetchedKept ==
    ASSUME Shaped, Fetched, Behind, [Next]_vars
    PROVE  Fetched' /\ Behind'
<1>1. /\ \A s \in Streams : Position(s) \in Nat /\ Position(s)' \in Nat /\ Position(s) <= Position(s)'
  <2>1. RedisType /\ RedisType' /\ Grows
    BY RedisTypeKept DEF Shaped, Typed, ReadType
  <2>2. \A s \in Streams : Position(s) \in 0..MaxEntries
    BY <2>1, Positions
  <2>3. \A s \in Streams : Position(s)' \in 0..MaxEntries
    BY <2>1, ConsumerAssumption DEF RedisType, Position, NoGroup
  <2>4. QED
    BY <2>1, <2>2, <2>3, ConsumerAssumption DEF Grows
<1>2. /\ handled \in Seq(Streams \X (1..MaxEntries))
      /\ batch \in [Streams -> SUBSET (1..MaxEntries)] /\ MaxEntries \in Nat
  BY ConsumerAssumption DEF Shaped, Typed, HistoryType, ReadType
<1>3. \A i \in DOMAIN handled : handled[i][1] \in Streams /\ handled[i][2] \in 1..MaxEntries
  BY <1>2
<1>4. CASE Read
  <2>1. UNCHANGED <<handled, lost>>
    BY <1>4 DEF Read, Deliver, history
  <2>2. Behind'
    BY <1>1, <1>2, <1>3, <2>1 DEF Behind
  <2>3. ASSUME NEW s \in Streams, NEW id \in batch'[s]
        PROVE  /\ id <= Position(s)'
               /\ \A i \in DOMAIN handled' : handled'[i][1] = s => handled'[i][2] < id
    <3>1. s \in asked /\ id \in Oldest(s) /\ id \in Unread(s)
      BY <1>4, <2>3, Positions DEF Read, Shaped, Typed
    <3>2. group'[s] = UpTo(s) /\ UpTo(s) \in 0..MaxEntries /\ Position(s) \in 0..MaxEntries
      BY <1>4, <3>1, Positions DEF Read, Deliver, Shaped, Typed
    <3>3. id \in Int /\ id <= UpTo(s) /\ id > Position(s)
      BY <1>2, <3>1, <3>2 DEF Oldest
    <3>4. lost[s] \in Nat /\ UpTo(s) \in Nat
      BY <1>2, <3>2 DEF Shaped, Typed, RedisType
    <3>5. id <= Position(s)'
      BY <2>1, <3>2, <3>3, <3>4 DEF Position
    <3>6. \A i \in DOMAIN handled : handled[i][1] = s => handled[i][2] < id
      BY <1>1, <1>2, <1>3, <3>3 DEF Behind
    <3>7. QED
      BY <2>1, <3>5, <3>6
  <2>4. QED
    BY <2>2, <2>3 DEF Fetched
<1>5. ASSUME NEW s \in Streams, NEW id \in batch[s], Handle(s, id)
      PROVE  Fetched' /\ Behind'
  <2>1. /\ handled' = Append(handled, <<s, id>>)
        /\ \A j \in batch[s] : id <= j
        /\ batch' = [batch EXCEPT ![s] = @ \ {id}]
    BY <1>5 DEF Handle, Take
  <2>2. id \in 1..MaxEntries /\ id <= Position(s)
    BY <1>2 DEF Fetched
  <2>3. /\ DOMAIN handled' = 1..Len(handled) + 1
        /\ \A i \in 1..Len(handled) : i \in DOMAIN handled /\ handled'[i] = handled[i]
        /\ handled'[Len(handled) + 1] = <<s, id>> /\ Len(handled) \in Nat
    BY <1>2, <2>1, <2>2
  <2>4. ASSUME NEW i \in DOMAIN handled'
        PROVE  (handled[i][2] <= Position(handled[i][1]))'
    <3>1. CASE i = Len(handled) + 1
      <4>1. handled'[i] = <<s, id>>
        BY <2>3, <3>1
      <4>2. id <= Position(s)'
        BY <1>1, <1>2, <2>2
      <4>3. QED
        BY <4>1, <4>2 DEF Position
    <3>2. CASE i \in 1..Len(handled)
      <4>1. handled'[i] = handled[i] /\ handled[i][1] \in Streams
        BY <1>3, <2>3, <3>2
      <4>2. handled[i][2] <= Position(handled[i][1])
        BY <2>3, <3>2 DEF Behind
      <4>3. handled[i][2] <= Position(handled[i][1])'
        BY <1>1, <1>2, <1>3, <2>3, <3>2, <4>1, <4>2
      <4>4. QED
        BY <4>1, <4>3 DEF Position
    <3>3. QED
      BY <2>3, <3>1, <3>2
  <2>5. ASSUME NEW r \in Streams, NEW j \in batch'[r]
        PROVE  /\ j <= Position(r)'
               /\ \A i \in DOMAIN handled' : handled'[i][1] = r => handled'[i][2] < j
    <3>1. j \in batch[r] /\ j \in 1..MaxEntries /\ j <= Position(r) /\ (r = s => id < j)
      BY <1>2, <2>1, <2>2 DEF Fetched
    <3>2. j <= Position(r)'
      BY <1>1, <1>2, <3>1
    <3>3. \A i \in 1..Len(handled) : handled'[i][1] = r => handled'[i][2] < j
      BY <2>3, <3>1 DEF Fetched
    <3>4. handled'[Len(handled) + 1][1] = r => handled'[Len(handled) + 1][2] < j
      BY <2>3, <3>1
    <3>5. QED
      BY <2>3, <3>2, <3>3, <3>4
  <2>6. QED
    BY <2>4, <2>5 DEF Fetched, Behind
<1>6. CASE /\ UNCHANGED handled
           /\ \/ batch' \in {batch, None}
              \/ \E s \in Streams, id \in Nat : batch' = [batch EXCEPT ![s] = @ \ {id}]
  <2>1. \A s \in Streams : batch'[s] \subseteq batch[s]
    BY <1>2, <1>6 DEF None
  <2>2. Behind'
    BY <1>1, <1>3, <1>6 DEF Behind
  <2>3. Fetched'
    BY <1>1, <1>2, <1>6, <2>1 DEF Fetched
  <2>4. QED
    BY <2>2, <2>3
<1>7. QED
  BY <1>4, <1>5, <1>6, BatchSteps DEF Shaped

\* Every step of the consumer is a step of Delivery, or changes nothing there.
LEMMA StepPromised ==
    ASSUME Shaped, Fetched, [Next]_vars
    PROVE  [Promise!Next]_(Promise!vars)
<1>1. UNCHANGED handled \/ \E s \in Streams : \E id \in batch[s] : Handle(s, id)
  BY HandledSteps
<1>2. UNCHANGED sent \/ \E s \in Streams : Produce(s)
  BY SentSteps
<1>3. ASSUME NEW s \in Streams, NEW id \in batch[s], Handle(s, id) PROVE Promise!Next
  BY <1>3, HandleIsNew DEF Promise!Next, Promise!Show
<1>4. ASSUME NEW s \in Streams, Produce(s) PROVE Promise!Next
  BY <1>4 DEF Produce, history, Promise!Next, Promise!Send
<1>5. QED
  BY <1>1, <1>2, <1>3, <1>4 DEF Promise!vars

\* The consumer implements Delivery: across lost answers, restarts, switches
\* and losses of data the handlers get each stream in order and nothing twice
\* (run() reads with ">" only and never claims pending entries).
THEOREM DeliversInOrderOnce == Spec => InOrderOnce
<1>1. Init => Promise!Init
  BY DEF Init, Promise!Init, Zero
<1>2. Init => Fetched /\ Behind
  BY DEF Init, Fetched, Behind, None
<1>3. Spec => [](Shaped /\ Fetched /\ Behind)
  BY <1>2, ShapedInit, ShapedKept, FetchedKept, PTL DEF Spec
<1>4. Shaped /\ Fetched /\ [Next]_vars => [Promise!Next]_(Promise!vars)
  BY StepPromised
<1>5. QED
  BY <1>1, <1>3, <1>4, PTL DEF Spec, InOrderOnce, Promise!Spec

-----------------------------------------------------------------------------
(* No entry disappears. *)

\* What waits for its XACK went to the handlers or was left out on purpose.
Settled == acking \subseteq Handled \cup skipped

\* History is only added to.
LEMMA HistoryGrows ==
    ASSUME Typed, [Next]_vars
    PROVE  Handled \subseteq Handled' /\ skipped \subseteq skipped' /\ passed \subseteq passed'
<1>1. skipped \subseteq skipped'
  BY SkippedSteps
<1>2. passed \subseteq passed'
  BY PassedSteps DEF Create, SkipBacklog, MoveToEnd
<1>3. Handled \subseteq Handled'
  <2>1. handled \in Seq(Streams \X (1..MaxEntries))
    BY DEF Typed, HistoryType
  <2>2. ASSUME NEW s \in Streams, NEW id \in batch[s], Handle(s, id)
        PROVE  Handled \subseteq Handled'
    <3>1. handled' = Append(handled, <<s, id>>)
      BY <2>2 DEF Handle
    <3>2. \A i \in DOMAIN handled : i \in DOMAIN handled' /\ handled'[i] = handled[i]
      BY <2>1, <3>1
    <3>3. QED
      BY <3>2 DEF Handled
  <2>3. QED
    BY <2>2, HandledSteps DEF Handled
<1>4. QED
  BY <1>1, <1>2, <1>3

\* Every step keeps Settled: XACK comes last in _process_entry.
LEMMA SettledKept ==
    ASSUME Typed, Settled, [Next]_vars
    PROVE  Settled'
<1>1. Handled \subseteq Handled' /\ skipped \subseteq skipped'
  BY HistoryGrows
<1>2. ASSUME NEW s \in Streams, NEW id \in batch[s], Handle(s, id)
      PROVE  <<s, id>> \in Handled'
  <2>1. handled' = Append(handled, <<s, id>>) /\ handled \in Seq(Streams \X (1..MaxEntries))
    BY <1>2 DEF Handle, Typed, HistoryType
  <2>2. Len(handled) + 1 \in DOMAIN handled' /\ handled'[Len(handled) + 1] = <<s, id>>
    BY <2>1
  <2>3. QED
    BY <2>2 DEF Handled
<1>3. QED
  BY <1>1, <1>2, AckingSteps DEF Settled

\* Every step keeps the accounts: an id that falls behind the position becomes
\* pending or is passed over, and leaves the pending entries only by its XACK.
LEMMA AccountedKept ==
    ASSUME Shaped, Settled, Accounted, [Next]_vars
    PROVE  Accounted'
<1>1. Handled \subseteq Handled' /\ skipped \subseteq skipped' /\ passed \subseteq passed'
  BY HistoryGrows DEF Shaped
<1>2. /\ MaxEntries \in Nat /\ NoGroup = -1
      /\ \A s \in Streams : /\ sent[s] \in 0..MaxEntries /\ lost[s] \in 0..MaxEntries
                           /\ group[s] \in -1..MaxEntries /\ lost[s] <= sent[s]
                           /\ Position(s) \in 0..MaxEntries
  BY Positions, ConsumerAssumption DEF Shaped, Typed, RedisType, NoGroup
<1>3. SUFFICES ASSUME NEW s \in Streams, NEW id \in Nat, id > 0, id <= Position(s)', id > lost'[s]
               PROVE  (id \in pel[s] \/ <<s, id>> \in Handled \cup skipped \cup passed)'
  <2>1. \A s \in Streams : \A id \in 1..Position(s)' : id \in Nat /\ id > 0 /\ id <= Position(s)'
    <3>1. \A s \in Streams : Position(s)' \in Int
      <4>1. RedisType'
        BY RedisTypeKept DEF Shaped, Typed, ReadType
      <4>2. QED
        BY <4>1, <1>2 DEF RedisType, Position
    <3>2. QED
      BY <3>1
  <2>2. QED
    BY <2>1 DEF Accounted
<1>4. CASE id <= Position(s) /\ id > lost[s] /\ pel[s] \subseteq pel'[s] \cup {j \in Nat : <<s, j>> \in acking}
  <2>1. id \in pel[s] \/ <<s, id>> \in Handled \cup skipped \cup passed
    BY <1>2, <1>3, <1>4 DEF Accounted
  <2>2. QED
    BY <1>1, <1>4, <2>1 DEF Settled
<1>5. CASE id > Position(s) /\ (Unread(s) \subseteq {j \in Nat : <<s, j>> \in passed'})
           /\ id <= sent[s]
  BY <1>2, <1>3, <1>5 DEF Unread
<1>6. ASSUME NEW r \in Streams, MoveToEnd(r), UNCHANGED <<lost, pel, sent>>
      PROVE  (id \in pel[s] \/ <<s, id>> \in Handled \cup skipped \cup passed)'
  <2>1. /\ group' = [group EXCEPT ![r] = sent[r]] /\ UNCHANGED <<lost, pel>>
        /\ passed' = passed \cup {<<r, j>> : j \in Unread(r)}
    BY <1>6 DEF MoveToEnd
  <2>2. CASE s # r \/ id <= Position(s)
    <3>1. id <= Position(s) /\ id > lost[s]
      BY <1>2, <1>3, <2>1, <2>2 DEF Shaped, Typed, RedisType, Position
    <3>2. QED
      BY <1>4, <2>1, <3>1
  <2>3. CASE s = r /\ id > Position(s)
    <3>1. id <= sent[s]
      BY <1>2, <1>3, <2>1, <2>3 DEF Shaped, Typed, RedisType, Position
    <3>2. id \in Unread(s)
      BY <1>2, <1>3, <2>3, <3>1 DEF Unread
    <3>3. QED
      BY <2>1, <2>3, <3>2
  <2>4. QED
    BY <1>2, <1>3, <2>2, <2>3
<1>7. CASE UNCHANGED redis
  BY <1>3, <1>4, <1>7 DEF redis, Position
<1>8. ASSUME NEW r \in Streams, Produce(r)
      PROVE  (id \in pel[s] \/ <<s, id>> \in Handled \cup skipped \cup passed)'
  BY <1>3, <1>4, <1>8 DEF Produce, Position
<1>9. CASE LoseData
  BY <1>2, <1>3, <1>9 DEF LoseData, Position
<1>10. ASSUME NEW a \in Actors, Create(a)
       PROVE  (id \in pel[s] \/ <<s, id>> \in Handled \cup skipped \cup passed)'
  <2>1. PICK r \in lacking[a] : /\ group[r] = NoGroup
                                /\ MoveToEnd(r) \/ group' = [group EXCEPT ![r] = 0]
    BY <1>10 DEF Create
  <2>2. r \in Streams /\ UNCHANGED <<sent, lost, pel>>
    BY <1>10, <2>1 DEF Create, Shaped, Typed, ControlType
  <2>3. CASE group' = [group EXCEPT ![r] = 0]
    <3>1. /\ group'[s] = (IF s = r THEN 0 ELSE group[s]) /\ lost'[s] = lost[s]
          /\ s = r => group[s] = -1
      <4>1. group \in [Streams -> NoGroup..MaxEntries]
        BY DEF Shaped, Typed, RedisType
      <4>2. group'[s] = (IF s = r THEN 0 ELSE group[s])
        BY <2>2, <2>3, <4>1
      <4>4. s = r => group[s] = -1
        BY <1>2, <2>1
      <4>5. QED
        BY <2>2, <4>2, <4>4
    <3>2. Position(s)' = Position(s)
      BY <1>2, <3>1 DEF Position
    <3>3. QED
      BY <1>3, <1>4, <2>2, <3>2
  <2>4. QED
    BY <1>6, <2>1, <2>2, <2>3
<1>11. CASE Deliver
  <2>1. UNCHANGED <<sent, lost>> /\ pel[s] \subseteq pel'[s]
    BY <1>11 DEF Deliver, Shaped, Typed, RedisType
  <2>2. CASE id <= Position(s)
    BY <1>3, <1>4, <2>1, <2>2
  <2>3. CASE id > Position(s)
    <3>1. group'[s] = (IF s \in asked /\ Unread(s) # {} THEN UpTo(s) ELSE group[s])
      BY <1>11 DEF Deliver
    <3>2. UpTo(s) \in 0..MaxEntries
      BY Positions DEF Shaped, Typed
    <3>3. s \in asked /\ id <= UpTo(s)
      BY <1>2, <1>3, <2>1, <2>3, <3>1, <3>2 DEF Position
    <3>4. id \in Oldest(s)
      BY <1>2, <1>3, <2>3, <3>2, <3>3 DEF Oldest
    <3>5. id \in pel'[s]
      BY <1>11, <3>3, <3>4 DEF Deliver, Shaped, Typed, RedisType
    <3>6. QED
      BY <3>5
  <2>4. QED
    BY <1>2, <1>3, <2>2, <2>3
<1>12. CASE Acknowledged /\ UNCHANGED <<sent, lost, group>>
  <2>1. Position(s)' = Position(s)
    BY <1>12 DEF Position
  <2>2. pel[s] \subseteq pel'[s] \cup {j \in Nat : <<s, j>> \in acking}
    BY <1>2, <1>12 DEF Acknowledged, Shaped, Typed, RedisType
  <2>3. QED
    BY <1>3, <1>4, <1>12, <2>1, <2>2
<1>13. ASSUME NEW r \in Streams, SkipBacklog(r)
       PROVE  (id \in pel[s] \/ <<s, id>> \in Handled \cup skipped \cup passed)'
  BY <1>6, <1>13 DEF SkipBacklog
<1>14. QED
  BY <1>7, <1>8, <1>9, <1>10, <1>11, <1>12, <1>13, RedisSteps

\* No entry disappears: whatever is behind the group's position went to the
\* handlers, was left out, was passed over, is still pending, or was lost by
\* Redis.
THEOREM AccountsForAll == Spec => []Accounted
<1>1. Init => Settled /\ Accounted
  <2>1. Init => \A s \in Streams : Position(s) = 0
    BY DEF Init, Position, Zero, NoGroup
  <2>2. QED
    BY <2>1 DEF Init, Settled, Accounted
<1>2. Shaped /\ Settled /\ Accounted /\ [Next]_vars => Settled' /\ Accounted'
  BY SettledKept, AccountedKept DEF Shaped
<1>3. QED
  BY <1>1, <1>2, ShapedInit, ShapedKept, PTL DEF Spec

-----------------------------------------------------------------------------
(* Switches: the backlog of what is added, and the rest left alone. *)

\* While set_streams() skips the backlog: the streams it is done with are read
\* up to where they were when the switch began.
Advanced ==
    pc["switch"] = "setid" => \A s \in added \ todo["switch"] : Position(s) >= mark[s]

\* Every step keeps Advanced: no position goes back.
LEMMA AdvancedKept ==
    ASSUME Shaped, Advanced, [Next]_vars
    PROVE  Advanced'
<1>1. \A s \in Streams : Position(s) \in Nat /\ Position(s)' \in Nat /\ Position(s) <= Position(s)'
  <2>1. RedisType /\ RedisType' /\ Grows
    BY RedisTypeKept DEF Shaped, Typed, ReadType
  <2>2. \A s \in Streams : Position(s) \in 0..MaxEntries /\ Position(s)' \in 0..MaxEntries
    BY <2>1, ConsumerAssumption DEF RedisType, Position, NoGroup
  <2>3. QED
    BY <2>1, <2>2, ConsumerAssumption DEF Grows
<1>2. \A s \in Streams : mark[s] \in Nat /\ mark[s] <= sent[s] /\ sent[s] \in Nat
  BY ConsumerAssumption DEF Shaped, Typed, SwitchType, RedisType
<1>3. SUFFICES ASSUME pc'["switch"] = "setid", NEW s \in added' \ todo'["switch"]
               PROVE  Position(s)' >= mark'[s]
  BY DEF Advanced
<1>4. \/ UNCHANGED <<pc["switch"], todo["switch"], switch>>
      \/ todo'["switch"] = added'
      \/ \E r \in Streams : SkipBacklog(r)
  BY <1>3, SetIdSteps DEF Shaped
<1>5. CASE UNCHANGED <<pc["switch"], todo["switch"], switch>>
  <2>1. s \in added \ todo["switch"] /\ pc["switch"] = "setid" /\ mark'[s] = mark[s]
    BY <1>3, <1>5 DEF switch
  <2>2. s \in Streams
    BY <2>1 DEF Shaped, Typed, SwitchType
  <2>3. QED
    BY <1>1, <1>2, <2>1, <2>2 DEF Advanced
<1>6. CASE todo'["switch"] = added'
  BY <1>3, <1>6
<1>7. ASSUME NEW r \in Streams, SkipBacklog(r) PROVE Position(s)' >= mark'[s]
  <2>1. /\ pc["switch"] = "setid" /\ UNCHANGED <<sent, lost, added, mark>>
        /\ group' = [group EXCEPT ![r] = sent[r]]
        /\ todo' = [todo EXCEPT !["switch"] = @ \ {r}]
    BY <1>7 DEF SkipBacklog, MoveToEnd, At, switch
  <2>2. s \in added /\ s \in Streams /\ (s # r => s \notin todo["switch"])
    BY <1>3, <2>1 DEF Shaped, Typed, SwitchType, ControlType, Actors
  <2>3. CASE s = r
    <3>1. group'[s] = sent[s] /\ lost'[s] = lost[s] /\ lost[s] <= sent[s] /\ lost[s] \in Nat
      BY <2>1, <2>2, <2>3, ConsumerAssumption DEF Shaped, Typed, RedisType
    <3>2. QED
      BY <1>2, <2>1, <2>2, <3>1 DEF Position
  <2>4. CASE s # r
    BY <1>1, <1>2, <2>1, <2>2, <2>4 DEF Advanced
  <2>5. QED
    BY <2>3, <2>4
<1>8. QED
  BY <1>4, <1>5, <1>6, <1>7

\* So a switch that skips the backlog takes effect with nothing old left.
LEMMA SubscribeAdvanced ==
    ASSUME Shaped, Advanced, [Next]_vars, pc["switch"] # "idle", streams' = requested, skip,
           left'["restart"] = left["restart"]
    PROVE  \A s \in added : Position(s) >= mark[s]
<1>1. streams # requested
  BY DEF Shaped, SwitchShape, Typed, SwitchType
<1>2. pc["switch"] = "setid" /\ todo["switch"] = {}
  BY <1>1, SubscribeSteps DEF Shaped, SwitchShape
<1>3. QED
  BY <1>2 DEF Advanced

\* XGROUP SETID is for added streams, XGROUP CREATE for streams without group.
LEMMA SubscribedKept ==
    ASSUME Shaped, [Next]_vars, NEW s \in streams, group[s] # NoGroup, NEW id \in Unread(s),
           <<s, id>> \in passed'
    PROVE  <<s, id>> \in passed
<1>1. CASE UNCHANGED passed
  BY <1>1
<1>2. ASSUME NEW a \in Actors, Create(a) PROVE <<s, id>> \in passed
  BY <1>2 DEF Create, MoveToEnd
<1>3. ASSUME NEW r \in Streams, SkipBacklog(r) PROVE <<s, id>> \in passed
  <2>1. r \in added /\ pc["switch"] = "setid"
    BY <1>3 DEF SkipBacklog, At, Shaped, SwitchShape
  <2>2. r # s
    BY <2>1 DEF Shaped, SwitchShape
  <2>3. QED
    BY <1>3, <2>2 DEF SkipBacklog, MoveToEnd
<1>4. QED
  BY <1>1, <1>2, <1>3, PassedSteps

\* What the docstring of set_streams() promises: the backlog of added streams
\* is not replayed, and streams already in the set are left untouched.
THEOREM SwitchCorrect == Spec => SkipsOnlyAdded
<1>1. Init => Advanced
  BY DEF Init, Advanced, Actors
<1>2. Spec => [](Shaped /\ Advanced)
  BY <1>1, ShapedInit, ShapedKept, AdvancedKept, PTL DEF Spec
<1>3. Shaped /\ Advanced /\ [Next]_vars =>
         [(pc["switch"] # "idle" /\ streams' = requested /\ skip
             /\ left'["restart"] = left["restart"])
          => \A s \in added : Position(s) >= mark[s]]_vars
  BY SubscribeAdvanced
<1>4. Shaped /\ [Next]_vars =>
         [\A s \in streams : group[s] # NoGroup =>
            \A id \in Unread(s) : <<s, id>> \in passed' => <<s, id>> \in passed]_vars
  BY SubscribedKept
<1>5. QED
  BY <1>2, <1>3, <1>4, PTL DEF Spec, SkipsOnlyAdded, BacklogSkipped, SubscribedUndisturbed

-----------------------------------------------------------------------------
(* No stream is read without its group, as long as Redis keeps its data. *)

\* The labels of the read loop.
ReadLabels == {"loop", "read", "entry", "ack", "sleep"}

\* Redis has kept its data so far.
Keeps == left["loss"] = Allowed["loss"]

\* No more losses are left than allowed.
WithinBounds == left["loss"] <= Allowed["loss"]

\* The groups that are there, at every stage on the way to a subscription.
GroupsMade ==
    /\ pc["run"] \in {"ping", "ensure"} => asked = {}
    /\ pc["run"] = "ensure" => \A s \in streams \ todo["run"] : group[s] # NoGroup
    /\ pc["run"] \in ReadLabels => \A s \in streams \cup asked : group[s] # NoGroup
    /\ pc["switch"] = "ensure" => \A s \in added \ todo["switch"] : group[s] # NoGroup
    /\ pc["switch"] \in {"setid", "subscribe"} => \A s \in added : group[s] # NoGroup

\* Redis that has kept its data after a step kept it before and in the step.
LEMMA NoLossBefore ==
    ASSUME Typed, WithinBounds, [Next]_vars
    PROVE  WithinBounds' /\ (Keeps' => Keeps /\ ~LoseData)
<1>1. Allowed["loss"] \in Nat /\ left["loss"] \in Nat /\ left \in [Kinds -> Nat] /\ "loss" \in Kinds
  BY ConsumerAssumption DEF Typed, HistoryType, Kinds
<1>2. left'["loss"] \in {left["loss"], left["loss"] - 1}
  BY <1>1, LeftSteps DEF Spend, Kinds
<1>3. LoseData => left'["loss"] = left["loss"] - 1
  BY <1>1 DEF LoseData, Spend
<1>4. QED
  BY <1>1, <1>2, <1>3 DEF WithinBounds, Keeps

\* Nothing but a loss of the data removes a group.
LEMMA GroupStays ==
    ASSUME Typed, [Next]_vars, ~LoseData, NEW s \in Streams, group[s] # NoGroup
    PROVE  group'[s] # NoGroup
<1>1. /\ MaxEntries \in Nat /\ sent[s] \in 0..MaxEntries /\ UpTo(s) \in 0..MaxEntries
      /\ group \in [Streams -> NoGroup..MaxEntries]
  BY Positions, ConsumerAssumption DEF Typed, RedisType
<1>2. ASSUME NEW r \in Streams, MoveToEnd(r) PROVE group'[s] # NoGroup
  BY <1>1, <1>2 DEF MoveToEnd, NoGroup
<1>3. ASSUME NEW a \in Actors, Create(a) PROVE group'[s] # NoGroup
  BY <1>1, <1>2, <1>3 DEF Create, Typed, ControlType
<1>4. CASE Deliver
  BY <1>1, <1>4 DEF Deliver, NoGroup
<1>5. QED
  BY <1>2, <1>3, <1>4, RedisSteps DEF redis, Produce, SkipBacklog

\* Every step but a loss keeps the groups made: run() starts the loop only
\* when all groups of its streams are there, set_streams() subscribes only
\* then, and the streams run() has not looked at are those it has, or those
\* set_streams() created.
LEMMA GroupsMadeKept ==
    ASSUME Shaped, GroupsMade, [Next]_vars, ~LoseData
    PROVE  GroupsMade'
<1>0. \A s \in Streams : group[s] # NoGroup => group'[s] # NoGroup
  BY GroupStays DEF Shaped
<1>10. ASSUME Deliver
       PROVE  pc["run"] = "read" /\ UNCHANGED <<streams, asked, todo, added>>
  BY <1>10 DEF Deliver, At, fields, switch
<1>11. ASSUME Deliver, NEW label \in ReadLabels, pc' = [pc EXCEPT !["run"] = label]
       PROVE  GroupsMade'
  <2>1. pc'["run"] = label /\ pc'["switch"] = pc["switch"]
    BY <1>11 DEF Shaped, Typed, ControlType, Actors
  <2>2. streams \subseteq Streams /\ asked \subseteq Streams /\ added \subseteq Streams
    BY DEF Shaped, Typed, ProcessType, ReadType, SwitchType
  <2>3. label \notin {"ping", "ensure"}
    BY DEF ReadLabels
  <2>4. \A s \in streams \cup asked : group[s] # NoGroup
    BY <1>10, <1>11 DEF GroupsMade, ReadLabels
  <2>5. QED
    BY <2>1, <2>2, <2>3, <2>4, <1>0, <1>10, <1>11 DEF GroupsMade
<1>9. ASSUME NEW a \in Actors, Create(a)
      PROVE  /\ \E s \in Streams : group'[s] # NoGroup /\ todo' = [todo EXCEPT ![a] = @ \ {s}]
             /\ UNCHANGED <<pc, fields, reading, switch, left>>
  <2>1. PICK s \in lacking[a] : /\ MoveToEnd(s) \/ group' = [group EXCEPT ![s] = 0]
                                /\ todo' = [todo EXCEPT ![a] = @ \ {s}]
    BY <1>9 DEF Create
  <2>2. s \in Streams
    BY DEF Shaped, Typed, ControlType
  <2>3. group'[s] # NoGroup
    BY <2>1, <2>2, ConsumerAssumption DEF MoveToEnd, NoGroup, Shaped, Typed,
       RedisType
  <2>4. QED
    BY <1>9, <2>1, <2>2, <2>3 DEF Create
<1>1. CASE Run
  <2>1. CASE Look("run")
    BY <2>1, <1>0, <1>9 DEF Shaped, Typed, SwitchShape, ControlType,
       ProcessType, SwitchType, GroupsMade, ReadLabels, Actors, RunLabels,
       SwitchLabels, Look, At, redis, fields, reading, switch, process, history
  <2>2. CASE Create("run")
    <3>1. PICK s \in Streams : group'[s] # NoGroup /\ todo' = [todo EXCEPT !["run"] = @ \ {s}]
      BY <2>2, <1>9 DEF Actors
    <3>2. UNCHANGED <<pc, fields, reading, switch>>
      BY <2>2, <1>9 DEF Actors
    <3>3. /\ todo'["run"] = todo["run"] \ {s} /\ todo'["switch"] = todo["switch"]
          /\ streams' = streams /\ asked' = asked /\ added' = added /\ pc' = pc
      BY <3>1, <3>2 DEF Shaped, Typed, ControlType, Actors, fields, reading,
         switch
    <3>4. streams \subseteq Streams /\ asked \subseteq Streams /\ added \subseteq Streams
      BY DEF Shaped, Typed, ProcessType, ReadType, SwitchType
    <3>5. QED
      BY <3>1, <3>3, <3>4, <1>0 DEF GroupsMade
  <2>3. CASE Ping \/ Ready \/ AttemptBusy
    BY <2>3, <1>0, <1>9 DEF Shaped, Typed, SwitchShape, ControlType,
       ProcessType, SwitchType, GroupsMade, ReadLabels, Actors, RunLabels,
       SwitchLabels, Ping, Ready, AttemptBusy, Retry, Abandon, At, GoTo, redis,
       fields, reading, switch, process, history
  <2>4. CASE Loop
    BY <2>4, <1>0, <1>9 DEF Shaped, Typed, SwitchShape, ControlType,
       ProcessType, SwitchType, GroupsMade, ReadLabels, Actors, RunLabels,
       SwitchLabels, Loop, At, GoTo, redis, fields, reading, switch, process,
       history
  <2>5. CASE Read
    <3>1. pc' = [pc EXCEPT !["run"] = "entry"]
      BY <2>5 DEF Read, GoTo
    <3>2. QED
      BY <2>5, <1>11, <3>1 DEF Read, ReadLabels
  <2>6. CASE ReadNothing \/ ReadRefused \/ Wake
    BY <2>6, <1>0, <1>9 DEF Shaped, Typed, SwitchShape, ControlType,
       ProcessType, SwitchType, GroupsMade, ReadLabels, Actors, RunLabels,
       SwitchLabels, ReadNothing, ReadRefused, Wake, At, GoTo, redis, fields,
       reading, switch, process, history
  <2>7. CASE \E s \in Streams : \E id \in batch[s] : Handle(s, id) \/ Skip(s, id)
    BY <2>7, <1>0, <1>9 DEF Shaped, Typed, SwitchShape, ControlType,
       ProcessType, SwitchType, GroupsMade, ReadLabels, Actors, RunLabels,
       SwitchLabels, Handle, Skip, Take, At, GoTo, redis, fields, reading,
       switch, process
  <2>8. CASE Ack
    BY <2>8, <1>0, <1>9 DEF Shaped, Typed, SwitchShape, ControlType,
       ProcessType, SwitchType, GroupsMade, ReadLabels, Actors, RunLabels,
       SwitchLabels, Ack, Acknowledged, At, GoTo, fields, reading, switch,
       process, history
  <2>9. QED
    BY <1>1, <2>1, <2>2, <2>3, <2>4, <2>5, <2>6, <2>7, <2>8 DEF Run
<1>2. CASE SetStreams
  <2>1. CASE Look("switch")
    BY <2>1, <1>0, <1>9 DEF Shaped, Typed, SwitchShape, ControlType,
       ProcessType, SwitchType, GroupsMade, ReadLabels, Actors, RunLabels,
       SwitchLabels, Look, At, redis, fields, reading, switch, process, history
  <2>2. CASE Create("switch")
    <3>1. PICK s \in Streams : group'[s] # NoGroup /\ todo' = [todo EXCEPT !["switch"] = @ \ {s}]
      BY <2>2, <1>9 DEF Actors
    <3>2. UNCHANGED <<pc, fields, reading, switch>>
      BY <2>2, <1>9 DEF Actors
    <3>3. /\ todo'["switch"] = todo["switch"] \ {s} /\ todo'["run"] = todo["run"]
          /\ streams' = streams /\ asked' = asked /\ added' = added /\ pc' = pc
      BY <3>1, <3>2 DEF Shaped, Typed, ControlType, Actors, fields, reading,
         switch
    <3>4. streams \subseteq Streams /\ asked \subseteq Streams /\ added \subseteq Streams
      BY DEF Shaped, Typed, ProcessType, ReadType, SwitchType
    <3>5. QED
      BY <3>1, <3>3, <3>4, <1>0 DEF GroupsMade
  <2>3. CASE SwitchEnsured
    BY <2>3, <1>0, <1>9 DEF Shaped, Typed, SwitchShape, ControlType,
       ProcessType, SwitchType, GroupsMade, ReadLabels, Actors, RunLabels,
       SwitchLabels, SwitchEnsured, At, GoTo, redis, fields, reading, switch,
       process, history
  <2>4. CASE \E s \in Streams : SkipBacklog(s)
    BY <2>4, <1>0, <1>9 DEF Shaped, Typed, SwitchShape, ControlType,
       ProcessType, SwitchType, GroupsMade, ReadLabels, Actors, RunLabels,
       SwitchLabels, SkipBacklog, MoveToEnd, At, fields, reading, switch,
       process
  <2>5. CASE SwitchDone
    BY <2>5, <1>0, <1>9 DEF Shaped, Typed, SwitchShape, ControlType,
       ProcessType, SwitchType, GroupsMade, ReadLabels, Actors, RunLabels,
       SwitchLabels, SwitchDone, Subscribe, At, GoTo, redis, fields, reading,
       switch, process, history
  <2>6. CASE SwitchRefused
    BY <2>6, <1>0, <1>9 DEF Shaped, Typed, SwitchShape, ControlType,
       ProcessType, SwitchType, GroupsMade, ReadLabels, Actors, RunLabels,
       SwitchLabels, SwitchRefused, SwitchRaises, Abandon, At, GoTo, redis,
       fields, reading, switch, process, history
  <2>7. QED
    BY <1>2, <2>1, <2>2, <2>3, <2>4, <2>5, <2>6 DEF SetStreams
<1>3. CASE RunConsumer
  BY <1>3, <1>0, <1>9, ConsumerAssumption DEF Shaped, Typed, SwitchShape,
     ControlType, ProcessType, SwitchType, GroupsMade, ReadLabels, Actors,
     RunLabels, SwitchLabels, At, GoTo, RunConsumer, redis, fields, reading,
     control, switch, process, history, LoseData, Create, Abandon,
     ConsumerEnded, Shutdown, Cancel
<1>4. CASE Mishap
  <2>1. CASE LoseData
    BY <2>1, <1>0, <1>9 DEF Shaped, Typed, SwitchShape, ControlType,
       ProcessType, SwitchType, GroupsMade, ReadLabels, Actors, RunLabels,
       SwitchLabels, fields, reading, switch
  <2>2. CASE AttemptFails
    BY <2>2, <1>0, <1>9 DEF Shaped, Typed, SwitchShape, ControlType,
       ProcessType, SwitchType, GroupsMade, ReadLabels, Actors, RunLabels,
       SwitchLabels, AttemptFails, Retry, Abandon, Spend, GoTo, redis, fields,
       reading, switch, process, history
  <2>3. CASE ReadLost \/ ReadFails
    <3>1. CASE ReadLost
      <4>1. pc' = [pc EXCEPT !["run"] = "sleep"]
        BY <3>1 DEF ReadLost, GoTo
      <4>2. QED
        BY <3>1, <1>11, <4>1 DEF ReadLost, ReadLabels
    <3>2. CASE ReadFails
      BY <3>2, <1>0 DEF ReadFails, Shaped, Typed, ControlType, ProcessType,
         SwitchType, ReadType, GroupsMade, ReadLabels, Actors, At, GoTo, redis,
         fields, reading, switch
    <3>3. QED
      BY <2>3, <3>1, <3>2
  <2>4. CASE AckFails
    BY <2>4, <1>0, <1>9 DEF Shaped, Typed, SwitchShape, ControlType,
       ProcessType, SwitchType, GroupsMade, ReadLabels, Actors, RunLabels,
       SwitchLabels, AckFails, Spend, At, GoTo, fields, reading, switch,
       process, history
  <2>5. CASE SwitchFails
    BY <2>5, <1>0, <1>9 DEF Shaped, Typed, SwitchShape, ControlType,
       ProcessType, SwitchType, GroupsMade, ReadLabels, Actors, RunLabels,
       SwitchLabels, SwitchFails, SwitchRaises, Abandon, Spend, GoTo, redis,
       fields, reading, switch, process, history
  <2>6. CASE Signal
    BY <2>6, <1>0, <1>9 DEF Shaped, Typed, SwitchShape, ControlType,
       ProcessType, SwitchType, GroupsMade, ReadLabels, Actors, RunLabels,
       SwitchLabels, Signal, Spend, redis, fields, reading, control, switch,
       history
  <2>7. CASE Restart
    BY <2>7, <1>0, <1>9 DEF Shaped, Typed, SwitchShape, ControlType,
       ProcessType, SwitchType, GroupsMade, ReadLabels, Actors, RunLabels,
       SwitchLabels, Restart, Fresh, Spend, redis, fields, reading, switch,
       history
  <2>8. QED
    BY <1>4, <2>1, <2>2, <2>3, <2>4, <2>5, <2>6, <2>7 DEF Mishap
<1>5. ASSUME NEW new \in Requests, NEW skip_backlog \in Skips, SwitchBegins(new, skip_backlog)
      PROVE  GroupsMade'
  BY <1>5, <1>0, <1>9, ConsumerAssumption DEF Shaped, Typed, SwitchShape,
     ControlType, ProcessType, SwitchType, GroupsMade, ReadLabels, Actors,
     RunLabels, SwitchLabels, At, GoTo, redis, fields, reading, control, switch,
     process, history, LoseData, Create, Subscribe, SwitchBegins
<1>6. ASSUME NEW s \in Streams, Produce(s) PROVE GroupsMade'
  BY <1>6, <1>0, <1>9, ConsumerAssumption DEF Shaped, Typed, SwitchShape,
     ControlType, ProcessType, SwitchType, GroupsMade, ReadLabels, Actors,
     RunLabels, SwitchLabels, At, fields, reading, control, switch, process,
     history, Produce, LoseData, Create
<1>7. CASE UNCHANGED vars
  BY <1>7, <1>0, <1>9, ConsumerAssumption DEF Shaped, Typed, SwitchShape,
     ControlType, ProcessType, SwitchType, GroupsMade, ReadLabels, Actors,
     RunLabels, SwitchLabels, At, vars, redis, fields, reading, control, switch,
     process, history, LoseData, Create
<1>8. QED
  BY <1>1, <1>2, <1>3, <1>4, <1>5, <1>6, <1>7 DEF Next

\* As long as Redis keeps its data, no subscribed stream and no stream of the
\* command under way is without its group when the loop reads (wait_ready,
\* set_streams and _ensure_group together).
THEOREM NeverWithoutGroup == Spec => []SubscribedHasGroup
<1>1. Init => WithinBounds /\ (Keeps => GroupsMade)
  BY ConsumerAssumption DEF Init, WithinBounds, GroupsMade, ReadLabels, Actors,
     Kinds
<1>2. ASSUME Shaped, WithinBounds, Keeps => GroupsMade, [Next]_vars
      PROVE  WithinBounds' /\ (Keeps => GroupsMade)'
  BY <1>2, NoLossBefore, GroupsMadeKept DEF Shaped
<1>3. Spec => [](Keeps => GroupsMade)
  BY <1>1, <1>2, ShapedInit, ShapedKept, PTL DEF Spec
<1>4. (Keeps => GroupsMade) => SubscribedHasGroup
  BY DEF Keeps, GroupsMade, ReadLabels, SubscribedHasGroup
<1>5. QED
  BY <1>3, <1>4, PTL
=============================================================================

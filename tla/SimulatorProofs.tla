--------------------------- MODULE SimulatorProofs ---------------------------
(* What TLAPS proves of Simulator for every number of tabs, every size of the ring  *)
(* and any number of events, replays and restarts.                                 *)
EXTENDS Simulator, FiniteSetTheorems, SequenceTheorems, TLAPS

----------------------------------------------------------------------------
(* The ring.  An entry points into the log, and a replay's root there is an event   *)
(* that replays nothing: Rooted is why a replay of a replay names the first.        *)

LogEntry == [source : {"message", "api"}, drawable : BOOLEAN, root : Nat \ {0}, id : Nat \ {0}]
RingEntry == [id : Nat \ {0}, nr : Nat \ {0}, replayOf : Nat]

LogOK == log \in Seq(LogEntry) /\ version \in Nat /\ up \in {"running", "stopping", "gone"}

InLog(s) ==
    /\ s \in Seq(RingEntry)
    /\ \A i \in DOMAIN s : s[i].nr <= Len(log) /\ log[s[i].nr].id = s[i].id

\* The event e shows is in the log, and e says whether it is itself.
Rooted(e) ==
    /\ log[e.nr].root \in 1 .. Len(log)
    /\ IF log[e.nr].root = e.nr THEN e.replayOf = 0 ELSE e.replayOf = log[log[e.nr].root].id

RingOK ==
    /\ InLog(events) /\ Len(events) <= Kept
    /\ \A i \in DOMAIN events : events[i].id <= version /\ Rooted(events[i])

PageOK(p) ==
    /\ stream[p].pc \in {"none", "polling", "yielded", "ended"}
    /\ page[p].pc \in {"idle", "answered"}
    /\ page[p].lastId \in Nat
    /\ page[p].answer \in Seq(RingEntry) /\ Len(page[p].answer) <= Recent

\* A tab and its stream have the fields they were given.
Fields ==
    /\ DOMAIN page = Pages /\ DOMAIN stream = Pages
    /\ \A p \in Pages : DOMAIN page[p] = DOMAIN Closed /\ DOMAIN stream[p] = {"pc", "seen"}

Tabs == Fields /\ \A p \in Pages : PageOK(p)

Inv == LogOK /\ RingOK /\ Tabs

LEMMA NewestType ==
    ASSUME NEW S, NEW s \in Seq(S), NEW n \in Nat
    PROVE  /\ TheNewest(s, n) \in Seq(S)
           /\ Len(TheNewest(s, n)) <= n
           /\ Len(TheNewest(s, n)) <= Len(s)
           /\ \A i \in 1 .. Len(TheNewest(s, n)) : TheNewest(s, n)[i] = s[i]
           /\ \A i \in DOMAIN s : i <= n => i \in 1 .. Len(TheNewest(s, n))
<1> DEFINE m == IF Len(s) < n THEN Len(s) ELSE n
<1>1. m \in Nat /\ m <= n /\ m <= Len(s) /\ \A i \in 1 .. m : s[i] \in S
  OBVIOUS
<1>2. TheNewest(s, n) = SubSeq(s, 1, m)
  BY DEF TheNewest
<1> HIDE DEF m
<1>3. /\ SubSeq(s, 1, m) \in Seq(S)
      /\ Len(SubSeq(s, 1, m)) = IF 1 <= m THEN m - 1 + 1 ELSE 0
      /\ \A i \in 1 .. m - 1 + 1 : SubSeq(s, 1, m)[i] = s[1 + i - 1]
  BY <1>1, SubSeqProperties
<1>4. Len(SubSeq(s, 1, m)) = m
  BY <1>1, <1>3
<1>5. \A i \in 1 .. m : SubSeq(s, 1, m)[i] = s[i]
  BY <1>1, <1>3
<1>6. \A i \in DOMAIN s : i <= n => i \in 1 .. m
  BY DEF m
<1>7. QED
  BY <1>1, <1>2, <1>3, <1>4, <1>5, <1>6

\* record(), whatever is recorded, as long as it says what it replays.
LEMMA RecordKeeps ==
    ASSUME LogOK, RingOK, NEW source \in {"message", "api"}, NEW drawable \in BOOLEAN,
           NEW replayOf \in Nat, NEW root \in 1 .. Len(log) + 1,
           RecordEvent(source, drawable, replayOf, root),
           IF root = Len(log) + 1 THEN replayOf = 0 ELSE replayOf = log[root].id
    PROVE  LogOK' /\ RingOK'
<1> DEFINE nr == Len(log) + 1
           id == version + 1
           entry == [id |-> id, nr |-> nr, replayOf |-> replayOf]
           made == [source |-> source, drawable |-> drawable, root |-> root, id |-> id]
           all == <<entry>> \o events
<1>1. /\ log \in Seq(LogEntry) /\ version \in Nat /\ events \in Seq(RingEntry) /\ Kept \in Nat
      /\ Len(log) \in Nat
  BY SimulatorAssumption DEF LogOK, RingOK, InLog
<1>2. /\ version' = id /\ events' = TheNewest(all, Kept) /\ log' = Append(log, made) /\ up' = up
  BY DEF RecordEvent
<1>3. entry \in RingEntry /\ made \in LogEntry /\ nr \in Nat \ {0} /\ id \in Nat \ {0}
  BY <1>1 DEF RingEntry, LogEntry
<1>e. entry.id = id /\ entry.nr = nr /\ entry.replayOf = replayOf /\ made.root = root /\ made.id = id
  OBVIOUS
<1> HIDE DEF entry, made
<1>4. /\ log' \in Seq(LogEntry) /\ Len(log') = nr
      /\ log'[nr] = made /\ \A k \in 1 .. Len(log) : log'[k] = log[k]
  BY <1>1, <1>2, <1>3
<1>5. LogOK'
  BY <1>2, <1>3, <1>4 DEF LogOK
<1>6. /\ all \in Seq(RingEntry) /\ Len(all) = Len(events) + 1
      /\ \A i \in 1 .. Len(all) : all[i] = entry \/ \E j \in DOMAIN events : all[i] = events[j]
  <2>1. <<entry>> \in Seq(RingEntry) /\ Len(<<entry>>) = 1 /\ <<entry>>[1] = entry
    BY <1>3
  <2>2. /\ all \in Seq(RingEntry) /\ Len(all) = 1 + Len(events)
        /\ \A i \in 1 .. 1 + Len(events) : all[i] = IF i <= 1 THEN <<entry>>[i] ELSE events[i - 1]
    BY <1>1, <2>1, ConcatProperties
  <2> HIDE DEF all
  <2>3. \A i \in 1 .. 1 + Len(events) : i <= 1 => i = 1
    BY <1>1
  <2>4. \A i \in 1 .. 1 + Len(events) : ~(i <= 1) => i - 1 \in DOMAIN events
    BY <1>1
  <2>5. QED
    BY <1>1, <2>1, <2>2, <2>3, <2>4
<1> HIDE DEF all
<1>7. /\ events' \in Seq(RingEntry) /\ Len(events') <= Kept
      /\ \A i \in DOMAIN events' : events'[i] = entry \/ \E j \in DOMAIN events : events'[i] = events[j]
  <2>1. /\ events' \in Seq(RingEntry) /\ Len(events') <= Kept /\ Len(events') <= Len(all)
        /\ \A i \in 1 .. Len(events') : events'[i] = all[i]
    BY <1>1, <1>2, <1>6, NewestType
  <2>2. DOMAIN events' = 1 .. Len(events') /\ \A i \in 1 .. Len(events') : i \in 1 .. Len(all)
    BY <1>6, <2>1
  <2>3. QED
    BY <1>6, <2>1, <2>2
<1> DEFINE Good(e) == /\ e.nr <= Len(log') /\ log'[e.nr].id = e.id /\ e.id <= version'
                      /\ log'[e.nr].root \in 1 .. Len(log')
                      /\ IF log'[e.nr].root = e.nr THEN e.replayOf = 0
                         ELSE e.replayOf = log'[log'[e.nr].root].id
<1>8. Good(entry)
  <2>1. log'[entry.nr] = made /\ entry.nr = Len(log')
    BY <1>4, <1>e
  <2>2. entry.nr <= Len(log') /\ log'[entry.nr].id = entry.id /\ entry.id <= version'
    BY <1>2, <1>3, <1>4, <1>e, <2>1
  <2>3. root \in 1 .. Len(log') /\ log'[entry.nr].root = root
    BY <1>4, <1>e, <2>1
  <2>4. CASE root = nr
    BY <1>e, <2>2, <2>3, <2>4
  <2>5. CASE root # nr
    <3>1. root \in 1 .. Len(log) /\ log'[root] = log[root]
      BY <1>1, <1>4, <2>5
    <3>2. QED
      BY <1>e, <2>2, <2>3, <2>5, <3>1
  <2>6. QED
    BY <2>4, <2>5
<1>9. ASSUME NEW j \in DOMAIN events PROVE Good(events[j])
  <2>1. /\ events[j] \in RingEntry /\ events[j].nr <= Len(log) /\ log[events[j].nr].id = events[j].id
        /\ events[j].id <= version /\ Rooted(events[j])
    BY <1>1, <1>9 DEF RingOK, InLog
  <2>2. events[j].nr \in 1 .. Len(log) /\ events[j].id \in Nat
    BY <1>1, <2>1 DEF RingEntry
  <2>3. log'[events[j].nr] = log[events[j].nr] /\ log[events[j].nr].root \in 1 .. Len(log)
    BY <1>4, <2>1, <2>2 DEF Rooted
  <2>4. log'[log[events[j].nr].root] = log[log[events[j].nr].root]
    BY <1>4, <2>3
  <2>5. /\ events[j].nr <= Len(log') /\ events[j].id <= version'
        /\ log[events[j].nr].root \in 1 .. Len(log')
    BY <1>1, <1>2, <1>4, <2>1, <2>2, <2>3
  <2>6. QED
    BY <2>1, <2>3, <2>4, <2>5 DEF Rooted
<1>10. \A i \in DOMAIN events' : Good(events'[i])
  BY <1>7, <1>8, <1>9
<1>11. RingOK'
  BY <1>7, <1>10 DEF RingOK, InLog, Rooted
<1>12. QED
  BY <1>5, <1>11

\* A replay of a replay: what it names is what both show.
LEMMA ReplayNames ==
    ASSUME LogOK, RingOK, NEW i \in DOMAIN events
    PROVE  /\ log[events[i].nr].root \in 1 .. Len(log)
           /\ Original(events[i]) = log[log[events[i].nr].root].id
           /\ Original(events[i]) \in Nat
<1> DEFINE e == events[i]
           root == log[e.nr].root
<1>1. /\ e \in RingEntry /\ e.nr <= Len(log) /\ log[e.nr].id = e.id /\ Rooted(e)
      /\ log \in Seq(LogEntry)
  BY DEF LogOK, RingOK, InLog
<1>2. e.id \in Nat \ {0} /\ e.replayOf \in Nat
  BY <1>1 DEF RingEntry
<1>3. root \in 1 .. Len(log) /\ log[root] \in LogEntry
  BY <1>1 DEF Rooted
<1>4. log[root].id \in Nat \ {0}
  BY <1>3 DEF LogEntry
<1>5. CASE root = e.nr
  <2>1. e.replayOf = 0
    BY <1>1, <1>5 DEF Rooted
  <2>2. QED
    BY <1>1, <1>2, <1>3, <1>5, <2>1 DEF Original
<1>6. CASE root # e.nr
  <2>1. e.replayOf = log[root].id
    BY <1>1, <1>6 DEF Rooted
  <2>2. QED
    BY <1>2, <1>3, <1>4, <2>1 DEF Original
<1>7. QED
  BY <1>5, <1>6

\* Everything that records: a message, a write through the API, a replay.
LEMMA RecordStep ==
    ASSUME LogOK, RingOK,
           (\E drawable \in BOOLEAN : Message(drawable)) \/ ApiWrite \/ Replay
    PROVE  LogOK' /\ RingOK' /\ UNCHANGED <<stream, page>>
<1>t. Len(log) \in Nat
  BY DEF LogOK
<1>1. ASSUME NEW drawable \in BOOLEAN, Message(drawable)
      PROVE  LogOK' /\ RingOK' /\ UNCHANGED <<stream, page>>
  <2>1. RecordEvent("message", drawable, 0, Len(log) + 1)
    BY <1>1 DEF Message
  <2>2. LogOK' /\ RingOK'
    BY <1>t, <2>1, RecordKeeps
  <2>3. QED
    BY <2>1, <2>2 DEF RecordEvent
<1>2. CASE ApiWrite
  <2>1. RecordEvent("api", TRUE, 0, Len(log) + 1)
    BY <1>2 DEF ApiWrite
  <2>2. LogOK' /\ RingOK'
    <3>1. Len(log) + 1 \in 1 .. Len(log) + 1 /\ "api" \in {"message", "api"} /\ TRUE \in BOOLEAN
          /\ 0 \in Nat
      BY <1>t
    <3>2. QED
      BY <2>1, <3>1, RecordKeeps
  <2>3. QED
    BY <2>1, <2>2 DEF RecordEvent
<1>3. CASE Replay
  <2>1. PICK e \in Range(events) : RecordEvent("message", TRUE, Original(e), log[e.nr].root)
    BY <1>3 DEF Replay
  <2>2. PICK i \in DOMAIN events : e = events[i]
    BY DEF Range
  <2>3. /\ log[e.nr].root \in 1 .. Len(log)
        /\ Original(e) = log[log[e.nr].root].id
        /\ Original(e) \in Nat
    BY <2>2, ReplayNames
  <2>4. log[e.nr].root \in 1 .. Len(log) + 1 /\ log[e.nr].root # Len(log) + 1
    BY <1>t, <2>3
  <2>5. LogOK' /\ RingOK'
    BY <2>1, <2>3, <2>4, RecordKeeps
  <2>6. QED
    BY <2>1, <2>5 DEF RecordEvent
<1>4. QED
  BY <1>1, <1>2, <1>3

----------------------------------------------------------------------------
(* The tabs.  A tab asks for the ring as it is, so what it waits to apply is as     *)
(* well formed as the ring.                                                        *)

LEMMA TabSteps ==
    ASSUME RingOK, Tabs, NEW q \in Pages,
           Streaming(q) \/ Script(q) \/ Open(q) \/ Close(q) \/ Drop(q)
    PROVE  Tabs' /\ UNCHANGED <<trackerVars, up>>
<1>1. UNCHANGED <<trackerVars, up>>
  BY DEF Streaming, StreamEnds, StreamSends, StreamResumes, Script, Reconnect, Fetch, FetchFails,
         Apply, Open, Close, Drop, trackerVars
<1>2. /\ DOMAIN page = Pages /\ DOMAIN stream = Pages
      /\ \A p \in Pages : DOMAIN page[p] = DOMAIN Closed /\ DOMAIN stream[p] = {"pc", "seen"}
      /\ \A p \in Pages : PageOK(p)
  BY DEF Tabs, Fields
<1>c. DOMAIN Closed = {"open", "lastId", "due", "first", "pc", "answer", "drawn", "since",
                       "failed", "born"}
  BY DEF Closed
<1> DEFINE Same(p) == stream'[p] = stream[p] /\ page'[p] = page[p]
           Good(p) == /\ DOMAIN page'[p] = DOMAIN Closed /\ DOMAIN stream'[p] = {"pc", "seen"}
                      /\ PageOK(p)'
<1>3. ASSUME NEW p \in Pages, Same(p) PROVE Good(p)
  BY <1>2, <1>3 DEF PageOK
<1>4. /\ DOMAIN page' = Pages /\ DOMAIN stream' = Pages
      /\ \A p \in Pages : p # q => Same(p)
  BY <1>2
  DEF Streaming, StreamEnds, StreamSends, StreamResumes, Script, Reconnect, Fetch, FetchFails,
      Apply, Open, Close, Drop
<1>t. /\ stream[q].pc \in {"none", "polling", "yielded", "ended"}
      /\ page[q].pc \in {"idle", "answered"} /\ page[q].lastId \in Nat
      /\ page[q].answer \in Seq(RingEntry) /\ Len(page[q].answer) <= Recent
  BY <1>2 DEF PageOK
<1>5. ASSUME StreamEnds(q) \/ StreamResumes(q) \/ Drop(q)
      PROVE  Good(q)
  <2>1. page'[q] = page[q]
    BY <1>5 DEF StreamEnds, StreamResumes, Drop
  <2>2. DOMAIN stream'[q] = {"pc", "seen"} /\ stream'[q].pc \in {"polling", "ended"}
    BY <1>2, <1>5 DEF StreamEnds, StreamResumes, Drop
  <2>3. QED
    BY <1>2, <1>t, <2>1, <2>2 DEF PageOK
<1>6. ASSUME StreamSends(q)
      PROVE  Good(q)
  <2>1. /\ DOMAIN page'[q] = DOMAIN Closed
        /\ page'[q].pc = page[q].pc /\ page'[q].lastId = page[q].lastId
        /\ page'[q].answer = page[q].answer
    BY <1>2, <1>6, <1>c DEF StreamSends
  <2>2. DOMAIN stream'[q] = {"pc", "seen"} /\ stream'[q].pc = "yielded"
    BY <1>2, <1>6 DEF StreamSends
  <2>3. QED
    BY <1>2, <1>t, <2>1, <2>2 DEF PageOK
<1>7. ASSUME Open(q) \/ Close(q) \/ Reconnect(q)
      PROVE  Good(q)
  <2>1. CASE Reconnect(q)
    <3>1. page'[q] = page[q] /\ DOMAIN stream'[q] = {"pc", "seen"} /\ stream'[q].pc = "polling"
      BY <1>2, <2>1 DEF Reconnect
    <3>2. QED
      BY <1>2, <1>t, <3>1 DEF PageOK
  <2>2. CASE Open(q) \/ Close(q)
    <3>1. /\ Closed.pc = "idle" /\ Closed.lastId = 0 /\ Closed.answer = <<>>
      BY DEF Closed
    <3>2. /\ DOMAIN page'[q] = DOMAIN Closed
          /\ page'[q].pc = "idle" /\ page'[q].lastId = 0 /\ page'[q].answer = <<>>
      <4>1. CASE Close(q)
        BY <1>2, <3>1, <4>1 DEF Close
      <4>2. CASE Open(q)
        <5>1. page'[q] = [Closed EXCEPT !.open = TRUE, !.due = 1, !.born = bounds.restarts]
          BY <1>2, <4>2 DEF Open
        <5>2. QED
          BY <1>c, <3>1, <5>1
      <4>3. QED
        BY <2>2, <4>1, <4>2
    <3>3. DOMAIN stream'[q] = {"pc", "seen"} /\ stream'[q].pc \in {"polling", stream[q].pc}
      BY <1>2, <2>2 DEF Open, Close
    <3>4. <<>> \in Seq(RingEntry) /\ Len(<<>>) <= Recent
      BY SimulatorAssumption
    <3>5. QED
      BY <1>2, <1>t, <3>2, <3>3, <3>4 DEF PageOK
  <2>3. QED
    BY <1>7, <2>1, <2>2
<1>8. ASSUME Fetch(q) \/ FetchFails(q)
      PROVE  Good(q)
  <2>1. /\ DOMAIN page'[q] = DOMAIN Closed
        /\ page'[q].pc \in {page[q].pc, "answered"} /\ page'[q].lastId = page[q].lastId
        /\ page'[q].answer \in {page[q].answer, TheNewest(events, Recent)}
    BY <1>2, <1>8, <1>c DEF Fetch, FetchFails
  <2>2. stream'[q] = stream[q]
    BY <1>8 DEF Fetch, FetchFails
  <2>3. TheNewest(events, Recent) \in Seq(RingEntry) /\ Len(TheNewest(events, Recent)) <= Recent
    BY SimulatorAssumption, NewestType DEF RingOK, InLog
  <2>4. QED
    BY <1>2, <1>t, <2>1, <2>2, <2>3 DEF PageOK
<1>9. ASSUME Apply(q)
      PROVE  Good(q)
  <2>1. Newest(q) \in Nat
    <3>1. page[q].answer # <<>> => Head(page[q].answer) \in RingEntry
      BY <1>t, HeadTailProperties
    <3>2. QED
      BY <3>1 DEF Newest, RingEntry
  <2>2. /\ DOMAIN page'[q] = DOMAIN Closed
        /\ page'[q].pc = "idle" /\ page'[q].lastId \in {page[q].lastId, Newest(q)}
        /\ page'[q].answer = <<>>
    BY <1>2, <1>9, <1>c DEF Apply
  <2>3. stream'[q] = stream[q]
    BY <1>9 DEF Apply
  <2>4. <<>> \in Seq(RingEntry) /\ Len(<<>>) <= Recent
    BY SimulatorAssumption
  <2>5. QED
    BY <1>2, <1>t, <2>1, <2>2, <2>3, <2>4 DEF PageOK
<1>10. Good(q)
  BY <1>5, <1>6, <1>7, <1>8, <1>9 DEF Streaming, Script
<1>11. QED
  BY <1>1, <1>3, <1>4, <1>10 DEF Tabs, Fields

LEMMA SimulatorInit == Init => Inv
<1> SUFFICES ASSUME Init PROVE Inv
  OBVIOUS
<1>1. events = <<>> /\ log = <<>> /\ version = 0 /\ up = "running" /\ Kept \in Nat /\ Recent \in Nat
  BY SimulatorAssumption DEF Init
<1>2. LogOK /\ RingOK
  BY <1>1 DEF LogOK, RingOK, InLog
<1>3. /\ DOMAIN page = Pages /\ DOMAIN stream = Pages
      /\ \A p \in Pages : page[p] = Closed /\ stream[p] = [pc |-> "none", seen |-> 0]
  BY DEF Init
<1>4. Fields
  BY <1>3 DEF Fields
<1>5. ASSUME NEW p \in Pages PROVE PageOK(p)
  <2>1. Closed.pc = "idle" /\ Closed.lastId = 0 /\ Closed.answer = <<>>
    BY DEF Closed
  <2>2. <<>> \in Seq(RingEntry) /\ Len(<<>>) = 0
    OBVIOUS
  <2>3. stream[p].pc = "none" /\ page[p].pc = "idle" /\ page[p].lastId = 0 /\ page[p].answer = <<>>
    BY <1>3, <2>1
  <2>4. QED
    BY <1>1, <2>2, <2>3 DEF PageOK
<1>6. QED
  BY <1>2, <1>4, <1>5 DEF Inv, Tabs

LEMMA SimulatorStep ==
    ASSUME Inv, [Next]_vars
    PROVE  Inv'
<1>1. CASE (\E drawable \in BOOLEAN : Message(drawable)) \/ ApiWrite \/ Replay
  BY <1>1, RecordStep DEF Inv, Tabs, Fields, PageOK
<1>2. ASSUME NEW q \in Pages, Streaming(q) \/ Script(q) \/ Open(q) \/ Close(q) \/ Drop(q)
      PROVE  Inv'
  <2>1. Tabs' /\ UNCHANGED <<trackerVars, up>>
    BY <1>2, TabSteps DEF Inv
  <2>2. QED
    BY <2>1 DEF Inv, LogOK, RingOK, InLog, Rooted, trackerVars
<1>3. CASE Touch
  <2>1. version \in Nat /\ version' = version + 1 /\ UNCHANGED <<events, log, up, stream, page>>
    BY <1>3 DEF Touch, Inv, LogOK
  <2>2. \A i \in DOMAIN events : events[i].id \in Nat /\ events[i].id <= version
    <3>1. \A i \in DOMAIN events : events[i] \in RingEntry /\ events[i].id <= version
      BY DEF Inv, RingOK, InLog
    <3>2. QED
      BY <3>1 DEF RingEntry
  <2>3. QED
    BY <2>1, <2>2 DEF Inv, LogOK, RingOK, InLog, Rooted, Tabs, Fields, PageOK
<1>4. CASE Stop \/ Exit
  BY <1>4 DEF Stop, Exit, Inv, LogOK, RingOK, InLog, Rooted, Tabs, Fields, PageOK, trackerVars
<1>5. CASE Restart
  <2>1. version' = 0 /\ events' = <<>> /\ up' = "running" /\ UNCHANGED <<log, stream, page>>
    BY <1>5 DEF Restart
  <2>2. LogOK' /\ RingOK'
    BY <2>1, SimulatorAssumption DEF Inv, LogOK, RingOK, InLog
  <2>3. QED
    BY <2>1, <2>2 DEF Inv, Tabs, Fields, PageOK
<1>6. CASE UNCHANGED vars
  BY <1>6 DEF vars, Inv, LogOK, RingOK, InLog, Rooted, Tabs, Fields, PageOK, trackerVars
<1>7. QED
  BY <1>1, <1>2, <1>3, <1>4, <1>5, <1>6 DEF Next

(* However many replays are clicked, whatever falls off the ring and whatever          *)
(* restarts: each entry kept is the event that was given its id, and a replay names     *)
(* the event it shows again, never a replay of it.                                      *)
THEOREM RingCorrect == Spec => []RingIsRight
<1>1. Inv => RingIsRight
  BY DEF Inv, RingIsRight, TypeOK, ReplayNamesOriginal, LogOK, RingOK, InLog, Rooted, Tabs, PageOK
<1>2. QED
  BY <1>1, SimulatorInit, SimulatorStep, PTL DEF Spec

----------------------------------------------------------------------------
(* The canvas.  A tab draws an answer it asked for earlier, beside a ring that may  *)
(* have moved on.  Both are newest first, by id and by nr, and whatever is newer    *)
(* than the tab's lastId is newer than all it has drawn: so drawing the rest of an  *)
(* answer backwards goes on where the last sync stopped.                           *)

Falling(s) == \A i, j \in DOMAIN s : i < j => s[i].nr > s[j].nr /\ s[i].id > s[j].id

Order(p) ==
    LET answer == page[p].answer
        drawn == page[p].drawn
        last == page[p].lastId
    IN  /\ Falling(answer) /\ InLog(answer)
        /\ drawn \in Seq(Nat)
        /\ \A k \in DOMAIN drawn : drawn[k] <= Len(log)
        /\ \A k, l \in DOMAIN drawn : k < l => drawn[k] < drawn[l]
        /\ \A i \in DOMAIN events, k \in DOMAIN drawn : events[i].id > last => events[i].nr > drawn[k]
        /\ \A i \in DOMAIN answer, k \in DOMAIN drawn : answer[i].id > last => answer[i].nr > drawn[k]
        /\ \A i \in DOMAIN events, j \in DOMAIN answer :
               events[i].id > answer[j].id => events[i].nr > answer[j].nr

(* Nothing is left out: an entry the tab has no reason to draw (any more) is drawn.  *)
(* An entry it asked for and one the ring has since are told apart by their ids.    *)

Has(p, e) == log[e.nr].drawable /\ e.nr > page[p].since => e.nr \in Range(page[p].drawn)

Current(p) == page[p].open /\ page[p].born = bounds.restarts

Whole(p) ==
    LET answer == page[p].answer IN
    /\ page[p].lastId <= version
    /\ page[p].first => page[p].lastId = 0
    /\ \A i \in DOMAIN events : i <= Recent /\ events[i].id <= page[p].lastId => Has(p, events[i])
    /\ page[p].pc = "answered" =>
        /\ \A j \in DOMAIN answer : answer[j].id <= version
        /\ \A j \in DOMAIN answer : answer[j].id <= page[p].lastId => Has(p, answer[j])
        /\ \A i \in DOMAIN events :
               i <= Recent /\ events[i].id <= Newest(p) => \E j \in DOMAIN answer : answer[j] = events[i]
        /\ page[p].first =>
               \A i \in DOMAIN events : events[i].nr > page[p].since => events[i].id > Newest(p)

Born(p) ==
    /\ page[p].pc = "answered" => page[p].open
    /\ page[p].open => page[p].born \in Nat /\ page[p].born >= bounds.restarts

Restarts == DOMAIN bounds = {"events", "others", "restarts"} /\ bounds.restarts \in Nat

Canvas == Falling(events) /\ Restarts /\ \A p \in Pages : Order(p) /\ Born(p) /\ (Current(p) => Whole(p))

\* What a step does to the tracker and to a tab.
Grown ==
    /\ version' = version + 1
    /\ Len(log') = Len(log) + 1 /\ \A k \in 1 .. Len(log) : log'[k] = log[k]
    /\ events' \in Seq(RingEntry)
    /\ \A i \in DOMAIN events' :
           IF i = 1 THEN events'[i].id = version + 1 /\ events'[i].nr = Len(log) + 1
           ELSE i - 1 \in DOMAIN events /\ events'[i] = events[i - 1]

Still(p) ==
    /\ page'[p].open = page[p].open /\ page'[p].born = page[p].born
    /\ page'[p].first = page[p].first /\ page'[p].since = page[p].since
    /\ page'[p].pc = page[p].pc /\ page'[p].lastId = page[p].lastId
    /\ page'[p].answer = page[p].answer /\ page'[p].drawn = page[p].drawn

Emptied(p) ==
    /\ page'[p].open => ~page[p].open /\ page'[p].born = bounds.restarts
    /\ page'[p].first = TRUE /\ page'[p].pc = "idle" /\ page'[p].lastId = 0
    /\ page'[p].answer = <<>> /\ page'[p].drawn = <<>>

Asked(p) ==
    /\ page[p].open
    /\ page'[p].open = page[p].open /\ page'[p].born = page[p].born
    /\ page'[p].since = Since(p)
    /\ page'[p].lastId = page[p].lastId /\ page'[p].drawn = page[p].drawn
    /\ \/ page'[p].pc = "answered" /\ page'[p].first = page[p].first /\ page'[p].answer = TheNewest(events, Recent)
       \/ page[p].pc = "idle" /\ page'[p].pc = "idle" /\ page'[p].first = FALSE /\ page'[p].answer = page[p].answer

Applied(p) ==
    /\ page'[p].open = page[p].open /\ page'[p].born = page[p].born
    /\ page[p].pc = "answered" /\ page'[p].pc = "idle" /\ page'[p].first = FALSE
    /\ page'[p].since = page[p].since /\ page'[p].answer = <<>>
    /\ page'[p].lastId = IF Newest(p) > page[p].lastId THEN Newest(p) ELSE page[p].lastId
    /\ \E draw \in ToDraw(p) :
           page'[p].drawn = page[p].drawn \o [i \in DOMAIN draw |-> page[p].answer[draw[i]].nr]

LEMMA TabShapes ==
    ASSUME Fields, NEW q \in Pages,
           Streaming(q) \/ Script(q) \/ Open(q) \/ Close(q) \/ Drop(q)
    PROVE  /\ UNCHANGED trackerVars
           /\ \A p \in Pages : p # q => Still(p)
           /\ Still(q) \/ Emptied(q) \/ Asked(q) \/ Applied(q)
<1>c. DOMAIN Closed = {"open", "lastId", "due", "first", "pc", "answer", "drawn", "since",
                       "failed", "born"}
  BY DEF Closed
<1> DEFINE Shaped == Still(q) \/ Emptied(q) \/ Asked(q) \/ Applied(q)
<1>2. DOMAIN page = Pages /\ DOMAIN page[q] = DOMAIN Closed
  BY DEF Fields
<1>3. UNCHANGED trackerVars /\ \A p \in Pages : p # q => page'[p] = page[p]
  BY <1>2
  DEF Streaming, StreamEnds, StreamSends, StreamResumes, Script, Reconnect, Fetch, FetchFails,
      Apply, Open, Close, Drop, trackerVars
<1>4. ASSUME StreamEnds(q) \/ StreamResumes(q) \/ Drop(q) \/ Reconnect(q) PROVE Shaped
  BY <1>4 DEF StreamEnds, StreamResumes, Drop, Reconnect, Still
<1>5. ASSUME StreamSends(q) PROVE Shaped
  BY <1>2, <1>5, <1>c DEF StreamSends, Still
<1>6. ASSUME Close(q) PROVE Shaped
  <2>1. page'[q] = Closed
    BY <1>2, <1>6 DEF Close
  <2>2. QED
    BY <2>1 DEF Closed, Emptied
<1>7. ASSUME Open(q) PROVE Shaped
  <2>1. page'[q] = [Closed EXCEPT !.open = TRUE, !.due = 1, !.born = bounds.restarts]
    BY <1>2, <1>7 DEF Open
  <2>2. /\ page'[q].born = bounds.restarts /\ page'[q].first = Closed.first
        /\ page'[q].pc = Closed.pc /\ page'[q].lastId = Closed.lastId
        /\ page'[q].answer = Closed.answer /\ page'[q].drawn = Closed.drawn
    BY <1>c, <2>1
  <2>3. ~page[q].open
    BY <1>7 DEF Open
  <2>4. QED
    BY <2>2, <2>3 DEF Closed, Emptied
<1>8. ASSUME Fetch(q) PROVE Shaped
  <2>1. /\ page[q].open
        /\ page'[q].open = page[q].open /\ page'[q].born = page[q].born
        /\ page'[q].since = Since(q)
        /\ page'[q].lastId = page[q].lastId /\ page'[q].drawn = page[q].drawn
        /\ page'[q].pc = "answered" /\ page'[q].first = page[q].first
        /\ page'[q].answer = TheNewest(events, Recent)
    BY <1>2, <1>8, <1>c DEF Fetch
  <2>2. QED
    BY <2>1 DEF Asked
<1>9. ASSUME FetchFails(q) PROVE Shaped
  <2>1. /\ page[q].open
        /\ page'[q].open = page[q].open /\ page'[q].born = page[q].born
        /\ page'[q].since = Since(q)
        /\ page'[q].lastId = page[q].lastId /\ page'[q].drawn = page[q].drawn
        /\ page[q].pc = "idle" /\ page'[q].pc = page[q].pc /\ page'[q].first = FALSE
        /\ page'[q].answer = page[q].answer
    BY <1>2, <1>9, <1>c DEF FetchFails
  <2>2. QED
    BY <2>1 DEF Asked
<1>10. ASSUME Apply(q) PROVE Shaped
  <2>1. PICK draw \in ToDraw(q) :
           page' = [page EXCEPT ![q].pc = "idle", ![q].first = FALSE, ![q].answer = <<>>,
                             ![q].lastId = IF Newest(q) > @ THEN Newest(q) ELSE @,
                             ![q].drawn = @ \o [i \in DOMAIN draw |-> page[q].answer[draw[i]].nr]]
    BY <1>10 DEF Apply
  <2>2. page[q].pc = "answered"
    BY <1>10 DEF Apply
  <2>3. /\ page'[q].pc = "idle" /\ page'[q].first = FALSE /\ page'[q].answer = <<>>
        /\ page'[q].lastId = IF Newest(q) > page[q].lastId THEN Newest(q) ELSE page[q].lastId
        /\ page'[q].drawn = page[q].drawn \o [i \in DOMAIN draw |-> page[q].answer[draw[i]].nr]
        /\ page'[q].since = page[q].since /\ page'[q].open = page[q].open /\ page'[q].born = page[q].born
    BY <1>2, <1>c, <2>1
  <2>4. QED
    BY <2>2, <2>3 DEF Applied
<1>11. Shaped
  BY <1>4, <1>5, <1>6, <1>7, <1>8, <1>9, <1>10 DEF Streaming, Script
<1>12. QED
  BY <1>3, <1>11 DEF Still

\* record() puts the new event in front and moves the others up.
LEMMA RecordShape ==
    ASSUME LogOK, RingOK, NEW source, NEW drawable, NEW replayOf \in Nat, NEW root,
           RecordEvent(source, drawable, replayOf, root)
    PROVE  Grown
<1> DEFINE entry == [id |-> version + 1, nr |-> Len(log) + 1, replayOf |-> replayOf]
           made == [source |-> source, drawable |-> drawable, root |-> root, id |-> version + 1]
           all == <<entry>> \o events
<1>1. /\ log \in Seq(LogEntry) /\ version \in Nat /\ events \in Seq(RingEntry) /\ Kept \in Nat
      /\ Len(log) \in Nat
  BY SimulatorAssumption DEF LogOK, RingOK, InLog
<1>2. version' = version + 1 /\ events' = TheNewest(all, Kept) /\ log' = Append(log, made)
  BY DEF RecordEvent
<1>3. entry \in RingEntry /\ entry.id = version + 1 /\ entry.nr = Len(log) + 1
  BY <1>1 DEF RingEntry
<1> HIDE DEF entry, made
<1>4. Len(log') = Len(log) + 1 /\ \A k \in 1 .. Len(log) : log'[k] = log[k]
  BY <1>1, <1>2
<1>5. /\ all \in Seq(RingEntry) /\ Len(all) = Len(events) + 1
      /\ \A i \in 1 .. Len(all) : all[i] = IF i <= 1 THEN <<entry>>[i] ELSE events[i - 1]
  <2>1. <<entry>> \in Seq(RingEntry) /\ Len(<<entry>>) = 1
    BY <1>3
  <2>2. /\ all \in Seq(RingEntry) /\ Len(all) = 1 + Len(events)
        /\ \A i \in 1 .. 1 + Len(events) : all[i] = IF i <= 1 THEN <<entry>>[i] ELSE events[i - 1]
    BY <1>1, <2>1, ConcatProperties
  <2> HIDE DEF all
  <2>3. QED
    BY <1>1, <2>2
<1> HIDE DEF all
<1>6. /\ events' \in Seq(RingEntry) /\ Len(events') <= Len(all)
      /\ \A i \in 1 .. Len(events') : events'[i] = all[i]
  BY <1>1, <1>2, <1>5, NewestType
<1>7. ASSUME NEW i \in DOMAIN events'
      PROVE  IF i = 1 THEN events'[i].id = version + 1 /\ events'[i].nr = Len(log) + 1
             ELSE i - 1 \in DOMAIN events /\ events'[i] = events[i - 1]
  <2>1. i \in 1 .. Len(all) /\ events'[i] = all[i]
    BY <1>1, <1>5, <1>6
  <2>2. CASE i = 1
    BY <1>3, <1>5, <2>1, <2>2
  <2>3. CASE i # 1
    BY <1>1, <1>5, <2>1, <2>3
  <2>4. QED
    BY <2>2, <2>3
<1>8. QED
  BY <1>2, <1>4, <1>6, <1>7 DEF Grown

\* The places of an answer in the order they are drawn.
LEMMA Backwards ==
    ASSUME NEW n \in Nat, NEW places \in SUBSET (1 .. n), NEW s \in OldestFirst(places)
    PROVE  /\ s \in Seq(places)
           /\ \A i, j \in DOMAIN s : i < j => s[i] > s[j]
           /\ \A x \in places : \E i \in DOMAIN s : s[i] = x
<1>1. IsFiniteSet(1 .. n)
  BY FS_Interval
<1>2. Cardinality(places) \in Nat
  BY <1>1, FS_Subset, FS_CardinalityType
<1> DEFINE m == Cardinality(places)
<1>3. s \in Bijection(1 .. m, places) /\ \A i, j \in DOMAIN s : i < j => s[i] > s[j]
  BY DEF OldestFirst
<1> HIDE DEF m
<1>4. s \in [1 .. m -> places] /\ \A x \in places : \E i \in 1 .. m : s[i] = x
  BY <1>3 DEF Bijection, Surjection
<1>5. m \in Nat
  BY <1>2 DEF m
<1>6. QED
  BY <1>3, <1>4, <1>5

LEMMA Drawing ==
    ASSUME NEW p, page[p].answer \in Seq(RingEntry), NEW draw \in ToDraw(p)
    PROVE  /\ draw \in Seq(Fresh(p))
           /\ \A i, j \in DOMAIN draw : i < j => draw[i] > draw[j]
           /\ ~page[p].first => \A x \in Fresh(p) : \E i \in DOMAIN draw : draw[i] = x
<1> DEFINE n == Len(page[p].answer)
           newest == {i \in Fresh(p) : \A j \in Fresh(p) : i <= j}
<1>1. n \in Nat /\ Fresh(p) \in SUBSET (1 .. n)
  BY DEF Fresh
<1>2. newest \in SUBSET Fresh(p)
  OBVIOUS
<1> HIDE DEF n, newest
<1>3. CASE ~page[p].first
  <2>1. draw \in OldestFirst(Fresh(p))
    BY <1>3 DEF ToDraw
  <2>2. QED
    BY <1>1, <2>1, Backwards
<1>4. CASE page[p].first /\ draw = <<>>
  BY <1>4
<1>5. CASE page[p].first /\ draw # <<>>
  <2>1. draw \in OldestFirst(newest)
    BY <1>5 DEF ToDraw, newest
  <2>2. newest \in SUBSET (1 .. n)
    BY <1>1, <1>2
  <2>3. draw \in Seq(newest) /\ \A i, j \in DOMAIN draw : i < j => draw[i] > draw[j]
    BY <1>1, <2>1, <2>2, Backwards
  <2>4. draw \in Seq(Fresh(p))
    BY <1>2, <2>3
  <2>5. QED
    BY <1>5, <2>3, <2>4
<1>6. QED
  BY <1>3, <1>4, <1>5

LEMMA OrderStill ==
    ASSUME NEW p, Order(p), Still(p), UNCHANGED <<events, log>>
    PROVE  Order(p)'
BY DEF Order, Still, InLog

LEMMA OrderEmptied ==
    ASSUME NEW p, Emptied(p)
    PROVE  Order(p)'
<1>1. page'[p].answer = <<>> /\ page'[p].drawn = <<>>
  BY DEF Emptied
<1>2. <<>> \in Seq(Nat) /\ <<>> \in Seq(RingEntry) /\ DOMAIN <<>> = {}
  OBVIOUS
<1>3. QED
  BY <1>1, <1>2 DEF Order, InLog, Falling

\* The ring is asked for as it is.
LEMMA OrderAsked ==
    ASSUME NEW p, RingOK, Falling(events), Order(p), Asked(p), UNCHANGED <<events, log>>
    PROVE  Order(p)'
<1>1. page'[p].lastId = page[p].lastId /\ page'[p].drawn = page[p].drawn
  BY DEF Asked
<1>2. CASE page'[p].answer = page[p].answer
  BY <1>1, <1>2 DEF Order, InLog
<1>3. CASE page'[p].answer = TheNewest(events, Recent)
  <2> DEFINE a == page'[p].answer
  <2>1. events \in Seq(RingEntry) /\ \A i \in DOMAIN events : events[i].nr <= Len(log) /\ log[events[i].nr].id = events[i].id
    BY DEF RingOK, InLog
  <2>2. /\ a \in Seq(RingEntry) /\ Len(a) <= Len(events) /\ \A i \in 1 .. Len(a) : a[i] = events[i]
    BY <1>3, <2>1, SimulatorAssumption, NewestType
  <2>3. \A i \in DOMAIN a : i \in DOMAIN events /\ a[i] = events[i]
    BY <2>1, <2>2
  <2>4. \A i \in DOMAIN events : events[i].id \in Nat /\ events[i].nr \in Nat
    <3>1. \A i \in DOMAIN events : events[i] \in RingEntry
      BY <2>1
    <3>2. QED
      BY <3>1 DEF RingEntry
  <2>5. \A i, j \in DOMAIN events : events[i].id > events[j].id => events[i].nr > events[j].nr
    <3>1. ASSUME NEW i \in DOMAIN events, NEW j \in DOMAIN events, events[i].id > events[j].id,
                 ~(events[i].nr > events[j].nr)
          PROVE  FALSE
      <4>1. CASE i < j
        BY <3>1, <4>1 DEF Falling
      <4>2. CASE j < i
        <5>1. events[j].id > events[i].id
          BY <4>2 DEF Falling
        <5>2. QED
          BY <2>4, <3>1, <5>1
      <4>3. CASE i = j
        BY <2>4, <3>1, <4>3
      <4>4. QED
        BY <2>1, <4>1, <4>2, <4>3
    <3>2. QED
      BY <3>1
  <2> HIDE DEF a
  <2>6. /\ Falling(a) /\ a \in Seq(RingEntry)
        /\ \A i \in DOMAIN a : a[i].nr <= Len(log) /\ log[a[i].nr].id = a[i].id
    BY <2>1, <2>2, <2>3 DEF Falling
  <2>7. /\ \A i \in DOMAIN a, k \in DOMAIN page[p].drawn :
               a[i].id > page[p].lastId => a[i].nr > page[p].drawn[k]
        /\ \A i \in DOMAIN events, j \in DOMAIN a : events[i].id > a[j].id => events[i].nr > a[j].nr
    BY <2>3, <2>5 DEF Order
  <2>8. QED
    BY <1>1, <2>6, <2>7 DEF Order, a, Falling, InLog
<1>4. QED
  BY <1>2, <1>3 DEF Asked

\* What is recorded meanwhile is newer than all there is.
LEMMA OrderGrown ==
    ASSUME NEW p, LogOK, RingOK, Order(p), Grown, page' = page
    PROVE  Order(p)'
<1> DEFINE a == page[p].answer
           d == page[p].drawn
<1>1. /\ Falling(a) /\ a \in Seq(RingEntry) /\ d \in Seq(Nat) /\ Len(log) \in Nat
      /\ \A i \in DOMAIN a : a[i].nr <= Len(log) /\ log[a[i].nr].id = a[i].id
      /\ \A k \in DOMAIN d : d[k] <= Len(log)
  BY DEF Order, InLog, LogOK
<1>2. \A i \in DOMAIN a : a[i].nr \in 1 .. Len(log)
  <2>1. \A i \in DOMAIN a : a[i] \in RingEntry
    BY <1>1
  <2>2. \A i \in DOMAIN a : a[i].nr \in Nat \ {0}
    BY <2>1 DEF RingEntry
  <2>3. QED
    BY <1>1, <2>2
<1>3. /\ Len(log') = Len(log) + 1 /\ \A k \in 1 .. Len(log) : log'[k] = log[k]
      /\ \A i \in DOMAIN events' :
             IF i = 1 THEN events'[i].id = version + 1 /\ events'[i].nr = Len(log) + 1
             ELSE i - 1 \in DOMAIN events /\ events'[i] = events[i - 1]
  BY DEF Grown
<1>n. \A k \in DOMAIN d : d[k] \in Nat
  BY <1>1
<1> HIDE DEF a, d
<1>4. \A i \in DOMAIN a : a[i].nr <= Len(log') /\ log'[a[i].nr].id = a[i].id
  BY <1>1, <1>2, <1>3
<1>5. \A k \in DOMAIN d : d[k] <= Len(log')
  BY <1>1, <1>3, <1>n
<1>6. \A i \in DOMAIN events', k \in DOMAIN d : events'[i].id > page[p].lastId => events'[i].nr > d[k]
  <2>1. ASSUME NEW i \in DOMAIN events', NEW k \in DOMAIN d, events'[i].id > page[p].lastId
        PROVE  events'[i].nr > d[k]
    <3>1. CASE i = 1
      BY <1>1, <1>3, <1>n, <3>1
    <3>2. CASE i # 1
      <4>1. i - 1 \in DOMAIN events /\ events'[i] = events[i - 1]
        BY <1>3, <3>2
      <4>2. QED
        BY <2>1, <4>1 DEF Order, d
    <3>3. QED
      BY <3>1, <3>2
  <2>2. QED
    BY <2>1
<1>7. \A i \in DOMAIN events', j \in DOMAIN a : events'[i].id > a[j].id => events'[i].nr > a[j].nr
  <2>1. ASSUME NEW i \in DOMAIN events', NEW j \in DOMAIN a, events'[i].id > a[j].id
        PROVE  events'[i].nr > a[j].nr
    <3>1. CASE i = 1
      BY <1>1, <1>2, <1>3, <3>1
    <3>2. CASE i # 1
      <4>1. i - 1 \in DOMAIN events /\ events'[i] = events[i - 1]
        BY <1>3, <3>2
      <4>2. QED
        BY <2>1, <4>1 DEF Order, a
    <3>3. QED
      BY <3>1, <3>2
  <2>2. QED
    BY <2>1
<1>8. QED
  BY <1>1, <1>4, <1>5, <1>6, <1>7 DEF Order, InLog, a, d, Falling

\* What a sync draws, by nr: entries of the answer newer than lastId, oldest first.
LEMMA Drawn ==
    ASSUME NEW p, Order(p), NEW draw \in ToDraw(p)
    PROVE  LET drew == [i \in DOMAIN draw |-> page[p].answer[draw[i]].nr] IN
           /\ drew \in Seq(Nat)
           /\ \A i \in DOMAIN drew : \E x \in Fresh(p) : drew[i] = page[p].answer[x].nr
           /\ \A i, j \in DOMAIN drew : i < j => drew[i] < drew[j]
           /\ ~page[p].first => \A x \in Fresh(p) : \E i \in DOMAIN drew : drew[i] = page[p].answer[x].nr
<1> DEFINE a == page[p].answer
           drew == [i \in DOMAIN draw |-> a[draw[i]].nr]
<1>1. a \in Seq(RingEntry) /\ Falling(a)
  BY DEF Order, InLog
<1>2. /\ draw \in Seq(Fresh(p))
      /\ \A i, j \in DOMAIN draw : i < j => draw[i] > draw[j]
      /\ ~page[p].first => \A x \in Fresh(p) : \E i \in DOMAIN draw : draw[i] = x
  BY <1>1, Drawing
<1>3. \A x \in Fresh(p) : x \in DOMAIN a /\ a[x].nr \in Nat
  <2>1. \A x \in Fresh(p) : x \in DOMAIN a
    BY DEF Fresh
  <2>2. \A x \in DOMAIN a : a[x] \in RingEntry
    BY <1>1
  <2>3. QED
    BY <2>1, <2>2 DEF RingEntry
<1>4. DOMAIN draw = 1 .. Len(draw) /\ Len(draw) \in Nat /\ \A i \in DOMAIN draw : draw[i] \in Fresh(p)
  BY <1>2
<1>5. DOMAIN drew = DOMAIN draw /\ \A i \in DOMAIN drew : drew[i] = a[draw[i]].nr
  OBVIOUS
<1>6. drew \in [1 .. Len(draw) -> Nat]
  BY <1>3, <1>4
<1>7. drew \in Seq(Nat)
  BY <1>4, <1>6
<1> HIDE DEF drew
<1>8. ASSUME NEW i \in DOMAIN drew, NEW j \in DOMAIN drew, i < j
      PROVE  drew[i] < drew[j]
  <2>1. draw[i] > draw[j] /\ draw[i] \in DOMAIN a /\ draw[j] \in DOMAIN a
    BY <1>2, <1>3, <1>4, <1>5, <1>8
  <2>2. draw[j] < draw[i]
    BY <1>1, <2>1
  <2>3. a[draw[j]].nr > a[draw[i]].nr
    BY <1>1, <2>1, <2>2 DEF Falling
  <2>4. a[draw[j]].nr \in Nat /\ a[draw[i]].nr \in Nat
    BY <1>3, <1>4, <1>5
  <2>5. QED
    BY <1>5, <2>3, <2>4
<1>9. QED
  BY <1>2, <1>4, <1>5, <1>7, <1>8 DEF drew

\* A sync goes on where the last one stopped.
LEMMA OrderApplied ==
    ASSUME NEW p, RingOK, Order(p), Applied(p), page[p].lastId \in Nat, UNCHANGED <<events, log>>
    PROVE  Order(p)'
<1> DEFINE a == page[p].answer
           d == page[p].drawn
           last == page[p].lastId
<1>1. PICK draw \in ToDraw(p) : page'[p].drawn = d \o [i \in DOMAIN draw |-> a[draw[i]].nr]
  BY DEF Applied
<1> DEFINE drew == [i \in DOMAIN draw |-> a[draw[i]].nr]
           after == page'[p].drawn
<1>2. /\ drew \in Seq(Nat)
      /\ \A i \in DOMAIN drew : \E x \in Fresh(p) : drew[i] = a[x].nr
      /\ \A i, j \in DOMAIN drew : i < j => drew[i] < drew[j]
  BY Drawn
<1>3. after = d \o drew
  BY <1>1
<1> HIDE DEF drew, after
<1>4. d \in Seq(Nat) /\ a \in Seq(RingEntry) /\ events \in Seq(RingEntry)
  BY DEF Order, RingOK, InLog
<1>5. /\ after \in Seq(Nat) /\ Len(after) = Len(d) + Len(drew)
      /\ \A k \in 1 .. Len(d) + Len(drew) : after[k] = IF k <= Len(d) THEN d[k] ELSE drew[k - Len(d)]
  BY <1>2, <1>3, <1>4, ConcatProperties
<1>6. \A k \in DOMAIN after :
          \/ k \in DOMAIN d /\ after[k] = d[k]
          \/ k > Len(d) /\ k - Len(d) \in DOMAIN drew /\ after[k] = drew[k - Len(d)]
  <2>1. /\ Len(d) \in Nat /\ Len(drew) \in Nat /\ DOMAIN d = 1 .. Len(d)
        /\ DOMAIN drew = 1 .. Len(drew) /\ DOMAIN after = 1 .. Len(d) + Len(drew)
    BY <1>2, <1>4, <1>5
  <2>2. ASSUME NEW k \in DOMAIN after
        PROVE  \/ k \in DOMAIN d /\ after[k] = d[k]
               \/ k > Len(d) /\ k - Len(d) \in DOMAIN drew /\ after[k] = drew[k - Len(d)]
    <3>1. k \in Nat /\ 1 <= k /\ k <= Len(d) + Len(drew)
      BY <2>1
    <3>2. CASE k <= Len(d)
      BY <1>5, <2>1, <3>1, <3>2
    <3>3. CASE ~(k <= Len(d))
      <4>1. k > Len(d) /\ k - Len(d) \in 1 .. Len(drew)
        BY <2>1, <3>1, <3>3
      <4>2. k \in 1 .. Len(d) + Len(drew)
        BY <2>1, <2>2
      <4>3. after[k] = drew[k - Len(d)]
        BY <1>5, <3>3, <4>2
      <4>4. QED
        BY <2>1, <4>1, <4>3
    <3>4. QED
      BY <3>2, <3>3
  <2>3. QED
    BY <2>2
<1>7. \A i \in DOMAIN events : events[i].id \in Nat /\ events[i].nr \in Nat
  <2>1. \A i \in DOMAIN events : events[i] \in RingEntry
    BY <1>4
  <2>2. QED
    BY <2>1 DEF RingEntry
<1>8. \A x \in DOMAIN a : a[x].id \in Nat /\ a[x].nr \in Nat
  <2>1. \A x \in DOMAIN a : a[x] \in RingEntry
    BY <1>4
  <2>2. QED
    BY <2>1 DEF RingEntry
<1>9. \A x \in Fresh(p) : x \in DOMAIN a /\ a[x].id > last
  BY DEF Fresh
<1>10. \A x \in DOMAIN a : a[x].id <= Newest(p)
  <2>1. ASSUME NEW x \in DOMAIN a
        PROVE  a[x].id <= Newest(p)
    <3>1. a # <<>> /\ Newest(p) = a[1].id /\ 1 \in DOMAIN a /\ x \in Nat /\ 1 <= x
      BY <1>4, <2>1, HeadTailProperties DEF Newest
    <3>2. CASE x = 1
      BY <1>8, <3>1, <3>2
    <3>3. CASE x # 1
      <4>1. 1 < x
        BY <3>1, <3>3
      <4>2. a[1].id > a[x].id
        BY <2>1, <3>1, <4>1 DEF Order, Falling
      <4>3. QED
        BY <1>8, <2>1, <3>1, <4>2
    <3>4. QED
      BY <3>2, <3>3
  <2>2. QED
    BY <2>1
<1>11. /\ page'[p].answer = <<>> /\ page'[p].lastId \in {last, Newest(p)}
       /\ page'[p].lastId = IF Newest(p) > last THEN Newest(p) ELSE last
  BY DEF Applied
<1>n. Newest(p) \in Nat
  <2>1. a # <<>> => 1 \in DOMAIN a /\ Head(a) = a[1]
    BY <1>4
  <2>2. QED
    BY <1>8, <2>1 DEF Newest
<1>12. page'[p].lastId \in Nat /\ page'[p].lastId >= last /\ page'[p].lastId >= Newest(p)
  BY <1>11, <1>n
<1> DEFINE last2 == page'[p].lastId
<1> HIDE DEF a, d, last, last2
<1>13. ASSUME NEW k \in DOMAIN after, k \in DOMAIN d
       PROVE  after[k] = d[k]
  BY <1>4, <1>5, <1>13
<1>o. /\ \A k \in DOMAIN d : d[k] <= Len(log) /\ d[k] \in Nat
      /\ \A k, l \in DOMAIN d : k < l => d[k] < d[l]
      /\ \A i \in DOMAIN events, k \in DOMAIN d : events[i].id > last => events[i].nr > d[k]
      /\ \A i \in DOMAIN a, k \in DOMAIN d : a[i].id > last => a[i].nr > d[k]
      /\ \A i \in DOMAIN events, j \in DOMAIN a : events[i].id > a[j].id => events[i].nr > a[j].nr
      /\ \A i \in DOMAIN a : a[i].nr <= Len(log)
  BY <1>4 DEF Order, InLog, a, d, last
<1>14. \A k \in DOMAIN after : after[k] <= Len(log)
  <2>1. \A i \in DOMAIN drew : drew[i] <= Len(log)
    BY <1>2, <1>9, <1>o
  <2>2. QED
    BY <1>6, <1>o, <2>1
<1>15. ASSUME NEW k \in DOMAIN after, NEW l \in DOMAIN after, k < l
       PROVE  after[k] < after[l]
  <2>0. k \in Nat /\ l \in Nat /\ Len(d) \in Nat /\ DOMAIN d = 1 .. Len(d)
    BY <1>4, <1>5, <1>15
  <2>1. CASE l \in DOMAIN d
    <3>1. k \in DOMAIN d
      BY <1>15, <2>0, <2>1, <1>5
    <3>2. QED
      BY <1>13, <1>15, <1>o, <2>1, <3>1
  <2>2. CASE l \notin DOMAIN d
    <3>1. l - Len(d) \in DOMAIN drew /\ after[l] = drew[l - Len(d)]
      BY <1>6, <2>2
    <3>2. CASE k \in DOMAIN d
      <4>1. PICK x \in Fresh(p) : drew[l - Len(d)] = a[x].nr
        BY <1>2, <3>1
      <4>2. a[x].nr > d[k] /\ d[k] \in Nat /\ a[x].nr \in Nat
        BY <1>8, <1>9, <1>o, <3>2
      <4>3. QED
        BY <1>13, <3>1, <3>2, <4>1, <4>2
    <3>3. CASE k \notin DOMAIN d
      <4>1. k - Len(d) \in DOMAIN drew /\ after[k] = drew[k - Len(d)]
        BY <1>6, <3>3
      <4>2. k - Len(d) < l - Len(d)
        BY <1>15, <2>0
      <4>3. QED
        BY <1>2, <3>1, <4>1, <4>2
    <3>4. QED
      BY <3>2, <3>3
  <2>3. QED
    BY <2>1, <2>2
<1>16. ASSUME NEW i \in DOMAIN events, NEW k \in DOMAIN after, events[i].id > last2
       PROVE  events[i].nr > after[k]
  <2>1. last2 \in Nat /\ last2 >= last /\ last2 >= Newest(p) /\ last \in Nat
    BY <1>12 DEF last, last2
  <2>2. events[i].id > last
    BY <1>7, <1>16, <2>1
  <2>3. CASE k \in DOMAIN d
    BY <1>13, <1>o, <2>2, <2>3
  <2>4. CASE k \notin DOMAIN d
    <3>1. k - Len(d) \in DOMAIN drew /\ after[k] = drew[k - Len(d)]
      BY <1>6, <2>4
    <3>2. PICK x \in Fresh(p) : drew[k - Len(d)] = a[x].nr
      BY <1>2, <3>1
    <3>3. x \in DOMAIN a /\ a[x].id <= Newest(p) /\ a[x].id \in Nat /\ events[i].id \in Nat
      BY <1>7, <1>8, <1>9, <1>10
    <3>4. events[i].id > a[x].id
      BY <1>16, <1>n, <2>1, <3>3
    <3>5. QED
      BY <1>o, <3>1, <3>2, <3>3, <3>4
  <2>5. QED
    BY <2>3, <2>4
<1>17. /\ <<>> \in Seq(RingEntry) /\ DOMAIN <<>> = {}
  OBVIOUS
<1>18. QED
  BY <1>5, <1>11, <1>14, <1>15, <1>16, <1>17 DEF Order, InLog, Falling, after, last2

\* What was drawn stays drawn, and but for the first sync all that is fresh is drawn too.
LEMMA AllDrawn ==
    ASSUME NEW p, Order(p), Applied(p)
    PROVE  /\ \A nr \in Range(page[p].drawn) : nr \in Range(page'[p].drawn)
           /\ ~page[p].first => \A x \in Fresh(p) : page[p].answer[x].nr \in Range(page'[p].drawn)
<1> DEFINE a == page[p].answer
           d == page[p].drawn
<1>1. PICK draw \in ToDraw(p) : page'[p].drawn = d \o [i \in DOMAIN draw |-> a[draw[i]].nr]
  BY DEF Applied
<1> DEFINE drew == [i \in DOMAIN draw |-> a[draw[i]].nr]
           after == page'[p].drawn
<1>2. /\ drew \in Seq(Nat)
      /\ ~page[p].first => \A x \in Fresh(p) : \E i \in DOMAIN drew : drew[i] = a[x].nr
  BY Drawn
<1>3. after = d \o drew
  BY <1>1
<1>4. d \in Seq(Nat)
  BY DEF Order
<1> HIDE DEF drew, after, a, d
<1>5. /\ after \in Seq(Nat) /\ Len(after) = Len(d) + Len(drew)
      /\ \A k \in 1 .. Len(d) + Len(drew) : after[k] = IF k <= Len(d) THEN d[k] ELSE drew[k - Len(d)]
  BY <1>2, <1>3, <1>4, ConcatProperties
<1>6. /\ Len(d) \in Nat /\ Len(drew) \in Nat /\ DOMAIN d = 1 .. Len(d)
      /\ DOMAIN drew = 1 .. Len(drew) /\ DOMAIN after = 1 .. Len(d) + Len(drew)
  BY <1>2, <1>4, <1>5
<1>7. ASSUME NEW k \in DOMAIN d PROVE d[k] \in Range(after)
  <2>1. k \in DOMAIN after /\ after[k] = d[k]
    BY <1>5, <1>6
  <2>2. QED
    BY <2>1 DEF Range
<1>8. ASSUME NEW i \in DOMAIN drew PROVE drew[i] \in Range(after)
  <2>1. /\ Len(d) + i \in 1 .. Len(d) + Len(drew) /\ ~(Len(d) + i <= Len(d))
        /\ (Len(d) + i) - Len(d) = i
    BY <1>6
  <2>2. after[Len(d) + i] = drew[i]
    BY <1>5, <2>1
  <2>3. QED
    BY <1>6, <2>1, <2>2 DEF Range
<1>9. QED
  BY <1>2, <1>7, <1>8 DEF Range, after, d, a

LEMMA NewestId ==
    ASSUME NEW p, Order(p)
    PROVE  /\ Newest(p) \in Nat
           /\ Newest(p) = 0 \/ \E i \in DOMAIN page[p].answer : page[p].answer[i].id = Newest(p)
<1> DEFINE a == page[p].answer
<1>1. a \in Seq(RingEntry)
  BY DEF Order, InLog
<1>2. \A x \in DOMAIN a : a[x].id \in Nat
  <2>1. \A x \in DOMAIN a : a[x] \in RingEntry
    BY <1>1
  <2>2. QED
    BY <2>1 DEF RingEntry
<1>3. a # <<>> => 1 \in DOMAIN a /\ Head(a) = a[1]
  BY <1>1
<1>4. QED
  BY <1>2, <1>3 DEF Newest

LEMMA RingFacts ==
    ASSUME LogOK, RingOK
    PROVE  /\ version \in Nat /\ Len(log) \in Nat /\ events \in Seq(RingEntry)
           /\ \A i \in DOMAIN events :
                /\ events[i].id \in Nat \ {0} /\ events[i].id <= version
                /\ events[i].nr \in 1 .. Len(log)
<1>1. events \in Seq(RingEntry) /\ log \in Seq(LogEntry) /\ version \in Nat
  BY DEF LogOK, RingOK, InLog
<1>2. \A i \in DOMAIN events : events[i] \in RingEntry /\ events[i].nr <= Len(log) /\ events[i].id <= version
  BY <1>1 DEF RingOK, InLog
<1>3. QED
  BY <1>1, <1>2 DEF RingEntry

LEMMA WholeStill ==
    ASSUME NEW p, Whole(p), Still(p), UNCHANGED <<events, log>>,
           version' = version \/ version' = version + 1,
           LogOK, RingOK, page[p].lastId \in Nat, Order(p)
    PROVE  Whole(p)'
<1>1. version \in Nat /\ version <= version'
  BY DEF LogOK
<1>2. \A j \in DOMAIN page[p].answer : page[p].answer[j].id \in Nat
  <2>1. \A j \in DOMAIN page[p].answer : page[p].answer[j] \in RingEntry
    BY DEF Order, InLog
  <2>2. QED
    BY <2>1 DEF RingEntry
<1>3. page[p].lastId <= version'
  BY <1>1 DEF Whole
<1>4. page[p].pc = "answered" => \A j \in DOMAIN page[p].answer : page[p].answer[j].id <= version'
  BY <1>1, <1>2 DEF Whole
<1>5. QED
  BY <1>3, <1>4 DEF Whole, Still, Has, Newest

LEMMA WholeEmptied ==
    ASSUME NEW p, LogOK, RingOK, Emptied(p), UNCHANGED <<events, log, version>>
    PROVE  Whole(p)'
<1>1. page'[p].lastId = 0 /\ page'[p].pc = "idle" /\ page'[p].first = TRUE
  BY DEF Emptied
<1>2. version \in Nat /\ \A i \in DOMAIN events : ~(events[i].id <= 0)
  BY RingFacts
<1>3. QED
  BY <1>1, <1>2 DEF Whole

\* What is recorded meanwhile has an id no sync has seen.
LEMMA WholeGrown ==
    ASSUME NEW p, LogOK, RingOK, Whole(p), Order(p), page[p].lastId \in Nat, Grown, page' = page
    PROVE  Whole(p)'
<1> DEFINE a == page[p].answer
           last == page[p].lastId
<1>1. /\ version \in Nat /\ Len(log) \in Nat
      /\ \A i \in DOMAIN events :
            /\ events[i].id \in Nat \ {0} /\ events[i].id <= version /\ events[i].nr \in 1 .. Len(log)
  BY RingFacts
<1>2. a \in Seq(RingEntry) /\ \A j \in DOMAIN a : a[j].nr <= Len(log)
  BY DEF Order, InLog
<1>3. \A j \in DOMAIN a : a[j].nr \in 1 .. Len(log) /\ a[j].id \in Nat
  <2>1. \A j \in DOMAIN a : a[j] \in RingEntry
    BY <1>2
  <2>2. QED
    BY <1>1, <1>2, <2>1 DEF RingEntry
<1>4. /\ version' = version + 1 /\ \A k \in 1 .. Len(log) : log'[k] = log[k]
      /\ events' \in Seq(RingEntry)
      /\ \A i \in DOMAIN events' :
             IF i = 1 THEN events'[i].id = version + 1 /\ events'[i].nr = Len(log) + 1
             ELSE i - 1 \in DOMAIN events /\ events'[i] = events[i - 1]
  BY DEF Grown
<1>5. last <= version /\ last \in Nat
  BY DEF Whole
<1>6. last <= version'
  BY <1>1, <1>4, <1>5
<1> DEFINE HasNow(e) == log'[e.nr].drawable /\ e.nr > page[p].since => e.nr \in Range(page[p].drawn)
<1>7. \A e : e.nr \in 1 .. Len(log) /\ Has(p, e) => HasNow(e)
  BY <1>4 DEF Has
<1> HIDE DEF HasNow
<1>8. ASSUME NEW i \in DOMAIN events', i <= Recent, events'[i].id <= last
      PROVE  HasNow(events'[i])
  <2>1. CASE i = 1
    BY <1>1, <1>4, <1>5, <1>8, <2>1
  <2>2. CASE i # 1
    <3>1. i - 1 \in DOMAIN events /\ events'[i] = events[i - 1] /\ i - 1 <= Recent
      BY <1>4, <1>8, <2>2, SimulatorAssumption
    <3>2. Has(p, events[i - 1])
      BY <1>8, <3>1 DEF Whole
    <3>3. QED
      BY <1>1, <1>7, <3>1, <3>2
  <2>3. QED
    BY <2>1, <2>2
<1>n. Newest(p) \in Nat /\ (page[p].pc = "answered" => Newest(p) <= version)
  <2>1. Newest(p) \in Nat /\ (Newest(p) = 0 \/ \E i \in DOMAIN a : a[i].id = Newest(p))
    BY NewestId
  <2>2. page[p].pc = "answered" => \A j \in DOMAIN a : a[j].id <= version
    BY DEF Whole
  <2>3. QED
    BY <1>1, <2>1, <2>2
<1>9. ASSUME page[p].pc = "answered"
      PROVE  /\ \A j \in DOMAIN a : a[j].id <= version'
             /\ \A j \in DOMAIN a : a[j].id <= last => HasNow(a[j])
             /\ \A i \in DOMAIN events' :
                   i <= Recent /\ events'[i].id <= Newest(p) => \E j \in DOMAIN a : a[j] = events'[i]
             /\ page[p].first =>
                   \A i \in DOMAIN events' : events'[i].nr > page[p].since => events'[i].id > Newest(p)
  <2>1. /\ \A j \in DOMAIN a : a[j].id <= version
        /\ \A j \in DOMAIN a : a[j].id <= last => Has(p, a[j])
        /\ \A i \in DOMAIN events :
              i <= Recent /\ events[i].id <= Newest(p) => \E j \in DOMAIN a : a[j] = events[i]
        /\ page[p].first =>
              \A i \in DOMAIN events : events[i].nr > page[p].since => events[i].id > Newest(p)
    BY <1>9 DEF Whole
  <2>2. \A j \in DOMAIN a : a[j].id <= version'
    BY <1>1, <1>3, <1>4, <2>1
  <2>3. \A j \in DOMAIN a : a[j].id <= last => HasNow(a[j])
    BY <1>3, <1>7, <2>1
  <2>4. ASSUME NEW i \in DOMAIN events', i <= Recent, events'[i].id <= Newest(p)
        PROVE  \E j \in DOMAIN a : a[j] = events'[i]
    <3>1. CASE i = 1
      BY <1>1, <1>4, <1>9, <1>n, <2>4, <3>1
    <3>2. CASE i # 1
      <4>1. i - 1 \in DOMAIN events /\ events'[i] = events[i - 1] /\ i - 1 <= Recent
        BY <1>4, <2>4, <3>2, SimulatorAssumption
      <4>2. QED
        BY <2>1, <2>4, <4>1
    <3>3. QED
      BY <3>1, <3>2
  <2>5. ASSUME page[p].first, NEW i \in DOMAIN events', events'[i].nr > page[p].since
        PROVE  events'[i].id > Newest(p)
    <3>1. CASE i = 1
      BY <1>1, <1>4, <1>9, <1>n, <3>1
    <3>2. CASE i # 1
      <4>1. i - 1 \in DOMAIN events /\ events'[i] = events[i - 1]
        BY <1>4, <3>2
      <4>2. QED
        BY <2>1, <2>5, <4>1
    <3>3. QED
      BY <3>1, <3>2
  <2>6. QED
    BY <2>2, <2>3, <2>4, <2>5
<1>10. Newest(p)' = Newest(p)
  BY DEF Newest
<1>11. QED
  BY <1>6, <1>8, <1>9, <1>10 DEF Whole, Has, HasNow

\* Of what there was at the first sync nothing is owed; of the rest the ring answers.
LEMMA WholeAsked ==
    ASSUME NEW p, LogOK, RingOK, Whole(p), Asked(p), UNCHANGED <<events, log, version>>
    PROVE  Whole(p)'
<1> DEFINE last == page[p].lastId
           a == page'[p].answer
           HasNow(e) == log[e.nr].drawable /\ e.nr > page'[p].since => e.nr \in Range(page'[p].drawn)
<1>1. /\ version \in Nat /\ Len(log) \in Nat /\ events \in Seq(RingEntry)
      /\ \A i \in DOMAIN events :
            /\ events[i].id \in Nat \ {0} /\ events[i].id <= version /\ events[i].nr \in 1 .. Len(log)
  BY RingFacts
<1>2. /\ page'[p].lastId = last /\ page'[p].drawn = page[p].drawn
      /\ page'[p].since = IF page[p].first THEN Len(log) ELSE page[p].since
  BY DEF Asked, Since
<1>3. \A i \in DOMAIN events : i <= Recent /\ events[i].id <= last => HasNow(events[i])
  <2>1. CASE page[p].first
    <3>1. last = 0
      BY <2>1 DEF Whole
    <3>2. QED
      BY <1>1, <3>1
  <2>2. CASE ~page[p].first
    <3>1. page'[p].since = page[p].since
      BY <1>2, <2>2
    <3>2. QED
      BY <1>2, <3>1 DEF Whole, Has
  <2>3. QED
    BY <2>1, <2>2
<1>4. last <= version /\ (page'[p].first => last = 0)
  <2>1. page'[p].first = page[p].first \/ page'[p].first = FALSE
    BY DEF Asked
  <2>2. QED
    BY <2>1 DEF Whole
<1>5. CASE page'[p].pc = "idle"
  BY <1>2, <1>3, <1>4, <1>5 DEF Whole, Has
<1>6. CASE page'[p].pc = "answered" /\ page'[p].first = page[p].first /\ a = TheNewest(events, Recent)
  <2>1. /\ a \in Seq(RingEntry) /\ Len(a) <= Recent /\ Len(a) <= Len(events)
        /\ \A i \in 1 .. Len(a) : a[i] = events[i]
        /\ \A i \in DOMAIN events : i <= Recent => i \in 1 .. Len(a)
    <3>1. Recent \in Nat
      BY SimulatorAssumption
    <3>2. a = TheNewest(events, Recent)
      BY <1>6
    <3> HIDE DEF a
    <3>3. QED
      BY <1>1, <3>1, <3>2, NewestType
  <2> HIDE DEF a
  <2>2. \A j \in DOMAIN a : j \in DOMAIN events /\ j <= Recent /\ a[j] = events[j]
    <3>1. Len(a) \in Nat /\ DOMAIN a = 1 .. Len(a) /\ Len(events) \in Nat /\ DOMAIN events = 1 .. Len(events)
      BY <1>1, <2>1
    <3>2. Recent \in Nat
      BY SimulatorAssumption
    <3>3. QED
      BY <2>1, <3>1, <3>2
  <2>3. \A j \in DOMAIN a : a[j].id <= version
    BY <1>1, <2>2
  <2>4. \A j \in DOMAIN a : a[j].id <= last => HasNow(a[j])
    BY <1>3, <2>2
  <2>5. \A i \in DOMAIN events : i <= Recent => \E j \in DOMAIN a : a[j] = events[i]
    BY <2>1
  <2>6. page'[p].first => \A i \in DOMAIN events : ~(events[i].nr > page'[p].since)
    BY <1>1, <1>2, <1>6
  <2>7. QED
    BY <1>2, <1>3, <1>4, <2>3, <2>4, <2>5, <2>6 DEF Whole, Has, a
<1>7. QED
  BY <1>5, <1>6 DEF Asked

LEMMA WholeApplied ==
    ASSUME NEW p, LogOK, RingOK, Order(p), Whole(p), Applied(p), page[p].lastId \in Nat,
           UNCHANGED <<events, log, version>>
    PROVE  Whole(p)'
<1> DEFINE a == page[p].answer
           last == page[p].lastId
           last2 == page'[p].lastId
<1>1. /\ version \in Nat /\ \A i \in DOMAIN events : events[i].id \in Nat \ {0}
  BY RingFacts
<1>2. /\ page[p].pc = "answered" /\ page'[p].pc = "idle" /\ page'[p].first = FALSE
      /\ page'[p].since = page[p].since
      /\ last2 = IF Newest(p) > last THEN Newest(p) ELSE last
  BY DEF Applied
<1>3. /\ last <= version /\ (page[p].first => last = 0)
      /\ \A i \in DOMAIN events : i <= Recent /\ events[i].id <= last => Has(p, events[i])
      /\ \A j \in DOMAIN a : a[j].id <= version
      /\ \A i \in DOMAIN events :
              i <= Recent /\ events[i].id <= Newest(p) => \E j \in DOMAIN a : a[j] = events[i]
      /\ page[p].first =>
              \A i \in DOMAIN events : events[i].nr > page[p].since => events[i].id > Newest(p)
  BY <1>2 DEF Whole
<1>4. Newest(p) \in Nat /\ Newest(p) <= version
  <2>1. Newest(p) \in Nat /\ (Newest(p) = 0 \/ \E i \in DOMAIN a : a[i].id = Newest(p))
    BY NewestId
  <2>2. QED
    BY <1>1, <1>3, <2>1
<1>5. /\ \A nr \in Range(page[p].drawn) : nr \in Range(page'[p].drawn)
      /\ ~page[p].first => \A x \in Fresh(p) : a[x].nr \in Range(page'[p].drawn)
  BY AllDrawn
<1>6. last2 <= version
  BY <1>2, <1>3, <1>4
<1>7. ASSUME NEW i \in DOMAIN events, i <= Recent, events[i].id <= last2,
             log[events[i].nr].drawable, events[i].nr > page[p].since
      PROVE  events[i].nr \in Range(page'[p].drawn)
  <2>1. events[i].id <= last \/ events[i].id <= Newest(p)
    BY <1>2, <1>7
  <2>2. CASE page[p].first
    <3>1. last = 0 /\ events[i].id > Newest(p)
      BY <1>3, <1>7, <2>2
    <3>2. QED
      BY <1>1, <1>4, <2>1, <3>1
  <2>3. CASE ~page[p].first /\ events[i].id <= last
    BY <1>3, <1>5, <1>7, <2>3 DEF Has
  <2>4. CASE ~page[p].first /\ ~(events[i].id <= last)
    <3>1. PICK j \in DOMAIN a : a[j] = events[i]
      BY <1>3, <1>7, <2>1, <2>4
    <3>2. events[i].id > last
      BY <1>1, <2>4
    <3>3. j \in Fresh(p)
      BY <1>7, <3>1, <3>2 DEF Fresh
    <3>4. QED
      BY <1>5, <2>4, <3>1, <3>3
  <2>5. QED
    BY <2>2, <2>3, <2>4
<1>8. QED
  BY <1>2, <1>6, <1>7 DEF Whole, Has

\* A sync that is not the first leaves nothing of its answer out.
LEMMA SyncIsWhole ==
    ASSUME NEW p, Order(p), Whole(p), Applied(p), page[p].lastId \in Nat, ~page[p].first,
           NEW i \in DOMAIN page[p].answer,
           log[page[p].answer[i].nr].drawable, page[p].answer[i].nr > page[p].since
    PROVE  page[p].answer[i].nr \in Range(page'[p].drawn)
<1> DEFINE e == page[p].answer[i]
<1>1. e.id \in Nat
  <2>1. e \in RingEntry
    BY DEF Order, InLog
  <2>2. QED
    BY <2>1 DEF RingEntry
<1>2. page[p].pc = "answered"
  BY DEF Applied
<1>3. CASE e.id <= page[p].lastId
  BY <1>2, <1>3, AllDrawn DEF Whole, Has
<1>4. CASE e.id > page[p].lastId
  <2>1. i \in Fresh(p)
    BY <1>4 DEF Fresh
  <2>2. QED
    BY <2>1, AllDrawn
<1>5. QED
  BY <1>1, <1>3, <1>4

LEMMA TabCanvas ==
    ASSUME Inv, Canvas, NEW q \in Pages,
           Streaming(q) \/ Script(q) \/ Open(q) \/ Close(q) \/ Drop(q)
    PROVE  Canvas'
<1>1. LogOK /\ RingOK /\ \A p \in Pages : page[p].lastId \in Nat
  BY DEF Inv, Tabs, PageOK
<1>2. /\ UNCHANGED trackerVars
      /\ \A p \in Pages : p # q => Still(p)
      /\ Still(q) \/ Emptied(q) \/ Asked(q) \/ Applied(q)
  BY TabShapes DEF Inv, Tabs
<1>3. Restarts' /\ bounds'.restarts = bounds.restarts
  <2>1. DOMAIN bounds = {"events", "others", "restarts"} /\ bounds.restarts \in Nat
    BY DEF Canvas, Restarts
  <2>2. CASE bounds' = bounds
    BY <2>1, <2>2 DEF Restarts
  <2>3. CASE Drop(q)
    BY <2>1, <2>3 DEF Drop, Spend, Restarts
  <2>4. CASE FetchFails(q)
    <3>1. bounds' = [bounds EXCEPT !.others = IF Serving THEN @ - 1 ELSE @]
      BY <2>4 DEF FetchFails
    <3>2. bounds'.restarts = bounds.restarts /\ DOMAIN bounds' = DOMAIN bounds
      BY <2>1, <3>1
    <3>3. QED
      BY <2>1, <3>2 DEF Restarts
  <2>5. QED
    BY <2>2, <2>3, <2>4
    DEF Streaming, StreamEnds, StreamSends, StreamResumes, Script, Reconnect, Fetch, Apply, Open, Close
<1>4. UNCHANGED <<events, log, version>>
  BY <1>2 DEF trackerVars
<1>5. ASSUME NEW p \in Pages
      PROVE  Order(p)' /\ Born(p)' /\ (Current(p)' => Whole(p)')
  <2>1. Order(p) /\ Born(p) /\ (Current(p) => Whole(p)) /\ bounds.restarts \in Nat /\ Falling(events)
    BY DEF Canvas, Restarts
  <2>2. Still(p) \/ Emptied(p) \/ Asked(p) \/ Applied(p)
    BY <1>2
  <2>3. Emptied(p) \/ (Current(p)' => Current(p))
    BY <1>3, <2>2 DEF Current, Still, Asked, Applied
  <2>4. Born(p)'
    <3>1. CASE Still(p)
      BY <1>3, <2>1, <3>1 DEF Born, Still
    <3>2. CASE Emptied(p)
      BY <1>3, <2>1, <3>2 DEF Born, Emptied
    <3>3. CASE Asked(p) \/ Applied(p)
      BY <1>3, <2>1, <3>3 DEF Born, Asked, Applied
    <3>4. QED
      BY <2>2, <3>1, <3>2, <3>3
  <2>5. Order(p)'
    BY <1>1, <1>4, <2>1, <2>2, OrderStill, OrderEmptied, OrderAsked, OrderApplied
  <2>6. Current(p)' => Whole(p)'
    <3>1. CASE Still(p)
      BY <1>1, <1>4, <2>1, <2>3, <3>1, WholeStill, WholeEmptied
    <3>2. CASE Emptied(p)
      BY <1>1, <1>4, <3>2, WholeEmptied
    <3>3. CASE Asked(p)
      BY <1>1, <1>4, <2>1, <2>3, <3>3, WholeAsked, WholeEmptied
    <3>4. CASE Applied(p)
      BY <1>1, <1>4, <2>1, <2>3, <3>4, WholeApplied, WholeEmptied
    <3>5. QED
      BY <2>2, <3>1, <3>2, <3>3, <3>4
  <2>7. QED
    BY <2>4, <2>5, <2>6
<1>6. QED
  BY <1>3, <1>4, <1>5 DEF Canvas, Falling

LEMMA RecordCanvas ==
    ASSUME Inv, Canvas, (\E drawable \in BOOLEAN : Message(drawable)) \/ ApiWrite \/ Replay
    PROVE  Canvas'
<1>1. LogOK /\ RingOK /\ \A p \in Pages : page[p].lastId \in Nat
  BY DEF Inv, Tabs, PageOK
<1>2. PICK source, drawable, replayOf, root :
           replayOf \in Nat /\ RecordEvent(source, drawable, replayOf, root)
  <2>1. ASSUME NEW drawable \in BOOLEAN, Message(drawable)
        PROVE  RecordEvent("message", drawable, 0, Len(log) + 1)
    BY <2>1 DEF Message
  <2>2. CASE ApiWrite
    BY <2>2 DEF ApiWrite
  <2>3. CASE Replay
    <3>1. PICK e \in Range(events) : RecordEvent("message", TRUE, Original(e), log[e.nr].root)
      BY <2>3 DEF Replay
    <3>2. PICK i \in DOMAIN events : e = events[i]
      BY DEF Range
    <3>3. Original(e) \in Nat
      BY <1>1, <3>2, ReplayNames
    <3>4. QED
      BY <3>1, <3>3
  <2>4. QED
    BY <2>1, <2>2, <2>3
<1>3. Grown /\ page' = page
  BY <1>1, <1>2, RecordShape DEF RecordEvent
<1>4. Restarts' /\ bounds'.restarts = bounds.restarts
  BY <1>2 DEF RecordEvent, Spend, Canvas, Restarts
<1>5. Falling(events)'
  <2>1. /\ version \in Nat /\ Len(log) \in Nat /\ events \in Seq(RingEntry)
        /\ \A i \in DOMAIN events : events[i].id <= version /\ events[i].nr \in 1 .. Len(log)
                                    /\ events[i].id \in Nat
    BY <1>1, RingFacts
  <2>2. /\ events' \in Seq(RingEntry)
        /\ \A i \in DOMAIN events' :
             IF i = 1 THEN events'[i].id = version + 1 /\ events'[i].nr = Len(log) + 1
             ELSE i - 1 \in DOMAIN events /\ events'[i] = events[i - 1]
    BY <1>3 DEF Grown
  <2>3. ASSUME NEW i \in DOMAIN events', NEW j \in DOMAIN events', i < j
        PROVE  events'[i].nr > events'[j].nr /\ events'[i].id > events'[j].id
    <3>1. i \in Nat /\ j \in Nat /\ 1 <= i /\ j # 1
      BY <2>2, <2>3
    <3>2. j - 1 \in DOMAIN events /\ events'[j] = events[j - 1]
      BY <2>2, <3>1
    <3>3. CASE i = 1
      BY <2>1, <2>2, <3>2, <3>3
    <3>4. CASE i # 1
      <4>1. i - 1 \in DOMAIN events /\ events'[i] = events[i - 1] /\ i - 1 < j - 1
        BY <2>2, <2>3, <3>1, <3>4
      <4>2. QED
        BY <3>2, <4>1 DEF Canvas, Falling
    <3>5. QED
      BY <3>3, <3>4
  <2>4. QED
    BY <2>3 DEF Falling
<1>6. ASSUME NEW p \in Pages
      PROVE  Order(p)' /\ Born(p)' /\ (Current(p)' => Whole(p)')
  <2>1. Order(p) /\ Born(p) /\ (Current(p) => Whole(p))
    BY DEF Canvas
  <2>2. Order(p)'
    BY <1>1, <1>3, <2>1, OrderGrown
  <2>3. Born(p)' /\ (Current(p)' => Current(p))
    BY <1>3, <1>4, <2>1 DEF Born, Current
  <2>4. QED
    BY <1>1, <1>3, <2>1, <2>2, <2>3, WholeGrown
<1>7. QED
  BY <1>4, <1>5, <1>6 DEF Canvas

LEMMA CanvasInit == Init => Canvas
<1> SUFFICES ASSUME Init PROVE Canvas
  OBVIOUS
<1>1. /\ events = <<>> /\ version = 0 /\ Restarts
      /\ \A p \in Pages : page[p] = Closed
  BY SimulatorAssumption DEF Init, Restarts
<1>2. /\ <<>> \in Seq(Nat) /\ <<>> \in Seq(RingEntry) /\ DOMAIN <<>> = {}
  OBVIOUS
<1>3. /\ Closed.answer = <<>> /\ Closed.drawn = <<>> /\ Closed.open = FALSE /\ Closed.pc = "idle"
  BY DEF Closed
<1>4. ASSUME NEW p \in Pages
      PROVE  Order(p) /\ Born(p) /\ ~Current(p)
  BY <1>1, <1>2, <1>3 DEF Order, InLog, Falling, Born, Current
<1>5. QED
  BY <1>1, <1>2, <1>4 DEF Canvas, Falling

LEMMA CanvasStep ==
    ASSUME Inv, Canvas, [Next]_vars
    PROVE  Canvas'
<1>1. LogOK /\ RingOK /\ \A p \in Pages : page[p].lastId \in Nat
  BY DEF Inv, Tabs, PageOK
<1>2. CASE (\E drawable \in BOOLEAN : Message(drawable)) \/ ApiWrite \/ Replay
  BY <1>2, RecordCanvas
<1>3. CASE \E q \in Pages : Streaming(q) \/ Script(q) \/ Open(q) \/ Close(q) \/ Drop(q)
  BY <1>3, TabCanvas
<1>4. CASE Touch \/ Stop \/ Exit \/ UNCHANGED vars
  <2>1. /\ UNCHANGED <<events, log, page>> /\ (version' = version \/ version' = version + 1)
        /\ bounds' = bounds \/ Spend("others")
    BY <1>4 DEF Touch, Stop, Exit, vars, trackerVars
  <2>2. Restarts' /\ bounds'.restarts = bounds.restarts
    BY <2>1 DEF Spend, Canvas, Restarts
  <2>3. ASSUME NEW p \in Pages
        PROVE  Order(p)' /\ Born(p)' /\ (Current(p)' => Whole(p)')
    <3>1. Order(p) /\ Born(p) /\ (Current(p) => Whole(p)) /\ Still(p)
      BY <2>1 DEF Canvas, Still
    <3>2. Order(p)' /\ Born(p)' /\ (Current(p)' => Current(p))
      BY <2>1, <2>2, <3>1, OrderStill DEF Born, Current
    <3>3. QED
      BY <1>1, <2>1, <3>1, <3>2, WholeStill
  <2>4. QED
    BY <2>1, <2>2, <2>3 DEF Canvas, Falling
<1>5. CASE Restart
  <2>1. events' = <<>> /\ UNCHANGED <<log, page>>
    BY <1>5 DEF Restart
  <2>2. Restarts' /\ bounds'.restarts < bounds.restarts
    BY <1>5 DEF Restart, Canvas, Restarts
  <2>3. DOMAIN <<>> = {}
    OBVIOUS
  <2>4. ASSUME NEW p \in Pages
        PROVE  Order(p)' /\ Born(p)' /\ ~Current(p)'
    <3>1. Order(p) /\ Born(p) /\ bounds.restarts \in Nat /\ bounds'.restarts \in Nat
      BY <2>2 DEF Canvas, Restarts
    <3>2. Order(p)'
      BY <2>1, <2>3, <3>1 DEF Order, InLog
    <3>3. QED
      BY <2>1, <2>2, <3>1, <3>2 DEF Born, Current
  <2>5. QED
    BY <2>1, <2>2, <2>3, <2>4 DEF Canvas, Falling
<1>6. QED
  BY <1>2, <1>3, <1>4, <1>5 DEF Next

(* Whatever is recorded between two syncs, however often the connection breaks and     *)
(* wherever a restart falls: the canvas draws no event twice and none out of its        *)
(* order, and a sync of a page that saw no restart draws all that its answer holds of   *)
(* what the panel was given since the page's first one.                                 *)
THEOREM CanvasCorrect == Spec => CanvasIsThePanel
<1> DEFINE Both == Inv /\ Canvas
           NothingOwed == \A p \in Pages : page[p].born = bounds.restarts => LeavesNothingOut(p)
<1>1. Init => Both
  BY SimulatorInit, CanvasInit
<1>2. Both /\ [Next]_vars => Both'
  BY SimulatorStep, CanvasStep
<1>3. Both => DrawnOnceInOrder
  BY DEF Canvas, Order, DrawnOnceInOrder
<1>4. Both /\ [Next]_vars => [NothingOwed]_vars
  <2> SUFFICES ASSUME Inv, Canvas, Next, NEW p \in Pages, page[p].born = bounds.restarts,
                      page[p].pc = "answered", page'[p].pc = "idle", page'[p].open, ~page[p].first,
                      NEW i \in DOMAIN page[p].answer,
                      log[page[p].answer[i].nr].drawable, page[p].answer[i].nr > page[p].since
               PROVE  page[p].answer[i].nr \in Range(page'[p].drawn)
    BY DEF LeavesNothingOut
  <2>1. page' # page
    OBVIOUS
  <2>2. PICK q \in Pages : Streaming(q) \/ Script(q) \/ Open(q) \/ Close(q) \/ Drop(q)
    BY <2>1 DEF Next, Message, ApiWrite, Replay, RecordEvent, Touch, Stop, Exit, Restart
  <2>3. /\ \A t \in Pages : t # q => Still(t)
        /\ Still(q) \/ Emptied(q) \/ Asked(q) \/ Applied(q)
    BY <2>2, TabShapes DEF Inv, Tabs
  <2>4. Order(p) /\ Whole(p) /\ page[p].open /\ page[p].lastId \in Nat
    BY DEF Canvas, Born, Current, Inv, Tabs, PageOK
  <2>5. CASE Applied(p)
    BY <2>4, <2>5, SyncIsWhole
  <2>6. CASE Emptied(p)
    BY <2>4, <2>6 DEF Emptied
  <2>7. QED
    BY <2>3, <2>5, <2>6 DEF Still, Asked
<1>5. QED
  BY <1>1, <1>2, <1>3, <1>4, PTL DEF Spec, CanvasIsThePanel, NothingLeftOut
=============================================================================

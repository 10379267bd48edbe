-------------------------- MODULE LifecycleProofs --------------------------
(* That a shutdown takes its steps in order and that exit code and probe tell what *)
(* happened, in every mode and whatever ends first. TLC runs through every state of *)
(* this module too; the proof is why it is so.                                     *)
EXTENDS Lifecycle, TLAPS

Stages == {"closing", "joining", "resetting", "stopping", "leaving"}

\* Nothing is there before Start, and only then is the panel handed to standalone.
Fresh ==
    pc = "loading" =>
        ~stop /\ ~asked /\ ~clean /\ ~displayed /\ consumer = "none" /\ label = "none"
        /\ worker = "none" /\ thread = "none"

\* What each stage of the shutdown has behind it: the consumer's part is run through
\* only with a consumer, it has ended when the worker is told to stop, and the worker
\* is told, and then stopped (or was never there), from then on.
Staged ==
    /\ pc \in {"closing", "joining"} => mode # "standalone"
    /\ pc \in {"resetting", "stopping", "leaving"} => consumer \in {"none", "ended"}
    /\ worker \in {"stopping", "stopped"} => pc \in {"stopping", "leaving", "exited"}
    /\ pc = "stopping" => worker \in {"none", "stopping"}
    /\ pc = "leaving" => worker \in {"none", "stopped"} /\ ~displayed
    /\ pc = "waiting" /\ mode = "standalone" => displayed
    /\ displayed => worker \in {"running", "stopping"} /\ mode = "standalone"

\* A thread that outlives stop() is one the join gave up on, and only a message makes
\* it fetch.
Outlives ==
    /\ thread = "fetching" => Consumes(mode)
    /\ gaveUp => Consumes(mode)
    /\ worker = "none" => thread = "none"
    /\ worker = "stopped" /\ Draws => gaveUp

\* Why the shutdown began: `stop` is set by a signal until _run() looks up from its
\* wait, and what it then returns is a shutdown only if a signal asked for one.
Caused ==
    /\ pc = "waiting" /\ stop => asked
    /\ clean => asked
    /\ pc \in Stages /\ ~clean => label = "failed" \/ mode = "standalone"
    /\ label = "failed" => consumer = "ended" /\ ~clean /\ pc \notin {"loading", "waiting"}

LifecycleInv ==
    TypeOK /\ ConsumerEndsFirst /\ LeavesDark /\ ExitCodeTells /\ ProbeIsRight /\ Fresh /\ Staged
    /\ Outlives /\ Caused

LEMMA LifecycleInit == Init => LifecycleInv
  <1> SUFFICES ASSUME Init PROVE LifecycleInv
    OBVIOUS
  <1>1. TypeOK
    BY DEF Init, TypeOK, Modes
  <1>2. ConsumerEndsFirst /\ LeavesDark /\ ExitCodeTells /\ ProbeIsRight /\ Fresh /\ Staged /\ Outlives /\ Caused
    BY DEF Init, ConsumerEndsFirst, LeavesDark, Draws, ExitCodeTells, ProbeIsRight, Health, Fresh, Staged,
           Outlives, Caused, Stages
  <1> QED BY <1>1, <1>2 DEF LifecycleInv

LEMMA TypeStep ==
    ASSUME TypeOK, Fresh, Staged, [Next]_vars
    PROVE  TypeOK'
  <1> USE DEF TypeOK, Fresh, Staged, Modes, runVars, partVars, workVars, webVars
  <1>1. CASE Refused
    BY <1>1 DEF Refused
  <1>2. CASE Start
    BY <1>2 DEF Start, Consumes, Panel
  <1>3. CASE Signal
    BY <1>3 DEF Signal
  <1>4. CASE ConsumerReads
    BY <1>4 DEF ConsumerReads
  <1>5. CASE ConsumerFails
    BY <1>5 DEF ConsumerFails
  <1>6. CASE ConsumerSubmits
    BY <1>6 DEF ConsumerSubmits, Late
  <1>7. CASE ThreadDies
    BY <1>7 DEF ThreadDies
  <1>8. CASE ServerFails
    <2>1. {stop, asked, displayed, gaveUp, shouldExit, open', writing', portTaken} \subseteq BOOLEAN
      BY <1>8 DEF ServerFails
    <2> QED BY <1>8, <2>1 DEF ServerFails
  <1>9. CASE PortTaken
    BY <1>9 DEF PortTaken
  <1>10. CASE StreamOpens
    BY <1>10 DEF StreamOpens
  <1>11. CASE StreamStops
    <2>1. {stop, asked, displayed, gaveUp, shouldExit, open', writing', portTaken} \subseteq BOOLEAN
      BY <1>11 DEF StreamStops
    <2> QED BY <1>11, <2>1 DEF StreamStops
  <1>12. CASE WriteArrives
    BY <1>12 DEF WriteArrives
  <1>13. CASE WriteEnds
    <2>1. {stop, asked, displayed, gaveUp, shouldExit, open', writing', portTaken} \subseteq BOOLEAN
      BY <1>13 DEF WriteEnds
    <2> QED BY <1>13, <2>1 DEF WriteEnds, Late
  <1>14. CASE ServerEnds
    BY <1>14 DEF ServerEnds
  <1>15. CASE NoticeConsumer
    BY <1>15 DEF NoticeConsumer, Return, Consumes
  <1>16. CASE NoticeStop
    BY <1>16 DEF NoticeStop, Return, Consumes
  <1>17. CASE Closed
    BY <1>17 DEF Closed
  <1>18. CASE Joined
    BY <1>18 DEF Joined
  <1>19. CASE NoticeStandalone
    BY <1>19 DEF NoticeStandalone, Return, Consumes
  <1>20. CASE Reset
    BY <1>20 DEF Reset
  <1>21. CASE Leave
    BY <1>21 DEF Leave
  <1>22. CASE UNCHANGED vars
    BY <1>22 DEF vars
  <1>23. CASE FetchBegins
    BY <1>23 DEF FetchBegins
  <1>24. CASE FetchEnds
    BY <1>24 DEF FetchEnds
  <1>25. CASE ThreadStops
    BY <1>25 DEF ThreadStops
  <1>26. CASE ResetBegins
    BY <1>26 DEF ResetBegins
  <1> QED
    BY <1>1, <1>2, <1>3, <1>4, <1>5, <1>6, <1>7, <1>8, <1>9, <1>10, <1>11, <1>12, <1>13, <1>14,
       <1>15, <1>16, <1>17, <1>18, <1>19, <1>20, <1>21, <1>22, <1>23, <1>24, <1>25, <1>26
       DEF Next, Proceed

\* One step per action: what runs beside _run(), then _run() itself.
LEMMA LifecycleStep ==
    ASSUME LifecycleInv, TypeOK', [Next]_vars
    PROVE  LifecycleInv'
  <1> USE DEF LifecycleInv, TypeOK, ConsumerEndsFirst, LeavesDark, Draws, ExitCodeTells, ProbeIsRight,
              Health, Alive, WorkerDead, Fresh, Staged, Outlives, Consumes, Caused, Stages, Modes,
              runVars, partVars, workVars, webVars, Running, LoopRuns
  <1>1. CASE Refused
    BY <1>1 DEF Refused
  <1>2. CASE Start
    <2>1. CASE Consumes(mode)
      BY <1>2, <2>1 DEF Start, Consumes, Panel
    <2>2. CASE ~Consumes(mode)
      <3>1. mode = "standalone"
        BY <2>2 DEF Consumes
      <3>2. worker' = "running" /\ thread' = "drawing" /\ consumer' = "none" /\ label' = "none"
        BY <1>2, <2>2, <3>1 DEF Start, Panel
      <3>3. displayed' /\ pc' = "waiting" /\ UNCHANGED <<mode, clean, code, stop, asked, late, gaveUp>>
        BY <1>2, <2>2 DEF Start
      <3> QED BY <1>2, <3>1, <3>2, <3>3 DEF Start
    <2> QED BY <2>1, <2>2
  <1>3. CASE Signal
    BY <1>3 DEF Signal
  <1>4. CASE ConsumerReads
    BY <1>4 DEF ConsumerReads
  <1>5. CASE ConsumerFails
    BY <1>5 DEF ConsumerFails
  <1>6. CASE ConsumerSubmits
    BY <1>6 DEF ConsumerSubmits, Late
  <1>7. CASE ThreadDies
    BY <1>7 DEF ThreadDies
  <1>8. CASE ServerFails
    BY <1>8 DEF ServerFails
  <1>9. CASE PortTaken
    BY <1>9 DEF PortTaken
  <1>10. CASE StreamOpens
    BY <1>10 DEF StreamOpens
  <1>11. CASE StreamStops
    BY <1>11 DEF StreamStops
  <1>12. CASE WriteArrives
    BY <1>12 DEF WriteArrives
  <1>13. CASE WriteEnds
    BY <1>13 DEF WriteEnds, Late
  <1>14. CASE ServerEnds
    BY <1>14 DEF ServerEnds
  <1>15. CASE NoticeConsumer
    BY <1>15 DEF NoticeConsumer, Return, Consumes
  <1>16. CASE NoticeStop
    BY <1>16 DEF NoticeStop, Return, Consumes
  <1>17. CASE Closed
    BY <1>17 DEF Closed
  <1>18. CASE Joined
    BY <1>18 DEF Joined
  <1>19. CASE NoticeStandalone
    BY <1>19 DEF NoticeStandalone, Return, Consumes
  <1>20. CASE Reset
    <2>1. pc = "stopping" /\ pc' = "leaving" /\ ~displayed' /\ gaveUp' = (thread = "fetching")
          /\ worker' = (IF worker = "none" THEN "none" ELSE "stopped") /\ JoinEnds
          /\ UNCHANGED <<mode, clean, code, stop, asked, consumer, label, thread, server, late, portTaken>>
      BY <1>20 DEF Reset
    <2>2. worker' = "stopped" /\ Draws' => gaveUp'
      BY <2>1 DEF JoinEnds
    <2>3. gaveUp' => Consumes(mode')
      BY <2>1
    <2> QED BY <2>1, <2>2, <2>3
  <1>21. CASE Leave
    <2>1. pc = "leaving" /\ pc' = "exited"
          /\ UNCHANGED <<mode, clean, stop, asked, consumer, label, workVars, server, late, portTaken>>
      BY <1>21 DEF Leave
    <2>2. CASE server = "failed"
      <3>1. code' \in {0, 1} /\ (code' = 0 => clean)
        BY <1>21, <2>2 DEF Leave
      <3> QED BY <2>1, <2>2, <3>1
    <2>3. CASE server # "failed"
      <3>1. code' = IF clean THEN 0 ELSE 1
        BY <1>21, <2>3 DEF Leave
      <3> QED BY <2>1, <2>3, <3>1
    <2> QED BY <2>2, <2>3
  <1>22. CASE UNCHANGED vars
    BY <1>22 DEF vars
  <1>23. CASE FetchBegins
    BY <1>23 DEF FetchBegins
  <1>24. CASE FetchEnds
    BY <1>24 DEF FetchEnds
  <1>25. CASE ThreadStops
    BY <1>25 DEF ThreadStops
  <1>26. CASE ResetBegins
    BY <1>26 DEF ResetBegins
  <1> QED
    BY <1>1, <1>2, <1>3, <1>4, <1>5, <1>6, <1>7, <1>8, <1>9, <1>10, <1>11, <1>12, <1>13, <1>14,
       <1>15, <1>16, <1>17, <1>18, <1>19, <1>20, <1>21, <1>22, <1>23, <1>24, <1>25, <1>26
       DEF Next, Proceed

LEMMA LifecycleInvariant == Spec => []LifecycleInv
  <1>1. LifecycleInv /\ [Next]_vars => LifecycleInv'
    BY TypeStep, LifecycleStep DEF LifecycleInv
  <1> QED BY <1>1, LifecycleInit, PTL DEF Spec

(* The consumer is closed and awaited before the worker is stopped, so no message is   *)
(* handed to a stopped worker; and the process leaves with the panel's thread still     *)
(* drawing only if a fetch outlasted the join of stop(), or uvicorn takes the whole     *)
(* process down.                                                                     *)
THEOREM ShutdownInOrder == Spec => []StopsInOrder
  <1>1. LifecycleInv => StopsInOrder
    BY DEF LifecycleInv, StopsInOrder
  <1> QED BY <1>1, LifecycleInvariant, PTL

(* What the process tells by its exit code and by /healthz is what happened, whatever   *)
(* came first, and a consumer that failed is never reported as merely stopped.         *)
THEOREM ExitTells == Spec => TellsWhatHappened
  <1>1. LifecycleInv => ExitCodeTells /\ ProbeIsRight
    BY DEF LifecycleInv
  <1>2. LifecycleInv /\ [Next]_vars => [label = "failed" => label' = "failed"]_vars
    <2> SUFFICES ASSUME LifecycleInv, Next, label = "failed" PROVE label' = "failed"
      OBVIOUS
    <2>1. consumer = "ended" /\ pc # "loading"
      BY DEF LifecycleInv, Caused
    <2> QED
      BY <2>1
      DEF Next, Proceed, Refused, Start, Signal, ConsumerReads, ConsumerFails, ConsumerSubmits,
          FetchBegins, FetchEnds, ThreadStops, ThreadDies, ServerFails, PortTaken, StreamOpens, StreamStops, WriteArrives, WriteEnds,
          ServerEnds, NoticeConsumer, NoticeStop, Closed, Joined, NoticeStandalone,
          ResetBegins, Reset, Leave, partVars
  <1> QED BY <1>1, <1>2, LifecycleInvariant, PTL DEF Spec, TellsWhatHappened, FailureStays
=============================================================================

-------------------------- MODULE DisplayApiProofs --------------------------
(* What the rate limiter promises for every limit and window, that the /display   *)
(* API spends from it only as it promises, and what a refused request leaves.     *)
EXTENDS DisplayApi, TLAPS

(* The inductive invariant: `_hits` is the tail of all grants, in order, and what  *)
(* was popped from it was a window old. AtMostLimit alone says nothing of _hits,   *)
(* which is all that acquire() looks at.                                          *)
Popping(n) ==
    /\ hits \in Seq(Nat) /\ granted \in Seq(Nat) /\ clock \in Nat
    /\ n \in Nat /\ Len(granted) = n + Len(hits)
    /\ \A i \in 1 .. Len(hits) : hits[i] = granted[n + i]
    /\ \A i \in 1 .. n : clock - granted[i] >= Window

Ordered ==
    /\ \A i, j \in DOMAIN granted : i <= j => granted[i] <= granted[j]
    /\ \A i \in DOMAIN granted : granted[i] <= clock

LimiterInv == (\E n \in Nat : Popping(n)) /\ Ordered /\ Len(hits) <= Limit /\ AtMostLimit

LEMMA Appended ==
    ASSUME NEW s \in Seq(Nat), NEW e \in Nat
    PROVE  /\ Append(s, e) \in Seq(Nat)
           /\ Len(s) \in Nat /\ Len(Append(s, e)) = Len(s) + 1
           /\ \A i \in 1 .. Len(s) : Append(s, e)[i] = s[i]
           /\ Append(s, e)[Len(s) + 1] = e
  OBVIOUS

\* What a pop leaves: a later part of the same tail.
LEMMA PopLeavesTail ==
    ASSUME NEW n \in Nat, Popping(n), NEW k \in 0 .. Len(hits), Popped(k)
    PROVE  /\ Left(k) \in Seq(Nat) /\ Len(Left(k)) = Len(hits) - k
           /\ n + k \in Nat
           /\ Len(granted) = (n + k) + Len(Left(k))
           /\ \A i \in 1 .. Len(Left(k)) : Left(k)[i] = granted[(n + k) + i]
           /\ \A i \in 1 .. n + k : clock - granted[i] >= Window
  <1>1. hits \in Seq(Nat) /\ Len(hits) \in Nat /\ k \in Nat /\ k <= Len(hits)
        /\ Len(granted) = n + Len(hits)
    BY DEF Popping
  <1>2. Len(Left(k)) = Len(hits) - k /\ Left(k) \in Seq(Nat)
    BY <1>1 DEF Left
  <1>3. \A i \in 1 .. Len(Left(k)) : Left(k)[i] = hits[k + i]
    BY <1>1, <1>2 DEF Left
  <1>4. \A i \in 1 .. Len(Left(k)) : Left(k)[i] = granted[(n + k) + i]
    <2> TAKE i \in 1 .. Len(Left(k))
    <2>1. k + i \in 1 .. Len(hits)
      BY <1>1, <1>2
    <2>2. hits[k + i] = granted[n + (k + i)]
      BY <2>1 DEF Popping
    <2>3. n + (k + i) = (n + k) + i
      BY <1>1
    <2> QED BY <1>3, <2>2, <2>3
  <1>5. \A i \in 1 .. n + k : clock - granted[i] >= Window
    <2> TAKE i \in 1 .. n + k
    <2>1. CASE i <= n
      BY <2>1 DEF Popping
    <2>2. CASE i > n
      <3>1. i - n \in 1 .. k /\ i - n \in 1 .. Len(hits) /\ n + (i - n) = i
        BY <1>1, <2>2
      <3>2. hits[i - n] = granted[i]
        BY <3>1 DEF Popping
      <3>3. clock - hits[i - n] >= Window
        BY <3>1 DEF Popped
      <3> QED BY <3>2, <3>3
    <2> QED BY <2>1, <2>2, <1>1
  <1> QED BY <1>1, <1>2, <1>4, <1>5

\* The grant after which one more is given lies Limit places back, and was popped.
LEMMA GrantKeepsLimit ==
    ASSUME NEW n \in Nat, Popping(n), Ordered, AtMostLimit,
           NEW k \in 0 .. Len(hits), Popped(k), Len(Left(k)) < Limit,
           granted' = Append(granted, clock), clock' = clock
    PROVE  AtMostLimit' /\ Ordered'
  <1> USE LimiterAssumption
  <1>1. granted \in Seq(Nat) /\ clock \in Nat /\ Len(granted) \in Nat
    BY DEF Popping
  <1>2. granted' \in Seq(Nat) /\ Len(granted') = Len(granted) + 1
        /\ granted'[Len(granted) + 1] = clock
        /\ \A i \in 1 .. Len(granted) : granted'[i] = granted[i]
        /\ DOMAIN granted' = 1 .. Len(granted) + 1 /\ DOMAIN granted = 1 .. Len(granted)
    BY <1>1
  <1>3. /\ Len(granted) = (n + k) + Len(Left(k)) /\ n + k \in Nat /\ Len(Left(k)) \in Nat
        /\ \A i \in 1 .. n + k : clock - granted[i] >= Window
    BY PopLeavesTail, <1>1
  <1>4. AtMostLimit'
    <2> SUFFICES ASSUME NEW i \in DOMAIN granted', i + Limit \in DOMAIN granted'
                 PROVE  granted'[i + Limit] - granted'[i] >= Window
      BY DEF AtMostLimit
    <2>1. CASE i + Limit <= Len(granted)
      <3>1. i \in 1 .. Len(granted) /\ i + Limit \in 1 .. Len(granted)
        BY <2>1, <1>1, <1>2
      <3> QED BY <3>1, <1>2 DEF AtMostLimit
    <2>2. CASE i + Limit = Len(granted) + 1
      <3>1. i \in 1 .. n + k /\ i \in 1 .. Len(granted)
        BY <2>2, <1>1, <1>2, <1>3
      <3>2. clock - granted[i] >= Window
        BY <3>1, <1>3
      <3>3. granted'[i] = granted[i]
        BY <3>1, <1>2
      <3> QED BY <2>2, <3>2, <3>3, <1>2
    <2> QED BY <2>1, <2>2, <1>1, <1>2
  <1>5. Ordered'
    <2>1. \A i \in DOMAIN granted' : granted'[i] <= clock
      BY <1>1, <1>2 DEF Ordered
    <2>2. \A i, j \in DOMAIN granted' : i <= j => granted'[i] <= granted'[j]
      <3> TAKE i, j \in DOMAIN granted'
      <3>1. CASE j <= Len(granted)
        BY <3>1, <1>1, <1>2 DEF Ordered
      <3>2. CASE j = Len(granted) + 1
        BY <3>2, <1>2, <2>1
      <3> QED BY <3>1, <3>2, <1>1, <1>2
    <2> QED BY <2>1, <2>2 DEF Ordered
  <1> QED BY <1>4, <1>5

LEMMA AcquireKeeps == ASSUME LimiterInv, Acquire PROVE LimiterInv'
  <1> USE LimiterAssumption
  <1>1. PICK n \in Nat : Popping(n)
    BY DEF LimiterInv
  <1>2. PICK k \in 0 .. Len(hits) :
            Popped(k) /\ Len(Left(k)) < Limit /\ hits' = Append(Left(k), clock)
            /\ granted' = Append(granted, clock) /\ clock' = clock
    BY DEF Acquire
  <1>3. Ordered /\ AtMostLimit
    BY DEF LimiterInv
  <1>4. AtMostLimit' /\ Ordered'
    BY <1>1, <1>2, <1>3, GrantKeepsLimit
  <1>5. /\ Left(k) \in Seq(Nat) /\ Len(Left(k)) = Len(hits) - k /\ n + k \in Nat
        /\ Len(granted) = (n + k) + Len(Left(k))
        /\ \A i \in 1 .. Len(Left(k)) : Left(k)[i] = granted[(n + k) + i]
        /\ \A i \in 1 .. n + k : clock - granted[i] >= Window
    BY <1>1, <1>2, PopLeavesTail
  <1>6. granted \in Seq(Nat) /\ clock \in Nat /\ hits \in Seq(Nat) /\ Len(hits) \in Nat
    BY <1>1 DEF Popping
  <1>7. Popping(n + k)'
    <2>1. hits' \in Seq(Nat) /\ granted' \in Seq(Nat) /\ clock' \in Nat
      BY <1>2, <1>5, <1>6
    <2>2. Len(hits') = Len(Left(k)) + 1 /\ Len(granted') = Len(granted) + 1
          /\ Len(granted) \in Nat /\ Len(Left(k)) \in Nat
      BY <1>2, <1>5, <1>6, Appended
    <2>3. \A i \in 1 .. Len(hits') : hits'[i] = granted'[(n + k) + i]
      <3> TAKE i \in 1 .. Len(hits')
      <3>1. CASE i <= Len(Left(k))
        <4>1. (n + k) + i \in 1 .. Len(granted) /\ i \in 1 .. Len(Left(k))
          BY <3>1, <2>2, <1>5
        <4>2. hits'[i] = Left(k)[i]
          BY <4>1, <1>2, <1>5, <1>6, Appended
        <4>3. granted'[(n + k) + i] = granted[(n + k) + i]
          BY <4>1, <1>2, <1>6, Appended
        <4> QED BY <4>1, <4>2, <4>3, <1>5
      <3>2. CASE i = Len(Left(k)) + 1
        BY <3>2, <1>2, <1>5, <1>6, <2>2
      <3> QED BY <3>1, <3>2, <2>2
    <2>4. \A i \in 1 .. n + k : clock' - granted'[i] >= Window
      <3> TAKE i \in 1 .. n + k
      <3>1. i \in 1 .. Len(granted)
        BY <1>5, <2>2
      <3> QED BY <3>1, <1>2, <1>5, <1>6
    <2> QED BY <1>5, <2>1, <2>2, <2>3, <2>4 DEF Popping
  <1>8. Len(hits') <= Limit
    BY <1>2, <1>5, <1>6
  <1> QED BY <1>4, <1>5, <1>7, <1>8 DEF LimiterInv

LEMMA RefuseKeeps == ASSUME LimiterInv, NEW wait, Refuse(wait) PROVE LimiterInv'
  <1> USE LimiterAssumption
  <1>1. PICK n \in Nat : Popping(n)
    BY DEF LimiterInv
  <1>2. PICK k \in 0 .. Len(hits) :
            Popped(k) /\ hits' = Left(k) /\ clock' = clock /\ granted' = granted
    BY DEF Refuse
  <1>3. /\ Left(k) \in Seq(Nat) /\ Len(Left(k)) = Len(hits) - k /\ n + k \in Nat
        /\ Len(granted) = (n + k) + Len(Left(k))
        /\ \A i \in 1 .. Len(Left(k)) : Left(k)[i] = granted[(n + k) + i]
        /\ \A i \in 1 .. n + k : clock - granted[i] >= Window
    BY <1>1, <1>2, PopLeavesTail
  <1>4. granted \in Seq(Nat) /\ clock \in Nat /\ hits \in Seq(Nat) /\ Len(hits) \in Nat
    BY <1>1 DEF Popping
  <1>5. Popping(n + k)'
    BY <1>2, <1>3, <1>4 DEF Popping
  <1>6. Len(hits') <= Limit
    BY <1>2, <1>3, <1>4 DEF LimiterInv
  <1>7. Ordered' /\ AtMostLimit'
    BY <1>2 DEF LimiterInv, Ordered, AtMostLimit
  <1> QED BY <1>3, <1>5, <1>6, <1>7 DEF LimiterInv

LEMMA TickKeeps == ASSUME LimiterInv, Tick PROVE LimiterInv'
  <1> USE LimiterAssumption
  <1>1. PICK n \in Nat : Popping(n)
    BY DEF LimiterInv
  <1>2. clock' \in Nat /\ clock' > clock /\ hits' = hits /\ granted' = granted
    BY DEF Tick
  <1>3. Popping(n)'
    <2>1. \A i \in 1 .. n : granted[i] \in Nat
      BY <1>1 DEF Popping
    <2> QED BY <1>1, <1>2, <2>1 DEF Popping
  <1>4. Ordered' /\ AtMostLimit' /\ Len(hits') <= Limit
    <2>1. \A i \in DOMAIN granted : granted[i] \in Nat /\ granted[i] <= clock
      BY <1>1 DEF LimiterInv, Ordered, Popping
    <2>2. clock \in Nat
      BY <1>1 DEF Popping
    <2> QED BY <1>2, <2>1, <2>2 DEF LimiterInv, Ordered, AtMostLimit
  <1> QED BY <1>3, <1>4 DEF LimiterInv

LEMMA StartsLimited == LimiterInit => LimiterInv
  <1> SUFFICES ASSUME LimiterInit PROVE LimiterInv
    OBVIOUS
  <1>1. Popping(0)
    BY DEF LimiterInit, Popping
  <1> QED BY <1>1, LimiterAssumption DEF LimiterInit, LimiterInv, Ordered, AtMostLimit

LEMMA StaysLimited == LimiterInv /\ [LimiterNext]_limiterVars => LimiterInv'
  <1> SUFFICES ASSUME LimiterInv, [LimiterNext]_limiterVars PROVE LimiterInv'
    OBVIOUS
  <1>1. CASE UNCHANGED limiterVars
    BY <1>1 DEF limiterVars, LimiterInv, Popping, Ordered, AtMostLimit
  <1> QED BY <1>1, AcquireKeeps, RefuseKeeps, TickKeeps DEF LimiterNext

(* For every limit and window: at most Limit grants in any window of time.         *)
THEOREM LimiterHolds == LimiterSpec => []AtMostLimit
  <1>1. LimiterInv => AtMostLimit
    BY DEF LimiterInv
  <1> QED BY <1>1, StartsLimited, StaysLimited, PTL DEF LimiterSpec

\* A refusal is never the limiter's mistake, and the wait it returns is exact.
LEMMA RefusesRightly ==
    ASSUME LimiterInv, NEW wait, Refuse(wait)
    PROVE  /\ Len(granted) >= Limit
           /\ granted[Len(granted) - Limit + 1] + Window - clock = wait
  <1> USE LimiterAssumption
  <1>1. PICK n \in Nat : Popping(n)
    BY DEF LimiterInv
  <1>2. PICK k \in 0 .. Len(hits) :
            Popped(k) /\ Len(Left(k)) >= Limit /\ wait = Window - (clock - Left(k)[1])
    BY DEF Refuse
  <1>3. /\ Left(k) \in Seq(Nat) /\ Len(Left(k)) = Len(hits) - k /\ n + k \in Nat
        /\ Len(granted) = (n + k) + Len(Left(k))
        /\ \A i \in 1 .. Len(Left(k)) : Left(k)[i] = granted[(n + k) + i]
    BY <1>1, <1>2, PopLeavesTail
  <1>4. clock \in Nat /\ Len(hits) \in Nat /\ Len(hits) <= Limit
    BY <1>1 DEF Popping, LimiterInv
  <1>5. k = 0 /\ Len(Left(k)) = Limit /\ Len(hits) = Limit
    BY <1>2, <1>3, <1>4
  <1>6. Len(granted) = n + Limit /\ n = Len(granted) - Limit
    BY <1>3, <1>5
  <1>7. 1 \in 1 .. Len(Left(k)) /\ Left(k)[1] = granted[n + 1] /\ Left(k)[1] \in Nat
    BY <1>3, <1>5
  <1>8. clock - granted[n + 1] < Window
    <2>1. clock - hits[1] < Window
      BY <1>2, <1>5 DEF Popped
    <2>2. hits[1] = granted[n + 1]
      BY <1>1, <1>5 DEF Popping
    <2> QED BY <2>1, <2>2
  <1> QED BY <1>2, <1>4, <1>6, <1>7, <1>8
-----------------------------------------------------------------------------
\* What every step of the API is to its limiter.
LEMMA SpendsOnly == [Next]_vars => [LimiterNext]_limiterVars
  <1> SUFFICES ASSUME [Next]_vars PROVE [LimiterNext]_limiterVars
    OBVIOUS
  <1>1. CASE UNCHANGED vars
    BY <1>1 DEF vars, clocks
  <1>2. ASSUME NEW r \in Requests, NEW call \in Calls,
               Unauthorized(r, call) \/ Admit(r, call) \/ TurnAway(r, call)
        PROVE  [LimiterNext]_limiterVars
    BY <1>2 DEF Unauthorized, Admit, TurnAway, LimiterNext, clocks
  <1>3. ASSUME NEW r \in Requests, Endpoint(r) PROVE UNCHANGED limiterVars
    BY <1>3 DEF Endpoint, StartFetch, MissingFile, Fetched, FetchFails, PostDisplay, PutIdle,
                RefuseIdle, PutPlaylist, DeletePlaylist, DeleteDisplay, clocks
  <1>4. CASE RunsOut \/ IdleFails \/ Later \/ ClockIsSet
    BY <1>4 DEF RunsOut, IdleFails, Later, ClockIsSet, LimiterNext, clocks
  <1> QED BY <1>1, <1>2, <1>3, <1>4 DEF Next

(* The API's writes are the limiter's grants: it implements the limiter, so what    *)
(* that promises holds of overlapping requests, for any number of them.            *)
THEOREM ApiIsLimited == Spec => LimiterSpec /\ []AtMostLimit
  <1>1. Init => LimiterInit
    BY DEF Init
  <1>2. Spec => LimiterSpec
    BY <1>1, SpendsOnly, PTL DEF Spec, LimiterSpec
  <1> QED BY <1>2, LimiterHolds, PTL
-----------------------------------------------------------------------------
Req == [pc : {"sent", "running", "fetching", "answered"}, call : Calls \cup {[op |-> "none"]},
        left : Seq({"file", "url", "missing"}), status : Nat, retry : Nat]
Lists == [by : Requests \cup {"nobody"}, until : Nat]

(* What the router and the worker agree on between steps: the worker may have      *)
(* dropped a playlist the router still keeps, but only one that has run out, or had *)
(* before the wall clock was set back.                                             *)
Agree ==
    /\ req \in [Requests -> Req] /\ clock \in Nat /\ wall \in Nat
    /\ state \in [idle : Colors \cup {Off}, color : Colors, playlist : Lists]
    /\ worker \in [idle : Colors \cup {Off}, playlist : Lists]
    /\ last \in [by : Requests \cup {"nobody"}, plays : BOOLEAN, at : Nat, back : BOOLEAN]
    /\ OneIdleScreen
    /\ panel => \/ worker.playlist = state.playlist
                \/ worker.playlist = Nothing /\ (Expired(state.playlist) \/ last.back)
    /\ state.playlist # Nothing => last.plays /\ state.playlist.by = last.by

LEMMA AgreeStarts == Init => Agree
  <1> SUFFICES ASSUME Init PROVE Agree
    OBVIOUS
  <1>1. Nothing \in Lists
    BY DEF Nothing, Lists
  <1>2. req \in [Requests -> Req]
    BY DEF Init, Req, Request
  <1> QED BY <1>1, <1>2, DisplayApiAssumption DEF Init, LimiterInit, Agree, OneIdleScreen

\* What answering a request, or admitting one, does to the others: nothing.
LEMMA Answering ==
    ASSUME req \in [Requests -> Req], NEW r \in Requests, NEW status \in Nat,
           req' = [req EXCEPT ![r].pc = "answered", ![r].status = status]
    PROVE  /\ req' \in [Requests -> Req]
           /\ req'[r].status = status /\ req'[r].pc = "answered" /\ req'[r].call = req[r].call
           /\ \A q \in Requests : q # r => req'[q] = req[q]
  <1>1. req[r] \in Req
    OBVIOUS
  <1> DEFINE new == [[req[r] EXCEPT !.pc = "answered"] EXCEPT !.status = status]
  <1>2. new \in Req /\ new.status = status /\ new.pc = "answered" /\ new.call = req[r].call
    BY <1>1 DEF Req
  <1>3. req' = [req EXCEPT ![r] = new]
    OBVIOUS
  <1> HIDE DEF new
  <1> QED BY <1>2, <1>3

\* A clock that goes as far as one that goes on does not go back.
LEMMA TimeGoesOn ==
    ASSUME NEW from \in Nat, NEW to \in Nat, to > from, NEW time \in Nat
    PROVE  time + (to - from) \in Nat /\ time + (to - from) >= time
  OBVIOUS

\* The whole seconds in a time, and what is left of it.
LEMMA WholeSeconds ==
    ASSUME NEW time \in Nat
    PROVE  /\ time \div Second \in Nat
           /\ (time \div Second) * Second <= time
           /\ time < (time \div Second) * Second + Second
  BY DisplayApiAssumption

\* Retry-After is a positive number of seconds, less than one too long, and too short
\* by less than what is not carried over.
LEMMA RightToTheSecond ==
    ASSUME NEW wait \in Nat \ {0}
    PROVE  /\ RetryAfter(wait) \in Nat \ {0}
           /\ (RetryAfter(wait) - 1) * Second < wait
           /\ wait < RetryAfter(wait) * Second + (Second - Carry)
  <1> DEFINE q == (wait + Carry) \div Second
  <1>1. Second \in Nat \ {0} /\ Carry \in Nat /\ Carry < Second
    BY DisplayApiAssumption
  <1>2. q \in Nat /\ q * Second <= wait + Carry /\ wait + Carry < q * Second + Second
    BY <1>1, WholeSeconds
  <1> HIDE DEF q
  <1>3. RetryAfter(wait) = IF q > 1 THEN q ELSE 1
    <2>1. \E x \in {1, q} : \A y \in {1, q} : x >= y
      BY <1>2
    <2>2. RetryAfter(wait) = Max({1, q})
      BY DEF RetryAfter, q
    <2>3. Max({1, q}) \in {1, q} /\ \A y \in {1, q} : Max({1, q}) >= y
      BY <2>1 DEF Max
    <2> QED BY <1>2, <2>2, <2>3
  <1>4. CASE q > 1
    <2>1. (q - 1) * Second = q * Second - Second
      BY <1>1, <1>2
    <2> QED BY <1>1, <1>2, <1>3, <1>4, <2>1
  <1>5. CASE q \in {0, 1}
    BY <1>1, <1>2, <1>3, <1>5
  <1> QED BY <1>2, <1>4, <1>5

\* The requests stay requests, and one answered with an error changed nothing else.
LEMMA RequestSteps ==
    ASSUME Agree, [Next]_vars
    PROVE  /\ req' \in [Requests -> Req] /\ clock' \in Nat /\ wall' \in Nat
           /\ \A r \in Requests : (req'[r] # req[r] /\ req'[r].status # 200) => UNCHANGED apiVars
  <1> DEFINE Goal == /\ req' \in [Requests -> Req] /\ clock' \in Nat /\ wall' \in Nat
                     /\ \A r \in Requests :
                            (req'[r] # req[r] /\ req'[r].status # 200) => UNCHANGED apiVars
  <1>1. req \in [Requests -> Req] /\ clock \in Nat /\ wall \in Nat
    BY DEF Agree
  <1>2. CASE UNCHANGED vars
    BY <1>1, <1>2 DEF vars, clocks, limiterVars
  <1>3. ASSUME NEW r \in Requests, NEW call \in Calls,
               Unauthorized(r, call) \/ Admit(r, call) \/ TurnAway(r, call)
        PROVE  Goal
    <2>1. call.images \in Seq({"file", "url", "missing"})
      BY DisplayApiAssumption
    <2>2. UNCHANGED <<clock, wall, apiVars>>
      BY <1>3 DEF Unauthorized, Admit, TurnAway, Acquire, Refuse, clocks, limiterVars
    <2>3. CASE Unauthorized(r, call)
      <3> DEFINE new == Request("answered", call, <<>>, 401, 0)
      <3>1. new \in Req
        BY DEF Req, Request
      <3>2. req' = [req EXCEPT ![r] = new]
        BY <2>3 DEF Unauthorized
      <3> HIDE DEF new
      <3> QED BY <2>2, <3>1, <3>2, <1>1
    <2>4. CASE Admit(r, call)
      BY <2>1, <2>2, <2>4, <1>1 DEF Admit, Req, Request
    <2>5. CASE TurnAway(r, call)
      <3>1. PICK wait \in 1 .. Window :
                req' = [req EXCEPT ![r] = Request("answered", call, <<>>, 429, RetryAfter(wait))]
        BY <2>5 DEF TurnAway
      <3>2. RetryAfter(wait) \in Nat
        BY LimiterAssumption, RightToTheSecond
      <3> DEFINE new == Request("answered", call, <<>>, 429, RetryAfter(wait))
      <3>3. new \in Req
        BY <3>2 DEF Req, Request
      <3>4. req' = [req EXCEPT ![r] = new]
        BY <3>1
      <3> HIDE DEF new
      <3> QED BY <2>2, <3>3, <3>4, <1>1
    <2> QED BY <1>3, <2>3, <2>4, <2>5
  <1>4. ASSUME NEW r \in Requests, Endpoint(r) PROVE Goal
    <2>1. UNCHANGED <<clock, wall>>
      BY <1>4 DEF Endpoint, StartFetch, MissingFile, Fetched, FetchFails, PostDisplay, PutIdle,
                RefuseIdle, PutPlaylist, DeletePlaylist, DeleteDisplay, clocks, limiterVars
    <2>2. CASE StartFetch(r) \/ Fetched(r)
      <3>1. UNCHANGED apiVars
        BY <2>2 DEF StartFetch, Fetched
      <3>2. CASE Fetched(r)
        BY <3>1, <3>2, <2>1, <1>1 DEF Fetched, Req
      <3>3. CASE StartFetch(r)
        <4>0. PICK i \in DOMAIN req[r].left :
                 req' = [req EXCEPT ![r].pc = "fetching",
                                    ![r].left = SubSeq(@, i + 1, Len(@))]
          BY <3>3 DEF StartFetch
        <4> DEFINE rest == SubSeq(req[r].left, i + 1, Len(req[r].left))
        <4>1. req' = [req EXCEPT ![r].pc = "fetching", ![r].left = rest]
          BY <4>0, <1>1 DEF Req
        <4>2. rest \in Seq({"file", "url", "missing"})
          <5>1. req[r].left \in Seq({"file", "url", "missing"})
            BY <1>1 DEF Req
          <5> QED BY <5>1
        <4> HIDE DEF rest
        <4> QED BY <4>1, <4>2, <3>1, <2>1, <1>1 DEF Req
      <3> QED BY <2>2, <3>2, <3>3
    <2>3. CASE MissingFile(r) \/ FetchFails(r) \/ RefuseIdle(r)
      <3>1. UNCHANGED apiVars
        BY <2>3 DEF MissingFile, FetchFails, RefuseIdle
      <3>2. PICK status \in Nat : Answer(r, status)
        BY <2>3 DEF MissingFile, FetchFails, RefuseIdle
      <3>3. req' \in [Requests -> Req]
        BY <3>2, <1>1, Answering DEF Answer
      <3> QED BY <3>1, <3>3, <2>1, <1>1
    <2>4. CASE PostDisplay(r)
      <3>1. Answer(r, Showable(req[r].call)) /\ Showable(req[r].call) \in Nat
        BY <2>4 DEF PostDisplay, Showable
      <3>2. Showable(req[r].call) # 200 => UNCHANGED apiVars
        BY <2>4 DEF PostDisplay, apiVars
      <3> HIDE DEF Showable
      <3>3. req' = [req EXCEPT ![r].pc = "answered", ![r].status = Showable(req[r].call)]
        BY <3>1 DEF Answer
      <3>4. /\ req' \in [Requests -> Req] /\ req'[r].status = Showable(req[r].call)
            /\ \A q \in Requests : q # r => req'[q] = req[q]
        BY <3>1, <3>3, <1>1, Answering
      <3> QED BY <3>2, <3>4, <2>1, <1>1
    <2>5. CASE PutIdle(r) \/ PutPlaylist(r) \/ DeletePlaylist(r) \/ DeleteDisplay(r)
      <3>1. PICK status \in Nat :
               status = 200 /\ req' = [req EXCEPT ![r].pc = "answered", ![r].status = status]
        BY <2>5 DEF PutIdle, PutPlaylist, DeletePlaylist, DeleteDisplay, Answer
      <3>2. req' = [req EXCEPT ![r].pc = "answered", ![r].status = status]
        BY <3>1
      <3>3. /\ req' \in [Requests -> Req] /\ req'[r].status = status
            /\ \A q \in Requests : q # r => req'[q] = req[q]
        BY <3>2, <1>1, Answering
      <3> QED BY <3>1, <3>3, <2>1, <1>1
    <2> QED BY <1>4, <2>2, <2>3, <2>4, <2>5 DEF Endpoint
  <1>5. CASE RunsOut \/ IdleFails \/ ClockIsSet
    BY <1>1, <1>5, DisplayApiAssumption DEF RunsOut, IdleFails, ClockIsSet, clocks, limiterVars
  <1>6. CASE Later
    <2>1. clock' \in Nat /\ clock' > clock /\ wall' = wall + (clock' - clock) /\ UNCHANGED req
      BY <1>6, LimiterAssumption DEF Later, Tick
    <2>2. wall' \in Nat
      BY <1>1, <2>1, TimeGoesOn
    <2> QED BY <1>1, <2>1, <2>2
  <1> QED BY <1>2, <1>3, <1>4, <1>5, <1>6 DEF Next

(* Every step keeps the router and the worker agreed, their own doings included:    *)
(* a playlist only the router keeps has run out, and only a clock set back undoes   *)
(* that.                                                                            *)
LEMMA AgreeStays == Agree /\ [Next]_vars => Agree'
  <1> SUFFICES ASSUME Agree, [Next]_vars PROVE Agree'
    OBVIOUS
  <1>1. req' \in [Requests -> Req] /\ clock' \in Nat /\ wall' \in Nat
    BY RequestSteps
  <1>2. Nothing \in Lists /\ ~Expired(Nothing)
    BY DEF Nothing, Lists, Expired, Endless
  <1>3. CASE UNCHANGED <<wall, apiVars>>
    BY <1>1, <1>3 DEF apiVars, Agree, OneIdleScreen, Expired
  <1>4. ASSUME NEW r \in Requests, PostDisplay(r) PROVE Agree'
    BY <1>1, <1>4 DEF PostDisplay, Agree, OneIdleScreen, Expired, clocks
  <1>5. ASSUME NEW r \in Requests, PutIdle(r) PROVE Agree'
    <2> DEFINE color == IF req[r].call.color = Same THEN state.color ELSE req[r].call.color
               idle == IF req[r].call.mode = Off THEN Off ELSE color
    <2>1. /\ state' = [state EXCEPT !.color = color, !.idle = idle]
          /\ worker' = IF panel THEN [worker EXCEPT !.idle = idle] ELSE worker
          /\ UNCHANGED <<wall, panel, last>>
      BY <1>5 DEF PutIdle, clocks
    <2>2. color \in Colors
      BY <1>5 DEF PutIdle, Knows, Agree
    <2>3. idle \in {Off, color}
      OBVIOUS
    <2> HIDE DEF color, idle
    <2> QED BY <1>1, <2>1, <2>2, <2>3 DEF Agree, OneIdleScreen, Expired
  <1>6. ASSUME NEW r \in Requests, NEW p \in Lists, SetPlaylist(r, p), p = Nothing \/ p.by = r,
               UNCHANGED <<wall, panel, dropped>>
        PROVE  Agree'
    <2>1. /\ state' = [state EXCEPT !.playlist = p]
          /\ worker' = IF panel THEN [worker EXCEPT !.playlist = p] ELSE worker
          /\ last' = [by |-> r, plays |-> p # Nothing, at |-> wall, back |-> FALSE]
      BY <1>6 DEF SetPlaylist
    <2> QED BY <1>1, <1>6, <2>1 DEF Agree, OneIdleScreen, Expired
  <1>7. ASSUME NEW r \in Requests, PutPlaylist(r) PROVE Agree'
    <2> DEFINE total == req[r].call.total
               p == [by |-> r, until |-> IF total = Endless THEN Endless ELSE wall + total]
    <2>1. SetPlaylist(r, p) /\ UNCHANGED <<wall, panel, dropped>> /\ req[r].call.op = "play"
      BY <1>7 DEF PutPlaylist, clocks
    <2>2. req[r].call \in Calls
      BY <2>1 DEF Agree, Req
    <2>3. total \in Nat /\ wall \in Nat
      BY <2>2, DisplayApiAssumption DEF Agree
    <2>4. p \in Lists /\ p.by = r
      BY <2>3 DEF Lists, Endless
    <2> HIDE DEF p
    <2> QED BY <2>1, <2>4, <1>6
  <1>8. ASSUME NEW r \in Requests, DeletePlaylist(r) \/ DeleteDisplay(r) PROVE Agree'
    BY <1>2, <1>6, <1>8 DEF DeletePlaylist, DeleteDisplay, clocks
  <1>9. CASE RunsOut
    <2>1. /\ Expired(worker.playlist) /\ worker' = [worker EXCEPT !.playlist = Nothing]
          /\ worker.playlist # Nothing /\ UNCHANGED <<wall, panel, state, dropped, last>>
      BY <1>9 DEF RunsOut, clocks
    <2> QED BY <1>1, <1>2, <2>1 DEF Agree, OneIdleScreen, Expired
  <1>10. CASE IdleFails
    <2>1. /\ worker' = [worker EXCEPT !.idle = Off] /\ dropped' = TRUE
          /\ UNCHANGED <<wall, panel, state, last>>
      BY <1>10 DEF IdleFails, clocks
    <2> QED BY <1>1, <2>1 DEF Agree, OneIdleScreen, Expired
  <1>11. CASE Later
    <2>1. UNCHANGED <<panel, state, worker, last, dropped>>
      BY <1>11 DEF Later, apiVars
    <2>2. wall \in Nat /\ state.playlist.until \in Nat
      BY DEF Agree, Lists
    <2>3. wall' >= wall
      <3>1. clock' > clock /\ wall' = wall + (clock' - clock) /\ clock \in Nat
        BY <1>11 DEF Later, Tick, Agree
      <3> QED BY <1>1, <2>2, <3>1, TimeGoesOn
    <2>4. Expired(state.playlist) => Expired(state.playlist)'
      BY <1>1, <2>1, <2>2, <2>3 DEF Expired
    <2> QED BY <1>1, <2>1, <2>4 DEF Agree, OneIdleScreen
  <1>12. ASSUME NEW r \in Requests, NEW call \in Calls,
               Unauthorized(r, call) \/ Admit(r, call) \/ TurnAway(r, call)
         PROVE  UNCHANGED <<wall, apiVars>>
    BY <1>12 DEF Unauthorized, Admit, TurnAway, Acquire, Refuse, clocks
  <1>13. ASSUME NEW r \in Requests,
                StartFetch(r) \/ MissingFile(r) \/ Fetched(r) \/ FetchFails(r) \/ RefuseIdle(r)
         PROVE  UNCHANGED <<wall, apiVars>>
    BY <1>13 DEF StartFetch, MissingFile, Fetched, FetchFails, RefuseIdle, clocks
  <1>14. UNCHANGED vars => UNCHANGED <<wall, apiVars>>
    BY DEF vars, clocks
  <1>15. CASE ClockIsSet
    <2>1. /\ last' = [last EXCEPT !.back = @ \/ wall' < wall]
          /\ UNCHANGED <<panel, state, worker, dropped>>
      BY <1>15 DEF ClockIsSet
    <2>2. Expired(state.playlist) => Expired(state.playlist)' \/ last'.back
      <3>1. wall \in Nat /\ state.playlist.until \in Nat
        BY DEF Agree, Lists
      <3>2. wall' < wall => last'.back
        BY <2>1 DEF Agree
      <3>3. ~ (wall' < wall) => (Expired(state.playlist) => Expired(state.playlist)')
        BY <1>1, <2>1, <3>1 DEF Expired
      <3> QED BY <3>2, <3>3
    <2>3. /\ last' \in [by : Requests \cup {"nobody"}, plays : BOOLEAN, at : Nat, back : BOOLEAN]
          /\ last'.by = last.by /\ last'.plays = last.plays /\ (last.back => last'.back)
      BY <2>1 DEF Agree
    <2> QED BY <1>1, <2>1, <2>2, <2>3 DEF Agree, OneIdleScreen
  <1> QED BY <1>3, <1>4, <1>5, <1>7, <1>8, <1>9, <1>10, <1>11, <1>12, <1>13, <1>14, <1>15 DEF Next, Endpoint

(* The router and the worker report one playlist, that of the request answered      *)
(* last, and one idle screen, for any requests however they overlap.                *)
THEOREM ApiAgrees == Spec => [](OnePlaylist /\ OneIdleScreen)
  <1>1. Agree => OnePlaylist /\ OneIdleScreen
    <2> SUFFICES ASSUME Agree PROVE OnePlaylist
      BY DEF Agree
    <2>1. ~Expired(Nothing)
      BY DEF Nothing, Expired, Endless
    <2>2. panel => \/ Reported(worker.playlist) = Reported(state.playlist)
                   \/ worker.playlist = Nothing /\ last.back
      BY <2>1 DEF Agree, Reported
    <2>3. Body.playlist \in {Nothing, Reported(state.playlist)}
      BY <2>1 DEF Body, Agree, Reported
    <2>4. Reported(state.playlist) # Nothing => Reported(state.playlist) = state.playlist
      BY DEF Reported
    <2> QED BY <2>2, <2>3, <2>4 DEF OnePlaylist, Agree
  <1> QED BY <1>1, AgreeStarts, AgreeStays, PTL DEF Spec

(* What the end of a running playlist is counted from: the moment its request was   *)
(* answered, which nothing changes any more.                                        *)
Timed ==
    state.playlist # Nothing =>
        /\ last.by \in Requests /\ req[last.by].pc = "answered"
        /\ state.playlist.until # Endless =>
              state.playlist.until = last.at + req[last.by].call.total

\* A request that is answered is over.
LEMMA AnsweredStays ==
    ASSUME req \in [Requests -> Req], [Next]_vars, NEW r \in Requests, req[r].pc = "answered"
    PROVE  req'[r] = req[r]
  <1>1. ASSUME NEW q \in Requests, Endpoint(q) PROVE req'[r] = req[r]
    <2>1. req[q].pc # "answered"
      BY <1>1 DEF Endpoint, StartFetch, StopsAt, MissingFile, Fetched, FetchFails, PostDisplay, PutIdle,
                  RefuseIdle, PutPlaylist, DeletePlaylist, DeleteDisplay, Resolved
    <2>2. \A p \in Requests : p # q => req'[p] = req[p]
      BY <1>1 DEF Endpoint, StartFetch, MissingFile, Fetched, FetchFails, PostDisplay, PutIdle,
                  RefuseIdle, PutPlaylist, DeletePlaylist, DeleteDisplay, Answer
    <2> QED BY <2>1, <2>2
  <1>2. ASSUME NEW q \in Requests, NEW call \in Calls,
               Unauthorized(q, call) \/ Admit(q, call) \/ TurnAway(q, call)
        PROVE  req'[r] = req[r]
    <2>1. req[q].pc = "sent"
      BY <1>2 DEF Unauthorized, Admit, TurnAway
    <2>2. \A p \in Requests : p # q => req'[p] = req[p]
      BY <1>2 DEF Unauthorized, Admit, TurnAway
    <2> QED BY <2>1, <2>2
  <1>3. CASE RunsOut \/ IdleFails \/ Later \/ ClockIsSet \/ UNCHANGED vars
    BY <1>3 DEF RunsOut, IdleFails, Later, ClockIsSet, vars
  <1> QED BY <1>1, <1>2, <1>3 DEF Next

\* The end is set when a playlist is, and no other step moves it.
LEMMA TimedStays == Agree /\ Timed /\ [Next]_vars => Timed'
  <1> SUFFICES ASSUME Agree, Timed, [Next]_vars PROVE Timed'
    OBVIOUS
  <1>1. req \in [Requests -> Req] /\ wall \in Nat
    BY DEF Agree
  <1>2. CASE UNCHANGED <<state, last>>
    <2> SUFFICES ASSUME state.playlist # Nothing PROVE Timed'
      BY <1>2 DEF Timed
    <2>1. req'[last.by] = req[last.by]
      BY <1>1, AnsweredStays DEF Timed
    <2> QED BY <1>2, <2>1 DEF Timed
  <1>3. ASSUME NEW r \in Requests, PutPlaylist(r) PROVE Timed'
    <2> DEFINE total == req[r].call.total
               p == [by |-> r, until |-> IF total = Endless THEN Endless ELSE wall + total]
    <2>1. /\ state' = [state EXCEPT !.playlist = p]
          /\ last' = [by |-> r, plays |-> p # Nothing, at |-> wall, back |-> FALSE]
          /\ req' = [req EXCEPT ![r].pc = "answered", ![r].status = 200]
      BY <1>3 DEF PutPlaylist, SetPlaylist, Answer
    <2>2. state'.playlist = p /\ last'.by = r /\ last'.at = wall
      BY <2>1 DEF Agree
    <2>3. req'[r].pc = "answered" /\ req'[r].call = req[r].call
      BY <2>1, <1>1 DEF Req
    <2>4. p.until # Endless => p.until = wall + total
      OBVIOUS
    <2> HIDE DEF p
    <2> QED BY <2>2, <2>3, <2>4 DEF Timed
  <1>4. ASSUME NEW r \in Requests, DeletePlaylist(r) \/ DeleteDisplay(r) PROVE Timed'
    <2>1. state' = [state EXCEPT !.playlist = Nothing]
      BY <1>4 DEF DeletePlaylist, DeleteDisplay, SetPlaylist
    <2> QED BY <2>1 DEF Timed, Agree
  <1>5. ASSUME NEW r \in Requests, PutIdle(r) PROVE Timed'
    <2>1. state'.playlist = state.playlist /\ last' = last
      BY <1>5 DEF PutIdle, Agree
    <2> SUFFICES ASSUME state.playlist # Nothing PROVE Timed'
      BY <2>1 DEF Timed
    <2>2. req'[last.by] = req[last.by]
      BY <1>1, AnsweredStays DEF Timed
    <2> QED BY <2>1, <2>2 DEF Timed
  <1>6. ASSUME NEW r \in Requests,
               \/ StartFetch(r) \/ MissingFile(r) \/ Fetched(r) \/ FetchFails(r)
               \/ RefuseIdle(r) \/ PostDisplay(r)
        PROVE  UNCHANGED <<state, last>>
    BY <1>6 DEF StartFetch, MissingFile, Fetched, FetchFails, RefuseIdle, PostDisplay, apiVars
  <1>7. ASSUME NEW r \in Requests, NEW call \in Calls,
               Unauthorized(r, call) \/ Admit(r, call) \/ TurnAway(r, call)
        PROVE  UNCHANGED <<state, last>>
    BY <1>7 DEF Unauthorized, Admit, TurnAway, apiVars
  <1>8. CASE RunsOut \/ IdleFails \/ Later \/ UNCHANGED vars
    BY <1>8, <1>2 DEF RunsOut, IdleFails, Later, apiVars, vars
  <1>9. CASE ClockIsSet
    <2>1. state' = state /\ req' = req /\ last'.by = last.by /\ last'.at = last.at
      BY <1>9 DEF ClockIsSet, Agree
    <2> QED BY <2>1 DEF Timed
  <1> QED BY <1>2, <1>3, <1>4, <1>5, <1>6, <1>7, <1>8, <1>9 DEF Next, Endpoint

(* For any requests however they overlap: what GET reports is one state, the         *)
(* playlist of the request answered last with its whole total, and one idle screen.  *)
THEOREM ApiOneState == Spec => []OneState
  <1>1. Init => Timed
    BY DEF Init, Timed
  <1>2. Agree /\ Timed => WholeTotal
    <2> SUFFICES ASSUME Agree, Timed, Body.playlist # Nothing, Body.playlist.until # Endless
                 PROVE  Body.playlist.until = last.at + req[last.by].call.total
      BY DEF WholeTotal
    <2>1. ~Expired(Nothing)
      BY DEF Nothing, Expired, Endless
    <2>2. Body.playlist = state.playlist
      BY <2>1 DEF Body, Agree, Reported
    <2> QED BY <2>2 DEF Timed
  <1>3. Spec => []WholeTotal
    BY <1>1, <1>2, AgreeStarts, AgreeStays, TimedStays, PTL DEF Spec
  <1> QED BY <1>3, ApiAgrees, PTL DEF OneState

(* For any requests: one that is answered with an error changed nothing.            *)
THEOREM ApiAllOrNothing == Spec => AllOrNothing
  <1>1. Agree /\ [Next]_vars =>
            [\A r \in Requests : (req'[r] # req[r] /\ req'[r].status # 200) => UNCHANGED apiVars]_vars
    BY RequestSteps
  <1> QED BY <1>1, AgreeStarts, AgreeStays, PTL DEF Spec, AllOrNothing

\* Only the limiter turns a request away.
LEMMA TurnedAway ==
    ASSUME Agree, Next, NEW r \in Requests,
           req[r].pc = "sent", req'[r].pc # "sent", req'[r].status = 429
    PROVE  \E wait \in 1 .. Window : Refuse(wait) /\ req'[r].retry = RetryAfter(wait)
  <1> req \in [Requests -> Req]
    BY DEF Agree
  <1>1. ASSUME NEW q \in Requests, Endpoint(q) PROVE FALSE
    <2>1. req[q].pc # "sent"
      BY <1>1 DEF Endpoint, StartFetch, StopsAt, MissingFile, Fetched, FetchFails, PostDisplay, PutIdle,
                  RefuseIdle, PutPlaylist, DeletePlaylist, DeleteDisplay, Resolved
    <2>2. \A p \in Requests : p # q => req'[p] = req[p]
      BY <1>1 DEF Endpoint, StartFetch, MissingFile, Fetched, FetchFails, PostDisplay, PutIdle,
                  RefuseIdle, PutPlaylist, DeletePlaylist, DeleteDisplay, Answer
    <2> QED BY <2>1, <2>2
  <1>2. CASE RunsOut \/ IdleFails \/ Later \/ ClockIsSet
    BY <1>2 DEF RunsOut, IdleFails, Later, ClockIsSet
  <1>3. ASSUME NEW q \in Requests, NEW call \in Calls, Unauthorized(q, call) \/ Admit(q, call)
        PROVE  FALSE
    BY <1>3 DEF Unauthorized, Admit, Request
  <1>4. ASSUME NEW q \in Requests, NEW call \in Calls, TurnAway(q, call)
        PROVE  \E wait \in 1 .. Window : Refuse(wait) /\ req'[r].retry = RetryAfter(wait)
    <2>1. PICK wait \in 1 .. Window :
              Refuse(wait) /\ req' = [req EXCEPT ![q] = Request("answered", call, <<>>, 429, RetryAfter(wait))]
      BY <1>4 DEF TurnAway
    <2>2. q = r
      BY <2>1
    <2>3. req'[r].retry = RetryAfter(wait)
      BY <2>1, <2>2 DEF Request
    <2> QED BY <2>1, <2>3
  <1> QED BY <1>1, <1>2, <1>3, <1>4 DEF Next

(* For any requests, limit and window, and however a second is divided: a 429 has    *)
(* its reason, and its Retry-After is right to the second.                          *)
THEOREM ApiRefusesRightly == Spec => RefusedForAReason
  <1> DEFINE Rightly(r) == LET n     == Len(granted)
                               wait  == granted[n - Limit + 1] + Window - clock
                               retry == req'[r].retry
                           IN  /\ n >= Limit
                               /\ 0 < wait /\ wait <= Window
                               /\ (retry - 1) * Second < wait
                               /\ wait < retry * Second + (Second - Carry)
             Step == \A r \in Requests :
                 (req[r].pc = "sent" /\ req'[r].pc # "sent" /\ req'[r].status = 429) => Rightly(r)
  <1>1. Agree /\ LimiterInv /\ [Next]_vars => [Step]_vars
    <2> SUFFICES ASSUME Agree, LimiterInv, Next, NEW r \in Requests,
                        req[r].pc = "sent", req'[r].pc # "sent", req'[r].status = 429
                 PROVE  Rightly(r)
      OBVIOUS
    <2>1. PICK wait \in 1 .. Window : Refuse(wait) /\ req'[r].retry = RetryAfter(wait)
      BY TurnedAway
    <2>2. wait \in Nat \ {0} /\ wait <= Window
      BY LimiterAssumption
    <2>3. Len(granted) >= Limit /\ granted[Len(granted) - Limit + 1] + Window - clock = wait
      BY <2>1, RefusesRightly
    <2>4. /\ (req'[r].retry - 1) * Second < wait
          /\ wait < req'[r].retry * Second + (Second - Carry)
      BY <2>1, <2>2, RightToTheSecond
    <2> QED BY <2>2, <2>3, <2>4
  <1>2. Init => LimiterInit
    BY DEF Init
  <1> HIDE DEF Step
  <1>3. Spec => [][Step]_vars
    BY <1>1, <1>2, SpendsOnly, StartsLimited, StaysLimited, AgreeStarts, AgreeStays, PTL DEF Spec
  <1> QED BY <1>3 DEF RefusedForAReason, Step, Rightly
-----------------------------------------------------------------------------
(* What the timeline and the panel agree on between steps, and what both are of     *)
(* the requests: a request is recorded in the step that answers it.                *)
Statuses == {0, 200, 400, 401, 404, 429, 502}
Sound(q) == q.status \in Statuses /\ (q.pc = "answered" <=> q.status # 0)
Shows(q) == q.status = 200 /\ q.call.op \in {"show", "blank"}

Timeline ==
    /\ panel \in BOOLEAN /\ dropped \in BOOLEAN
    /\ recorded \in Seq(Requests) /\ (panel => submitted = recorded)
    /\ \A i, j \in DOMAIN recorded : recorded[i] = recorded[j] => i = j
    /\ \A r \in Requests : (\E i \in DOMAIN recorded : recorded[i] = r) <=> Shows(req[r])
    /\ \A r \in Requests : Sound(req[r])

\* A step of request r that puts nothing on the timeline, and one that does.
Quiet(r) ==
    /\ UNCHANGED <<panel, submitted, recorded>> /\ dropped' \in BOOLEAN
    /\ Sound(req'[r]) /\ ~Shows(req[r]) /\ ~Shows(req'[r])

Posts(r) ==
    /\ panel' = panel /\ dropped' = dropped
    /\ recorded' = Append(recorded, r)
    /\ submitted' = IF panel THEN Append(submitted, r) ELSE submitted
    /\ Sound(req'[r]) /\ ~Shows(req[r]) /\ Shows(req'[r])

LEMMA QuietKeeps ==
    ASSUME Timeline, NEW r \in Requests, Quiet(r), \A q \in Requests : q # r => req'[q] = req[q]
    PROVE  Timeline'
  <1>1. /\ UNCHANGED <<panel, submitted, recorded>> /\ dropped' \in BOOLEAN
        /\ Sound(req'[r]) /\ ~Shows(req[r]) /\ ~Shows(req'[r])
    BY DEF Quiet
  <1>2. \A q \in Requests : Sound(req'[q]) /\ (Shows(req'[q]) <=> Shows(req[q]))
    <2> TAKE q \in Requests
    <2>1. CASE q = r
      BY <1>1, <2>1
    <2>2. CASE q # r
      BY <2>2 DEF Timeline
    <2> QED BY <2>1, <2>2
  <1> QED BY <1>1, <1>2 DEF Timeline

LEMMA PostsKeeps ==
    ASSUME Timeline, NEW r \in Requests, Posts(r), \A q \in Requests : q # r => req'[q] = req[q]
    PROVE  Timeline'
  <1>1. /\ panel' = panel /\ dropped' = dropped
        /\ recorded' = Append(recorded, r)
        /\ submitted' = IF panel THEN Append(submitted, r) ELSE submitted
        /\ Sound(req'[r]) /\ ~Shows(req[r]) /\ Shows(req'[r])
    BY DEF Posts
  <1>2. recorded \in Seq(Requests) /\ \A i \in DOMAIN recorded : recorded[i] # r
    BY <1>1 DEF Timeline
  <1>3. /\ recorded' \in Seq(Requests) /\ Len(recorded') = Len(recorded) + 1 /\ Len(recorded) \in Nat
        /\ DOMAIN recorded = 1 .. Len(recorded) /\ DOMAIN recorded' = 1 .. Len(recorded) + 1
        /\ \A i \in DOMAIN recorded : recorded'[i] = recorded[i]
        /\ recorded'[Len(recorded) + 1] = r
    BY <1>1, <1>2
  <1>4. \A i \in DOMAIN recorded' : i \in DOMAIN recorded \/ i = Len(recorded) + 1
    BY <1>3
  <1>5. ASSUME NEW i \in DOMAIN recorded', NEW j \in DOMAIN recorded', recorded'[i] = recorded'[j]
        PROVE  i = j
    BY <1>2, <1>3, <1>4, <1>5 DEF Timeline
  <1>6. ASSUME NEW q \in Requests
        PROVE  ((\E i \in DOMAIN recorded' : recorded'[i] = q) <=> Shows(req'[q])) /\ Sound(req'[q])
    <2>1. CASE q = r
      <3>1. Len(recorded) + 1 \in DOMAIN recorded'
        BY <1>3
      <3> QED BY <1>1, <1>3, <2>1, <3>1
    <2>2. CASE q # r
      <3>1. Sound(req'[q]) /\ (Shows(req'[q]) <=> \E i \in DOMAIN recorded : recorded[i] = q)
        BY <2>2 DEF Timeline
      <3>2. (\E i \in DOMAIN recorded : recorded[i] = q) => \E i \in DOMAIN recorded' : recorded'[i] = q
        <4>1. \A i \in DOMAIN recorded : i \in DOMAIN recorded'
          BY <1>3
        <4> QED BY <1>3, <4>1
      <3>3. (\E i \in DOMAIN recorded' : recorded'[i] = q) => \E i \in DOMAIN recorded : recorded[i] = q
        BY <1>3, <1>4, <2>2
      <3> QED BY <3>1, <3>2, <3>3
    <2> QED BY <2>1, <2>2
  <1>7. panel' => submitted' = recorded'
    BY <1>1 DEF Timeline
  <1>8. panel' \in BOOLEAN /\ dropped' \in BOOLEAN
    BY <1>1 DEF Timeline
  <1> QED BY <1>3, <1>5, <1>6, <1>7, <1>8 DEF Timeline

\* Each endpoint answers a request once, and what it records it answers with 200.
LEMMA EndpointSteps ==
    ASSUME Agree, Timeline, NEW r \in Requests, Endpoint(r)
    PROVE  Quiet(r) \/ Posts(r)
  <1>1. req \in [Requests -> Req] /\ dropped \in BOOLEAN
    BY DEF Agree, Timeline
  <1>2. req[r].pc \in {"running", "fetching"}
    BY DEF Endpoint, StartFetch, StopsAt, MissingFile, Fetched, FetchFails, PostDisplay, PutIdle,
           RefuseIdle, PutPlaylist, DeletePlaylist, DeleteDisplay, Resolved
  <1>3. req[r].status = 0 /\ ~Shows(req[r])
    BY <1>2 DEF Timeline, Sound, Shows
  <1>4. ASSUME NEW status \in Statuses \ {0}, Answer(r, status)
        PROVE  /\ req'[r].status = status /\ req'[r].call = req[r].call
               /\ Sound(req'[r])
    <2>1. req' = [req EXCEPT ![r].pc = "answered", ![r].status = status] /\ status \in Nat
      BY <1>4 DEF Answer, Statuses
    <2>2. req'[r].status = status /\ req'[r].pc = "answered" /\ req'[r].call = req[r].call
      BY <1>1, <2>1, Answering
    <2> QED BY <2>2 DEF Sound
  <1>5. CASE StartFetch(r) \/ Fetched(r)
    <2>1. req'[r].status = req[r].status /\ req'[r].pc \in {"running", "fetching"}
      BY <1>1, <1>5 DEF StartFetch, Fetched, Req
    <2>2. UNCHANGED apiVars
      BY <1>5 DEF StartFetch, Fetched
    <2> QED BY <1>1, <1>3, <2>1, <2>2 DEF Quiet, Sound, Shows, Statuses, apiVars
  <1>6. CASE MissingFile(r) \/ FetchFails(r) \/ RefuseIdle(r)
    <2>1. PICK status \in {400, 404, 502} : Answer(r, status)
      BY <1>6 DEF MissingFile, FetchFails, RefuseIdle
    <2>2. req'[r].status # 200 /\ Sound(req'[r])
      BY <1>4, <2>1 DEF Statuses
    <2>3. UNCHANGED apiVars
      BY <1>6 DEF MissingFile, FetchFails, RefuseIdle
    <2> QED BY <1>1, <1>3, <2>2, <2>3 DEF Quiet, Shows, apiVars
  <1>7. CASE PutIdle(r) \/ PutPlaylist(r) \/ DeletePlaylist(r)
    <2>1. Answer(r, 200) /\ req[r].call.op \in {"idle", "play", "stop"}
      BY <1>7 DEF PutIdle, PutPlaylist, DeletePlaylist
    <2>2. req'[r].call = req[r].call /\ Sound(req'[r])
      BY <1>4, <2>1 DEF Statuses
    <2>3. UNCHANGED <<panel, submitted, recorded>> /\ dropped' \in {dropped, FALSE}
      BY <1>7 DEF PutIdle, PutPlaylist, DeletePlaylist
    <2> QED BY <1>1, <1>3, <2>1, <2>2, <2>3 DEF Quiet, Shows
  <1>8. CASE PostDisplay(r)
    <2> DEFINE status == Showable(req[r].call)
    <2>1. status \in {200, 400, 404}
      BY DEF Showable
    <2>2. /\ Answer(r, status) /\ req[r].call.op = "show"
          /\ IF status = 200 THEN Submit(r) /\ Record(r) ELSE UNCHANGED <<submitted, recorded>>
          /\ UNCHANGED <<panel, dropped>>
      BY <1>8 DEF PostDisplay
    <2> HIDE DEF status
    <2>3. req'[r].status = status /\ req'[r].call = req[r].call /\ Sound(req'[r])
      BY <1>4, <2>1, <2>2 DEF Statuses
    <2>4. CASE status = 200
      BY <1>3, <2>2, <2>3, <2>4 DEF Posts, Shows, Submit, Record
    <2>5. CASE status # 200
      BY <1>1, <1>3, <2>2, <2>3, <2>5 DEF Quiet, Shows
    <2> QED BY <2>4, <2>5
  <1>9. CASE DeleteDisplay(r)
    <2>1. Answer(r, 200) /\ req[r].call.op = "blank" /\ Submit(r) /\ Record(r) /\ UNCHANGED <<panel, dropped>>
      BY <1>9 DEF DeleteDisplay
    <2>2. req'[r].status = 200 /\ req'[r].call = req[r].call /\ Sound(req'[r])
      BY <1>4, <2>1 DEF Statuses
    <2> QED BY <1>3, <2>1, <2>2 DEF Posts, Shows, Submit, Record
  <1> QED BY <1>5, <1>6, <1>7, <1>8, <1>9 DEF Endpoint

LEMMA TimelineStays == Agree /\ Timeline /\ [Next]_vars => Timeline'
  <1> SUFFICES ASSUME Agree, Timeline, [Next]_vars PROVE Timeline'
    OBVIOUS
  <1>1. req \in [Requests -> Req] /\ dropped \in BOOLEAN
    BY DEF Agree, Timeline
  <1>2. ASSUME NEW r \in Requests, Endpoint(r)
        PROVE  Timeline'
    <2>1. \A q \in Requests : q # r => req'[q] = req[q]
      BY <1>1, <1>2
      DEF Endpoint, StartFetch, MissingFile, Fetched, FetchFails, PostDisplay, PutIdle,
          RefuseIdle, PutPlaylist, DeletePlaylist, DeleteDisplay, Answer
    <2> QED BY <1>2, <2>1, EndpointSteps, QuietKeeps, PostsKeeps
  <1>3. ASSUME NEW r \in Requests, NEW call \in Calls,
               Unauthorized(r, call) \/ Admit(r, call) \/ TurnAway(r, call)
        PROVE  Timeline'
    <2>1. /\ \A q \in Requests : q # r => req'[q] = req[q]
          /\ req[r].pc = "sent" /\ UNCHANGED apiVars
      BY <1>1, <1>3 DEF Unauthorized, Admit, TurnAway
    <2>2. \/ req'[r].pc = "answered" /\ req'[r].status \in {401, 429}
          \/ req'[r].pc = "running" /\ req'[r].status = 0
      BY <1>1, <1>3 DEF Unauthorized, Admit, TurnAway, Request
    <2>3. ~Shows(req[r])
      BY <2>1 DEF Timeline, Sound, Shows
    <2>4. Quiet(r)
      BY <1>1, <2>1, <2>2, <2>3 DEF Quiet, Sound, Shows, Statuses, apiVars
    <2> QED BY <2>1, <2>4, QuietKeeps
  <1>4. CASE RunsOut \/ IdleFails \/ Later \/ ClockIsSet \/ UNCHANGED vars
    <2>1. UNCHANGED <<panel, submitted, recorded, req>> /\ dropped' \in BOOLEAN
      BY <1>1, <1>4 DEF RunsOut, IdleFails, Later, ClockIsSet, apiVars, vars
    <2> QED BY <2>1 DEF Timeline
  <1> QED BY <1>2, <1>3, <1>4 DEF Next

(* For any requests however they overlap: the timeline is what the panel was given,   *)
(* in its order, each accepted display and blank once and nothing that was refused.   *)
THEOREM ApiTimeline == Spec => []TimelineIsRight
  <1>1. Init => Timeline
    <2> SUFFICES ASSUME Init PROVE Timeline
      OBVIOUS
    <2>1. \A r \in Requests : req[r].status = 0 /\ req[r].pc = "sent"
      BY DEF Init, Request
    <2>2. /\ panel \in BOOLEAN /\ dropped = FALSE /\ submitted = <<>> /\ recorded = <<>>
          /\ recorded \in Seq(Requests) /\ DOMAIN recorded = {}
      BY DEF Init
    <2>3. \A r \in Requests : Sound(req[r]) /\ ~Shows(req[r])
      BY <2>1 DEF Sound, Shows, Statuses
    <2> QED BY <2>2, <2>3 DEF Timeline
  <1>2. Agree /\ Timeline => TimelineIsRight
    <2> SUFFICES ASSUME Agree, Timeline PROVE TimelineIsRight
      OBVIOUS
    <2>1. TypeOK
      <3>1. \A r \in Requests : req[r].pc \in {"sent", "running", "fetching", "answered"}
        BY DEF Agree, Req
      <3>2. state.playlist \in Lists /\ worker.playlist \in Lists
        BY DEF Agree
      <3>3. \A r \in Requests : Sound(req[r])
        BY DEF Timeline
      <3> QED BY <3>1, <3>2, <3>3 DEF TypeOK, Agree, Timeline, Lists, Sound, Statuses
    <2>2. TimelineIsThePanel
      <3>1. \A i \in DOMAIN recorded : recorded[i] \in Requests
        BY DEF Timeline
      <3>2. \A r \in Requests : (\E i \in DOMAIN recorded : recorded[i] = r) <=> Shows(req[r])
        BY DEF Timeline
      <3>3. Range(recorded) = {r \in Requests : Shows(req[r])}
        BY <3>1, <3>2 DEF Range
      <3> QED BY <3>3 DEF TimelineIsThePanel, Timeline, Shows
    <2> QED BY <2>1, <2>2 DEF TimelineIsRight
  <1> QED BY <1>1, <1>2, AgreeStarts, AgreeStays, TimelineStays, PTL DEF Spec
=============================================================================

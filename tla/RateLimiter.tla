---------------------------- MODULE RateLimiter ----------------------------
(* RateLimiter (handlers/display_api.py): a sliding window of the last grants,   *)
(* shared by everything that spends from it. /display has one for its writes,    *)
(* the timeline another for its replays. One call of acquire() runs under the    *)
(* limiter's lock, so it is one step.                                            *)
EXTENDS Integers, Sequences

CONSTANTS Limit,        \* `limit`: grants per window
          Window,       \* `window`, in ticks of the clock
          Instants      \* the times the clock may say, in ticks (the bound of it)

ASSUME LimiterAssumption ==
    Limit \in Nat \ {0} /\ Window \in Nat \ {0} /\ Instants \subseteq Nat

VARIABLES clock,        \* time.monotonic()
          hits,         \* `_hits`: when the grants still counted were given
          granted       \* every grant ever given: what the properties speak of

limiterVars == <<clock, hits, granted>>

\* The grants left once those a window old are popped from the front, given that k are.
Left(k) == SubSeq(hits, k + 1, Len(hits))

\* The k the `while` loop pops: all old ones, up to the first that is not.
Popped(k) ==
    /\ \A i \in 1 .. k : clock - hits[i] >= Window
    /\ k < Len(hits) => clock - hits[k + 1] < Window

\* Mutant: one grant too many.
Acquire_OffByOne ==
    \E k \in 0 .. Len(hits) :
        /\ Popped(k)
        /\ Len(Left(k)) <= Limit
        /\ hits' = Append(Left(k), clock)
        /\ granted' = Append(granted, clock)
        /\ UNCHANGED clock

\* acquire() with a slot free: it returns 0.
Acquire ==
    \E k \in 0 .. Len(hits) :
        /\ Popped(k)
        /\ Len(Left(k)) < Limit
        /\ hits' = Append(Left(k), clock)
        /\ granted' = Append(granted, clock)
        /\ UNCHANGED clock

\* Mutant: the age of the oldest grant is what is told.
Refuse_Age(wait) ==
    \E k \in 0 .. Len(hits) :
        /\ Popped(k)
        /\ Len(Left(k)) >= Limit
        /\ wait = clock - Left(k)[1] + 1
        /\ hits' = Left(k)
        /\ UNCHANGED <<clock, granted>>

\* acquire() with none: it returns the time until one frees up, `wait`.
Refuse(wait) ==
    \E k \in 0 .. Len(hits) :
        /\ Popped(k)
        /\ Len(Left(k)) >= Limit
        /\ wait = Window - (clock - Left(k)[1])
        /\ hits' = Left(k)
        /\ UNCHANGED <<clock, granted>>

Tick == clock' \in {t \in Instants : t > clock} /\ UNCHANGED <<hits, granted>>

LimiterInit == clock = 0 /\ hits = <<>> /\ granted = <<>>
LimiterNext == Tick \/ Acquire \/ \E wait \in 1 .. Window : Refuse(wait)
LimiterSpec == LimiterInit /\ [][LimiterNext]_limiterVars

(* No window of Window seconds holds more than Limit grants, wherever it begins:  *)
(* the grant Limit places later is at least a window away. What popping grants    *)
(* by their age, one call at a time and with calls from several threads, is for.  *)
AtMostLimit ==
    \A i \in DOMAIN granted :
        i + Limit \in DOMAIN granted => granted[i + Limit] - granted[i] >= Window
=============================================================================

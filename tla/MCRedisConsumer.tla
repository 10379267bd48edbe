-------------------------- MODULE MCRedisConsumer --------------------------
(* Instances of RedisConsumer small enough for TLC. *)
EXTENDS RedisConsumer

CONSTANTS A, B,
          Losses, Restarts, Switches, Failures, Signals  \* the bounds, one by one

MCAllowed == [loss |-> Losses, restart |-> Restarts, switch |-> Switches,
              fault |-> Failures, signal |-> Signals]
=============================================================================

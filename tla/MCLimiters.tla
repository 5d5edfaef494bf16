----------------------------- MODULE MCLimiters -----------------------------
(* The two rate limiters for TLC, one of them at a time: the other stays at  *)
(* its initial state.                                                        *)
EXTENDS MemoryLimiter, TLC

CONSTANTS RedisMax, RedisWindow, RedisMaxTime, Outages

VARIABLES shared, redisClock, count, expiry, redisPc, at, creator, flushed

redisVars == <<redisClock, count, expiry, redisPc, at, creator, flushed>>

Redis == INSTANCE RedisLimiter WITH
    Max <- RedisMax, Window <- RedisWindow, MaxTime <- RedisMaxTime, clock <- redisClock, pc <- redisPc

ASSUME LimitersAssumption == Redis!RedisAssumption

LimitersInit == shared \in BOOLEAN /\ Init /\ Redis!Init

LimitersNext ==
    /\ UNCHANGED shared
    /\ \/ ~shared /\ Next /\ UNCHANGED redisVars
       \/ shared /\ Redis!Next /\ UNCHANGED vars

LimitersSpec == LimitersInit /\ [][LimitersNext]_<<shared, vars, redisVars>>

RedisTypeOK == Redis!TypeOK
BurstCap == Redis!BurstCap
TimeToLive == Redis!TimeToLive
NeverLockedOut == Redis!NeverLockedOut

Symmetry == Permutations(Calls)
=============================================================================

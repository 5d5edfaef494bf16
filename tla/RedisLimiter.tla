---------------------------- MODULE RedisLimiter ----------------------------
(***************************************************************************)
(* The shared rate limiter (RateLimiter::Redis in ratelimit.rs): a counter *)
(* per key in Redis, incremented by every attempt of every API instance,   *)
(* and given a time to live by the attempt that created it.  INCR and      *)
(* EXPIRE are two commands.                                                *)
(***************************************************************************)
EXTENDS Integers, FiniteSets

CONSTANTS
    Calls,      \* the attempts of one key
    Max,        \* attempts per window, 10 in the code
    Window,     \* window_secs
    MaxTime,    \* bound: the last clock tick
    Outages     \* BOOLEAN: may a command fail, or the caller stop between the two?

RedisAssumption ==
    /\ Max \in Nat \ {0} /\ Window \in Nat \ {0} /\ MaxTime \in Nat
    /\ IsFiniteSet(Calls)

Never == MaxTime + Window + 1    \* the key has no time to live

VARIABLES
    clock,
    count,     \* the counter, 0 where the key does not exist
    expiry,    \* when Redis drops the key
    pc,        \* where each attempt is
    at,        \* history: when it was counted
    creator,   \* history: the attempt whose INCR created the key, if it exists
    flushed    \* history: when Redis last restarted, -1 for never

vars == <<clock, count, expiry, pc, at, creator, flushed>>

TypeOK ==
    /\ clock \in 0..MaxTime
    /\ count \in 0..Cardinality(Calls)
    /\ expiry \in 0..Never
    /\ pc \in [Calls -> {"idle", "expire", "unset", "admitted", "refused", "open"}]
    /\ at \in [Calls -> 0..MaxTime]
    /\ creator \subseteq Calls
    /\ flushed \in -1..MaxTime

Init ==
    /\ clock = 0
    /\ count = 0
    /\ expiry = Never
    /\ pc = [c \in Calls |-> "idle"]
    /\ at = [c \in Calls |-> 0]
    /\ creator = {}
    /\ flushed = -1

\* Redis drops the key when its time has come.
Tick ==
    /\ clock < MaxTime
    /\ clock' = clock + 1
    /\ IF expiry <= clock'
       THEN count' = 0 /\ expiry' = Never /\ creator' = {}
       ELSE UNCHANGED <<count, expiry, creator>>
    /\ UNCHANGED <<pc, at, flushed>>

\* Mutant of Verdict: the quota is compared with the count before the INCR.
VerdictOff(n) == IF n <= Max + 1 THEN "admitted" ELSE "refused"
Verdict(n) == IF n <= Max THEN "admitted" ELSE "refused"

\* Redis counts the attempt; a key that was not there now is, without a time to live.
Counts(c) ==
    /\ count' = count + 1
    /\ creator' = IF count = 0 THEN {c} ELSE creator

IncrSet(c) ==    \* mutant of Incr: GET and SET, which drops the time to live
    /\ pc[c] = "idle"
    /\ Counts(c) /\ expiry' = Never
    /\ at' = [at EXCEPT ![c] = clock]
    /\ pc' = [pc EXCEPT ![c] = IF count' = 1 THEN "expire" ELSE Verdict(count')]
    /\ UNCHANGED <<clock, flushed>>
\* INCR; the first attempt goes on to EXPIRE, the others have their answer.
Incr(c) ==
    /\ pc[c] = "idle"
    /\ Counts(c)
    /\ at' = [at EXCEPT ![c] = clock]
    /\ pc' = [pc EXCEPT ![c] = IF count' = 1 THEN "expire" ELSE Verdict(count')]
    /\ UNCHANGED <<clock, expiry, flushed>>

FailUndo(c) ==    \* mutant of FailOpen: takes back an INCR that never happened
    /\ Outages /\ pc[c] = "idle"
    /\ pc' = [pc EXCEPT ![c] = "open"]
    /\ count' = count - 1
    /\ UNCHANGED <<clock, expiry, at, creator, flushed>>
\* INCR fails, and the attempt is let through: Redis never saw it, or counted it
\* and the answer was lost.
FailOpen(c) ==
    /\ Outages /\ pc[c] = "idle"
    /\ pc' = [pc EXCEPT ![c] = "open"]
    /\ UNCHANGED <<count, creator>> \/ Counts(c)
    /\ UNCHANGED <<clock, expiry, at, flushed>>

\* EXPIRE; it does nothing to a key that is gone.
Expire(c) ==
    /\ pc[c] = "expire"
    /\ expiry' = IF count > 0 THEN clock + Window ELSE expiry
    /\ pc' = [pc EXCEPT ![c] = Verdict(1)]
    /\ UNCHANGED <<clock, count, at, creator, flushed>>

\* EXPIRE fails and its error is ignored, or the handler is dropped before it.
FailExpire(c) ==
    /\ Outages /\ pc[c] = "expire"
    /\ pc' = [pc EXCEPT ![c] = "unset"]
    /\ UNCHANGED <<clock, count, expiry, at, creator, flushed>>

\* Redis restarts, without persistence.
Flush ==
    /\ count' = 0 /\ expiry' = Never /\ creator' = {}
    /\ flushed' = clock
    /\ UNCHANGED <<clock, pc, at>>

Attempt(c) == Incr(c) \/ FailOpen(c) \/ Expire(c) \/ FailExpire(c)
Next == Tick \/ Flush \/ \E c \in Calls : Attempt(c)

Spec == Init /\ [][Next]_vars

-----------------------------------------------------------------------------

Counted == {c \in Calls : pc[c] \in {"expire", "unset", "admitted"}}

\* A fixed window lets a burst end one window and another begin the next, but no
\* more: any stretch of Window ticks since Redis last started has at most twice
\* Max counted admissions, whoever sends EXPIRE how late.
BurstCap ==
    \A t \in 0..MaxTime : flushed < t - Window =>
        Cardinality({c \in Counted : t - Window < at[c] /\ at[c] <= t}) <= 2 * Max

\* A counter has its time to live from the attempt that created it, and from nobody
\* else: it goes without only while that attempt's EXPIRE is still to come, or once
\* it is lost ("unset") or was never sent, the answer to its INCR being lost
\* ("open").  In the last two cases the key refuses for good past Max.
TimeToLive ==
    count > 0 /\ expiry = Never => \E c \in creator : pc[c] \in {"expire", "unset", "open"}

\* ratelimit.rs:9: "so a cache outage never locks users out": a counter that refuses
\* expires, or is about to be told when.
NeverLockedOut ==
    count > Max => expiry # Never \/ \E c \in Calls : pc[c] = "expire"
=============================================================================

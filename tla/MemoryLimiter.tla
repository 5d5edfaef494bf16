--------------------------- MODULE MemoryLimiter ---------------------------
(***************************************************************************)
(* The in-process rate limiter (MemoryLimiter in ratelimit.rs): a sliding  *)
(* window of the admitted attempts of one key, under a mutex.  The caller  *)
(* reads the clock before it takes the lock, so checks may run in another  *)
(* order than their time stamps.                                           *)
(***************************************************************************)
EXTENDS Integers, FiniteSets

CONSTANTS
    Calls,      \* the attempts of one key
    Max,        \* attempts per window, 10 in the code
    Window,     \* length of the window
    MaxTime     \* bound: the last clock tick

ASSUME LimiterAssumption ==
    /\ Max \in Nat /\ Window \in Nat \ {0} /\ MaxTime \in Nat
    /\ IsFiniteSet(Calls)

VARIABLES
    clock,
    now,       \* the stamp of each attempt
    pc,        \* where it is
    bucket,    \* the attempts the key's Vec holds
    newest,    \* history: the newest stamp a check has used
    late       \* history: has a check been overtaken by one with a later stamp?

vars == <<clock, now, pc, bucket, newest, late>>

TypeOK ==
    /\ clock \in 0..MaxTime
    /\ now \in [Calls -> 0..MaxTime]
    /\ pc \in [Calls -> {"idle", "stamped", "admitted", "refused"}]
    /\ bucket \subseteq Calls
    /\ newest \in 0..MaxTime
    /\ late \in BOOLEAN

Init ==
    /\ clock = 0
    /\ now = [c \in Calls |-> 0]
    /\ pc = [c \in Calls |-> "idle"]
    /\ bucket = {}
    /\ newest = 0
    /\ late = FALSE

Tick ==
    /\ clock < MaxTime
    /\ clock' = clock + 1
    /\ UNCHANGED <<now, pc, bucket, newest, late>>

StampNext(c) ==    \* mutant of Stamp: rounds up to the next tick
    /\ pc[c] = "idle"
    /\ now' = [now EXCEPT ![c] = clock + 1]
    /\ pc' = [pc EXCEPT ![c] = "stamped"]
    /\ UNCHANGED <<clock, bucket, newest, late>>
\* Instant::now(), an argument of check.
Stamp(c) ==
    /\ pc[c] = "idle"
    /\ now' = [now EXCEPT ![c] = clock]
    /\ pc' = [pc EXCEPT ![c] = "stamped"]
    /\ UNCHANGED <<clock, bucket, newest, late>>

KeptLong(c) == bucket    \* mutant of Kept: nothing is evicted
\* retain: duration_since saturates at zero, so a later stamp stays.
Kept(c) == {d \in bucket : now[c] - now[d] < Window}

Observe(c) ==    \* the history variables
    /\ newest' = IF now[c] > newest THEN now[c] ELSE newest
    /\ late' = IF now[c] < newest THEN TRUE ELSE late

CheckLate(c) ==    \* mutant of Check: pushes before it counts
    /\ pc[c] = "stamped"
    /\ LET kept == Kept(c) \cup {c} IN
         /\ bucket' = kept
         /\ pc' = [pc EXCEPT ![c] = IF Cardinality(kept) <= Max + 1
                                    THEN "admitted" ELSE "refused"]
    /\ Observe(c)
    /\ UNCHANGED <<clock, now>>
CheckByOldest(c) ==    \* mutant of Check: one old attempt empties the bucket
    /\ pc[c] = "stamped"
    /\ LET kept == IF Kept(c) = bucket THEN bucket ELSE {} IN
         IF Cardinality(kept) >= Max
         THEN bucket' = kept /\ pc' = [pc EXCEPT ![c] = "refused"]
         ELSE bucket' = kept \cup {c} /\ pc' = [pc EXCEPT ![c] = "admitted"]
    /\ Observe(c)
    /\ UNCHANGED <<clock, now>>
\* The body of check, under the lock.
Check(c) ==
    /\ pc[c] = "stamped"
    /\ LET kept == Kept(c) IN
         IF Cardinality(kept) >= Max
         THEN bucket' = kept /\ pc' = [pc EXCEPT ![c] = "refused"]
         ELSE bucket' = kept \cup {c} /\ pc' = [pc EXCEPT ![c] = "admitted"]
    /\ Observe(c)
    /\ UNCHANGED <<clock, now>>

Next == Tick \/ \E c \in Calls : Stamp(c) \/ Check(c)

Spec == Init /\ [][Next]_vars

-----------------------------------------------------------------------------

Admitted == {c \in Calls : pc[c] = "admitted"}
\* The admitted attempts of the window that ends at t.
InWindow(t) == {c \in Admitted : t - Window < now[c] /\ now[c] <= t}

\* Whatever the order in which threads get the lock, the window that ends at the
\* newest stamp never holds more than Max admitted attempts.
WindowCap == Cardinality(InWindow(newest)) <= Max

\* "at most `max` events per `window` per key": of every window, not only of the
\* newest, until a check is overtaken between reading the clock and the lock.
EveryWindowCap ==
    ~late => \A t \in 0..MaxTime : Cardinality(InWindow(t)) <= Max

\* An attempt is refused only when the attempts admitted less than a window
\* before it fill the quota: refusals do not count, so nobody is locked out by
\* insisting, and a key is free again after a quiet window.
RefuseStep ==
    \A c \in Calls : pc[c] = "stamped" /\ pc'[c] = "refused" =>
        Cardinality({d \in Admitted : now[c] - now[d] < Window}) >= Max
RefusedForCause == [][RefuseStep]_vars
=============================================================================

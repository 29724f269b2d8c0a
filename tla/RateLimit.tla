------------------------------- MODULE RateLimit -------------------------------
(***************************************************************************)
(* The rate limiter of app/middleware/rate_limit.py.  Each process of the  *)
(* server decides at start-up whether it counts in Redis, which all share, *)
(* or in its own memory.  In Redis a request is stamped, then one          *)
(* transaction drops the stamps of before the window, counts the others    *)
(* and adds its own, refused or not; pipelines run in any order.  In       *)
(* memory a refused request leaves nothing.  A process that counts in      *)
(* Redis has no memory to fall back on: while Redis is down its requests   *)
(* end in an error (AttributeError on _memory_store).                      *)
(***************************************************************************)
EXTENDS Requests, Functions

CONSTANTS
    Keys, Limit,          \* client and path; Limit[k]: requests in a window
    WINDOW, MaxInstants,      \* the window, in ticks, and a bound on time
    MaxAsked              \* bound on the requests of a key

ASSUME RateAssumption ==
    /\ Limit \in [Keys -> Nat \ {0}] /\ WINDOW \in Nat \ {0}
    /\ MaxInstants \in Nat /\ MaxAsked \in Nat
    /\ Keys # {} /\ IsFiniteSet(Workers)

Stamps == 0..MaxInstants
Counters == [Keys -> [Stamps -> 0..MaxAsked]]
NoStamps == [k \in Keys |-> [s \in Stamps |-> 0]]

VARIABLES
    shares,         \* processes that count in Redis
    redisUp,
    zset,           \* number of entries of each stamp in Redis
    memory,         \* the same, in the memory of each process
    time,
    asked, let,     \* history: requests of each stamp, and those let through
    denied,         \* history: refused requests
    freq            \* the request each process is checking

rateVars == <<shares, redisUp, zset, memory, time, asked, let, denied, freq>>

FIdle == [pc |-> "idle", key |-> CHOOSE k \in Keys : TRUE, at |-> 0]
CheckRequest == [pc : {"idle", "pipeline"}, key : Keys, at : Stamps]

(* Requests of a counter after stamp s. *)
After(counter, s) == SumFunctionOnSet(counter, {x \in Stamps : x > s})
InWindow(counter, s) == SumFunctionOnSet(counter, {x \in Stamps : s - WINDOW < x /\ x <= s})

RateInit ==
    /\ shares \in SUBSET Workers /\ redisUp = TRUE
    /\ zset = NoStamps /\ memory = [p \in Workers |-> NoStamps]
    /\ time = 0
    /\ asked = NoStamps /\ let = NoStamps /\ denied = {}
    /\ freq = [p \in Workers |-> FIdle]

-----------------------------------------------------------------------------
Tally(k, s, allowed) ==
    /\ let' = IF allowed THEN [let EXCEPT ![k][s] = @ + 1] ELSE let
    /\ denied' = IF allowed THEN denied ELSE denied \cup {<<k, s>>}

Ask(k) == /\ After(asked[k], -1) < MaxAsked
          /\ asked' = [asked EXCEPT ![k][time] = @ + 1]

(* A process that counts in Redis takes the time first. *)
Stamp(p, k) ==
    /\ p \in shares /\ ~Busy(freq, p)
    /\ Ask(k)
    /\ freq' = [freq EXCEPT ![p] = [pc |-> "pipeline", key |-> k, at |-> time]]
    /\ UNCHANGED <<shares, redisUp, zset, memory, time, let, denied>>

(* _check_rate_limit_redis *)
CheckRedis(p) ==
    LET q == freq[p]
        window == [s \in Stamps |-> IF s <= q.at - WINDOW THEN 0 ELSE zset[q.key][s]]
    IN
    /\ q.pc = "pipeline" /\ redisUp
    /\ zset' = [zset EXCEPT ![q.key] = [window EXCEPT ![q.at] = @ + 1]]
    /\ Tally(q.key, q.at, After(window, -1) < Limit[q.key])
    /\ freq' = [freq EXCEPT ![p] = FIdle]
    /\ UNCHANGED <<shares, redisUp, memory, time, asked>>

FallBack(p) ==
    /\ freq[p].pc = "pipeline" /\ ~redisUp
    /\ freq' = [freq EXCEPT ![p] = FIdle]
    /\ UNCHANGED <<shares, redisUp, zset, memory, time, asked, let, denied>>

(* Mutant of CheckMemory: old entries stay. *)
CheckMemoryNoCleaning(p, k) ==
    LET allowed == After(memory[p][k], -1) < Limit[k] IN
    /\ p \notin shares
    /\ Ask(k)
    /\ memory' = [memory EXCEPT ![p][k] = IF allowed THEN [@ EXCEPT ![time] = @ + 1] ELSE @]
    /\ Tally(k, time, allowed)
    /\ UNCHANGED <<shares, redisUp, zset, time, freq>>

(* _check_rate_limit_memory, in one step of the event loop. *)
CheckMemory(p, k) ==
    LET window == [s \in Stamps |-> IF s <= time - WINDOW THEN 0 ELSE memory[p][k][s]]
        allowed == After(window, -1) < Limit[k]
    IN
    /\ p \notin shares
    /\ Ask(k)
    /\ memory' = [memory EXCEPT ![p][k] = IF allowed THEN [window EXCEPT ![time] = @ + 1]
                                          ELSE window]
    /\ Tally(k, time, allowed)
    /\ UNCHANGED <<shares, redisUp, zset, time, freq>>

Instant == /\ time < MaxInstants /\ time' = time + 1
           /\ UNCHANGED <<shares, redisUp, zset, memory, asked, let, denied, freq>>

Outage == /\ redisUp' = ~redisUp
          /\ UNCHANGED <<shares, zset, memory, time, asked, let, denied, freq>>

RateNext ==
    \/ \E p \in Workers, k \in Keys : Stamp(p, k) \/ CheckMemory(p, k)
    \/ \E p \in Workers : CheckRedis(p) \/ FallBack(p)
    \/ Instant \/ Outage

RateSpec == RateInit /\ [][RateNext]_rateVars

-----------------------------------------------------------------------------
RateTypeOK ==
    /\ shares \subseteq Workers /\ redisUp \in BOOLEAN /\ time \in Stamps
    /\ {zset, asked, let} \subseteq Counters /\ memory \in [Workers -> Counters]
    /\ denied \subseteq Keys \X Stamps /\ freq \in [Workers -> CheckRequest]

(* What a window lets through: the limit once for the processes that share *)
(* Redis, and once for each that does not; a process whose pipeline comes  *)
(* late, after another dropped the stamps it should have counted, adds one *)
(* each.                                                                   *)
Allowance(k) ==
    Limit[k] * Cardinality(Workers \ shares)
      + (IF shares = {} THEN 0 ELSE Limit[k] + Cardinality(shares) - 1)
WithinLimit == \A k \in Keys, s \in Stamps : InWindow(let[k], s) <= Allowance(k)

(* Only those who asked for more than the limit are refused: a client who  *)
(* does not exceed it in any window never is.                              *)
RefusedAboveLimit ==
    \A d \in denied : After(asked[d[1]], d[2] - WINDOW) > Limit[d[1]]

(* The limiter lets through what it allows and refuses nobody else. *)
RateConsistent == RateTypeOK /\ WithinLimit /\ RefusedAboveLimit
=============================================================================

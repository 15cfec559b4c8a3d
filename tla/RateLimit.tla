----------------------------- MODULE RateLimit -----------------------------
(***************************************************************************)
(* The per-key token bucket of admission.rs (tina-runtime).  Every call    *)
(* brings its own `now`; a bucket is refilled lazily, from the time that   *)
(* passed since the key was last seen, and a refused caller is told the    *)
(* delay after which a token will be there.  Token credit is counted in    *)
(* fractions of a token (One of them, a billion in the code), time in the  *)
(* unit in which one fraction per unit is a rate of one token per second.  *)
(***************************************************************************)
EXTENDS Integers, Sequences, FiniteSets

CONSTANTS
    RateKeys,
    NoBucket,     \* a key without a slot, a refusal without a delay
    RateConfigs,  \* the RateLimitConfigs a policy may be built with
    One,          \* ONE_TOKEN_NT
    MaxNow        \* bound: the last time a call may carry

\* What the code asks of the constants.
RateAssumption ==
    /\ RateConfigs \subseteq [maxKeys : Nat \ {0}, rate : Nat \ {0}, burst : Nat \ {0}]
    /\ One \in Nat \ {0} /\ MaxNow \in Nat /\ NoBucket \notin Nat

VARIABLES
    config,      \* max_keys, rate_per_sec, and burst in tokens
    monotonic,   \* TRUE: `now` never goes back, as try_admit_at asks for
    available,   \* slot of the key: available_nt, or NoBucket without a slot
    lastSeen,    \* slot of the key: last_seen
    rateClosed,  \* closed
    latest,      \* ghost: the largest now so far
    admits,      \* ghost: the slot times at which the key was admitted since
    retryAt      \* ghost: the time the key was last told to come back at

rateVars == <<config, monotonic, available, lastSeen, rateClosed, latest, admits, retryAt>>

Times == 0 .. MaxNow
Rate == config.rate
BurstFractions == config.burst * One
Tracked == {k \in RateKeys : available[k] # NoBucket}

Least(a, b) == IF a <= b THEN a ELSE b
CeilDiv(a, b) == (a + b - 1) \div b

RateInit ==
    /\ config \in RateConfigs
    /\ monotonic \in BOOLEAN
    /\ available = [k \in RateKeys |-> NoBucket]
    /\ lastSeen = [k \in RateKeys |-> 0]
    /\ rateClosed = FALSE
    /\ latest = 0
    /\ admits = [k \in RateKeys |-> <<>>]
    /\ retryAt = [k \in RateKeys |-> NoBucket]

-----------------------------------------------------------------------------
(* admit_existing.                                                         *)

\* checked_duration_since: a clock that went back contributes nothing.
Elapsed(k, now) == IF now >= lastSeen[k] THEN now - lastSeen[k] ELSE 0

Refilled(k, now) == Least(available[k] + Elapsed(k, now) * Rate, BurstFractions)

\* Mutant: last_seen follows a clock that goes back.
SeenAtFollows(k, now) == now

SeenAt(k, now) == IF Elapsed(k, now) = 0 THEN lastSeen[k] ELSE now

RetryDelay(credit) == CeilDiv(One - credit, Rate)

AdmitTracked(k, now) ==
    LET credit == Refilled(k, now) IN
    /\ available[k] # NoBucket
    /\ credit >= One
    /\ available' = [available EXCEPT ![k] = credit - One]
    /\ lastSeen' = [lastSeen EXCEPT ![k] = SeenAt(k, now)]
    /\ admits' = [admits EXCEPT ![k] = Append(@, SeenAt(k, now))]
    /\ retryAt' = [retryAt EXCEPT ![k] = NoBucket]
    /\ UNCHANGED rateClosed

RateLimited(k, now) ==
    LET credit == Refilled(k, now) IN
    /\ available[k] # NoBucket
    /\ credit < One
    /\ available' = [available EXCEPT ![k] = credit]
    /\ lastSeen' = [lastSeen EXCEPT ![k] = SeenAt(k, now)]
    /\ retryAt' = [retryAt EXCEPT ![k] = now + RetryDelay(credit)]
    /\ UNCHANGED <<rateClosed, admits>>

-----------------------------------------------------------------------------
(* The rest of try_admit_at, and the two other operations.                 *)

\* A new key takes a slot with a full bucket, less the token it uses.
AdmitUntracked(k, now) ==
    /\ available[k] = NoBucket
    /\ Cardinality(Tracked) < config.maxKeys
    /\ available' = [available EXCEPT ![k] = BurstFractions - One]
    /\ lastSeen' = [lastSeen EXCEPT ![k] = now]
    /\ admits' = [admits EXCEPT ![k] = <<now>>]
    /\ retryAt' = [retryAt EXCEPT ![k] = NoBucket]
    /\ UNCHANGED rateClosed

\* No slot for a new key, or the policy is closed: counters only.
RefuseRate(k) ==
    /\ rateClosed \/ (available[k] = NoBucket /\ Cardinality(Tracked) >= config.maxKeys)
    /\ UNCHANGED <<available, lastSeen, rateClosed, admits, retryAt>>

TryAdmitAt(k, now) ==
    /\ monotonic => now >= latest
    /\ latest' = IF now > latest THEN now ELSE latest
    /\ \/ ~rateClosed /\ AdmitTracked(k, now)
       \/ ~rateClosed /\ RateLimited(k, now)
       \/ ~rateClosed /\ AdmitUntracked(k, now)
       \/ RefuseRate(k)

\* evict_key_for_capacity: the key is brand new afterwards.
EvictKey(k) ==
    /\ available[k] # NoBucket
    /\ available' = [available EXCEPT ![k] = NoBucket]
    /\ admits' = [admits EXCEPT ![k] = <<>>]
    /\ retryAt' = [retryAt EXCEPT ![k] = NoBucket]
    /\ UNCHANGED <<lastSeen, rateClosed, latest>>

CloseRate ==
    /\ ~rateClosed
    /\ rateClosed' = TRUE
    /\ UNCHANGED <<available, lastSeen, latest, admits, retryAt>>

RateNext ==
    /\ \/ \E k \in RateKeys, now \in Times : TryAdmitAt(k, now)
       \/ \E k \in RateKeys : EvictKey(k)
       \/ CloseRate
    /\ UNCHANGED <<config, monotonic>>

RateSpec == RateInit /\ [][RateNext]_rateVars

-----------------------------------------------------------------------------
(* Properties.                                                             *)

\* Types; a bucket never holds more than the burst, which bounds what an idle
\* key can save up.
RateTypeOK ==
    /\ config \in RateConfigs /\ monotonic \in BOOLEAN
    /\ available \in [RateKeys -> (0 .. BurstFractions) \cup {NoBucket}]
    /\ lastSeen \in [RateKeys -> Times]
    /\ rateClosed \in BOOLEAN
    /\ latest \in Times
    /\ admits \in [RateKeys -> Seq(Times)]
    /\ retryAt \in [RateKeys -> Nat \cup {NoBucket}]

\* What a key got from any of its admissions on, and what it still holds, never
\* exceed a burst and the rate times the time since, whatever the order of calls
\* and refusals and however the clock goes back: admit_existing refills from
\* last_seen, which never goes back, and keeps parts of a token.
CreditBound ==
    \A k \in Tracked : \A i \in DOMAIN admits[k] :
        /\ admits[k][i] <= lastSeen[k]
        /\ (Len(admits[k]) - i + 1) * One + available[k]
              <= BurstFractions + Rate * (lastSeen[k] - admits[k][i])

\* Between any two of its admissions a key got at most the burst and the rate
\* times the time between them: an idle stretch buys no more than one burst.
WindowBound ==
    \A k \in Tracked : \A i, j \in DOMAIN admits[k] :
        i <= j => (j - i + 1) * One <= BurstFractions + Rate * (admits[k][j] - admits[k][i])

\* retry_after is exact and stays so: with a clock that does not go back a
\* refused key is refused before the time it was told, with the same time told
\* again, and admitted at that time or later.
RetryKept ==
    \A k \in RateKeys, now \in Times :
        /\ monotonic
        /\ retryAt[k] # NoBucket
        /\ ~rateClosed
        /\ TryAdmitAt(k, now)
        => IF now >= retryAt[k] THEN admits'[k] # admits[k]
                                ELSE admits'[k] = admits[k] /\ retryAt'[k] = retryAt[k]

\* No key gets more than the burst and the rate allow.
RateHeld == RateTypeOK /\ CreditBound /\ WindowBound
=============================================================================

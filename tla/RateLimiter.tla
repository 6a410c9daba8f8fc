----------------------------- MODULE RateLimiter -----------------------------
(***************************************************************************)
(* core/ratelimit.py: the sliding window that limits one user's queries.   *)
(* Redis keeps a sorted set per user; its members are the times of the     *)
(* requests that were let through.  One pipeline prunes and counts, a      *)
(* second one records, and any number of requests may be between the two.  *)
(* A pipeline is atomic in Redis; an exception may reach the caller before *)
(* or after its effect.                                                    *)
(***************************************************************************)
EXTENDS HttpRequests

CONSTANTS
    Limit,      \* settings.query_rate_limit_per_minute
    Window,     \* window_seconds
    MaxTime     \* bound on the clock

ASSUME LimiterAssumption ==
    /\ Limit \in Nat
    /\ Window \in Nat \ {0}
    /\ MaxTime \in Nat

VARIABLES
    clock,      \* time.time()
    window,     \* the members of the user's sorted set
    expires,    \* when Redis drops the key, or -1 while there is none
    now,        \* the time a request brought to is_allowed
    check,      \* how far the request is in is_allowed
    recorded    \* history: the times ever recorded

limiterVars == <<clock, window, expires, now, check, recorded>>

Times == 0..MaxTime

LimiterInit ==
    /\ clock = 0
    /\ window = {}
    /\ expires = -1
    /\ now = [r \in Requests |-> 0]
    /\ check = [r \in Requests |-> "idle"]
    /\ recorded = {}

-----------------------------------------------------------------------------
Verdict(r, verdict) == check' = [check EXCEPT ![r] = verdict]

(* rate_limit_query takes the time and calls is_allowed. *)
CallLimiter(r) ==
    /\ check[r] = "idle"
    /\ now' = [now EXCEPT ![r] = clock]
    /\ Verdict(r, "called")
    /\ UNCHANGED <<clock, window, expires, recorded>>

(* Mutant of Kept: everything up to now goes. *)
Kept_UpToNow(r) == {t \in window : t > now[r]}

(* zremrangebyscore(key, "-inf", now - window_seconds), inclusive. *)
Kept(r) == {t \in window : t > now[r] - Window}

(* Mutant of Full: one more than the limit. *)
Full_OffByOne(entries) == Cardinality(entries) > Limit

Full(entries) == Cardinality(entries) >= Limit

(* Mutant of PruneAndCount: the request is recorded before it is judged. *)
PruneAndCount_RecordsFirst(r) ==
    /\ check[r] = "called"
    /\ window' = Kept(r) \cup {now[r]}
    /\ expires' = clock + Window
    /\ Verdict(r, IF Full(Kept(r)) THEN "over" ELSE "counted")
    /\ UNCHANGED <<clock, now, recorded>>

(* The first pipeline.  A key whose last member goes is gone. *)
PruneAndCount(r) ==
    /\ check[r] = "called"
    /\ window' = Kept(r)
    /\ expires' = IF Kept(r) = {} THEN -1 ELSE expires
    /\ Verdict(r, IF Full(Kept(r)) THEN "over" ELSE "counted")
    /\ UNCHANGED <<clock, now, recorded>>

(* _retry_after reads the oldest entry, or fails to: the answer is 429.     *)
(* The number in its header is not modelled.                               *)
ReadOldest(r) ==
    /\ check[r] = "over"
    /\ Verdict(r, "rejected")
    /\ UNCHANGED <<clock, window, expires, now, recorded>>

(* Mutant of TimeToLive: seconds where pexpire takes milliseconds. *)
TimeToLive_AtOnce == clock

TimeToLive == clock + Window

RecordEntry(r) ==
    /\ window' = window \cup {now[r]}
    /\ expires' = TimeToLive
    /\ recorded' = recorded \cup {now[r]}

(* The second pipeline: zadd of str(now), so that equal times are one       *)
(* member, and pexpire, which counts from the moment Redis executes it.    *)
Record(r) ==
    /\ check[r] = "counted"
    /\ RecordEntry(r)
    /\ Verdict(r, "allowed")
    /\ UNCHANGED <<clock, now>>

(* Redis raises: the request is allowed, whether or not the pipeline that   *)
(* raised had its effect.                                                  *)
FailOpen(r) ==
    /\ \/ /\ check[r] = "called"
          /\ window' \in {window, Kept(r)}
          /\ expires' = IF window' = {} THEN -1 ELSE expires
          /\ UNCHANGED recorded
       \/ /\ check[r] = "counted"
          /\ UNCHANGED <<window, expires, recorded>>
       \/ /\ check[r] = "counted"
          /\ RecordEntry(r)
    /\ Verdict(r, "allowed")
    /\ UNCHANGED <<clock, now>>

(* The request is over and its place free for another. *)
LeaveLimiter(r) ==
    /\ check[r] \in {"allowed", "rejected"}
    /\ Verdict(r, "idle")
    /\ UNCHANGED <<clock, window, expires, now, recorded>>

Tick ==
    /\ clock < MaxTime
    /\ clock' = clock + 1
    /\ UNCHANGED <<window, expires, now, check, recorded>>

(* Redis drops the key. *)
ExpireKey ==
    /\ expires # -1
    /\ clock >= expires
    /\ window' = {}
    /\ expires' = -1
    /\ UNCHANGED <<clock, now, check, recorded>>

LimiterStep(r) == PruneAndCount(r) \/ ReadOldest(r) \/ Record(r) \/ FailOpen(r)

LimiterNext ==
    \/ \E r \in Requests : CallLimiter(r) \/ LimiterStep(r) \/ LeaveLimiter(r)
    \/ Tick
    \/ ExpireKey

LimiterSpec == LimiterInit /\ [][LimiterNext]_limiterVars

-----------------------------------------------------------------------------
LimiterTypeOK ==
    /\ clock \in Times
    /\ window \in SUBSET Times
    /\ expires \in {-1} \cup (Window..(MaxTime + Window))
    /\ now \in [Requests -> Times]
    /\ check \in [Requests -> {"idle", "called", "counted", "over", "allowed", "rejected"}]
    /\ recorded \in SUBSET Times

(* Requests that all counted before any of them recorded pass together, but *)
(* no more than that: the sorted set never holds more than the limit and    *)
(* one entry for each other request that can be under way.                 *)
(* ratelimit.py:36-58, count and record in two pipelines.                  *)
OvershootBounded == Cardinality(window) <= Limit + Cardinality(Requests) - 1

(* Neither a prune with an old time, nor the expiry of the key, nor a       *)
(* failing pipeline loses an entry that still counts: what was recorded     *)
(* within the window is in the sorted set.  ratelimit.py:37 and 57.        *)
LiveEntriesKept == {t \in recorded : t > clock - Window} \subseteq window

Stretch(t) == {s \in recorded : t - Window < s /\ s <= t}

(* What "sliding window" promises of any stretch of time, and not only of   *)
(* the one that ends now: no Window, wherever it lies, ever comes to hold   *)
(* more than the limit, one recorded time for each other request that could *)
(* be under way, and one for each that could have read the clock in it and  *)
(* reach Redis only later, when its entries are pruned or have expired.     *)
(* ratelimit.py:35 (the caller's clock), 36-58 (two pipelines).             *)
AnyWindowBounded ==
    \A t \in Times : Cardinality(Stretch(t)) <= Limit + 2 * Cardinality(Requests) - 1

(* A user is turned away only for requests that were let through: with each *)
(* rejection at least Limit recorded times lie in the window that ends with *)
(* it.  "Rejected requests are not recorded, so they cannot extend the      *)
(* window" (ratelimit.py:16-17).                                           *)
RejectionsAreJustified ==
    [][\A r \in Requests :
          check'[r] = "over" /\ check[r] # "over" =>
              Cardinality({t \in recorded : t > now[r] - Window}) >= Limit]_limiterVars

-----------------------------------------------------------------------------
(* An inductive invariant for the proofs (RateLimiterProofs.tla): what a    *)
(* stretch of the past holds, and the requests that may still record in it. *)
Late(t) == {r \in Requests : check[r] \in {"called", "counted"} /\ now[r] <= t}

LateInv ==
    \A t \in Times : t < clock =>
        Cardinality(Stretch(t)) + Cardinality(Late(t)) <= Limit + 2 * Cardinality(Requests) - 1
=============================================================================

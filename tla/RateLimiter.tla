----------------------------- MODULE RateLimiter -----------------------------
(***************************************************************************)
(* The fixed-window rate limiter at the ingress, with the two callers of   *)
(* its check: _authorize, once the API key was found to be one of the      *)
(* configured, and login, before the password is looked at.                *)
(*                                                                         *)
(* Every route is a coroutine and check has no await, so a check is one    *)
(* step: the clock does not move between the read of it and the bucket.    *)
(* Each instance has its own limiter; this is one.  A request that is      *)
(* refused, or whose key is unknown, changes nothing and is no step.       *)
(***************************************************************************)
EXTENDS Naturals, Sequences

CONSTANTS
    ApiKeys,        \* settings.api_keys
    LoginKey,       \* "ui-login", the key of every attempt to log in
    MaxRequests,    \* rate_limit_requests
    Window          \* rate_limit_window_seconds, in ticks of the clock

VARIABLES
    now,       \* time.monotonic()
    bucket,    \* _buckets: requests in the window and its start; count 0 for no bucket
    times      \* history: when the requests of a key were let through, in order

vars == <<now, bucket, times>>

Keys == ApiKeys \cup {LoginKey}

Bucket == [count : 0 .. MaxRequests, started : Nat]

Init ==
    /\ now = 0
    /\ bucket = [k \in Keys |-> [count |-> 0, started |-> 0]]
    /\ times = [k \in Keys |-> << >>]

(* The window of a key has not begun, or is over. *)
Over(k) == bucket[k].count = 0 \/ now >= bucket[k].started + Window

(* RateLimiter.check raises RateLimitExceeded. *)
Refused(k) == ~Over(k) /\ bucket[k].count >= MaxRequests

(* RateLimiter.check returns. *)
Check(k) ==
    /\ ~Refused(k)
    /\ bucket' = IF Over(k) THEN [bucket EXCEPT ![k] = [count |-> 1, started |-> now]]
                 ELSE [bucket EXCEPT ![k].count = @ + 1]
    /\ times' = [times EXCEPT ![k] = Append(@, now)]
    /\ UNCHANGED now

(* A request with an API key; authenticate lets no other key through. *)
Authorize == \E k \in ApiKeys : Check(k)

(* A login, whatever its password. *)
Login == Check(LoginKey)

Tick == now' = now + 1 /\ UNCHANGED <<bucket, times>>

Next == Authorize \/ Login \/ Tick

Spec == Init /\ [][Next]_vars

-----------------------------------------------------------------------------
TypeOK ==
    /\ now \in Nat
    /\ bucket \in [Keys -> Bucket]
    /\ times \in [Keys -> Seq(Nat)]

(* Across the boundary of a window a key gets twice the limit at most: any   *)
(* 2 * MaxRequests + 1 requests that check lets through take a whole window. *)
TwiceTheLimit ==
    \A k \in Keys : \A i \in DOMAIN times[k] :
        i + 2 * MaxRequests <= Len(times[k]) =>
            times[k][i] + Window <= times[k][i + 2 * MaxRequests]

(* A caller within its rate is never refused: when check refuses a key, the *)
(* last MaxRequests that it let through are all less than a window ago      *)
(* ("rate limit exceeded: {max_requests} requests / {window_seconds}s").    *)
RefusedOnlyBeyond ==
    \A k \in Keys : Refused(k) =>
        /\ Len(times[k]) >= MaxRequests
        /\ \A i \in DOMAIN times[k] :
               i + MaxRequests > Len(times[k]) => now < times[k][i] + Window
=============================================================================

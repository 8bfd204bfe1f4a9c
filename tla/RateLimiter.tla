----------------------------- MODULE RateLimiter -----------------------------
(***************************************************************************)
(* The per-client token bucket of the HTTP API (src/api/httpapi/httpapi.go:*)
(* withRateLimit, rateLimiter.allow).                                      *)
(*                                                                         *)
(* allow reads time.Now() and only then takes l.mu; the rest of its body   *)
(* runs under the lock.  So a request is two steps: reading the clock, and *)
(* the locked body, and the clock and other requests may move between      *)
(* them.  A request is one of Requests (HttpRoutes), and its client key is *)
(* clientKey's: its API key, valid or not, or its remote host.  Time is counted in ticks; TicksPerToken ticks refill one token   *)
(* (one tick is 1 / (rpm * TicksPerToken) minutes), and tokens are kept in *)
(* ticks, so the float64 arithmetic of the code is exact here.             *)
(***************************************************************************)
EXTENDS Naturals, Integers, HttpRoutes

CONSTANTS
    Reqs,           \* goroutines serving requests
    Burst,          \* RateLimitBurst
    TicksPerToken,  \* ticks per refilled token
    MaxTime,        \* the last tick
    MaxCalls,       \* requests per goroutine
    Nil             \* no bucket for the key yet

ASSUME Burst \in Nat \ {0} /\ TicksPerToken \in Nat \ {0}

Keys == {ClientKey(q) : q \in Requests}   \* client keys

Full == Burst * TicksPerToken   \* l.burst, in ticks
One == TicksPerToken            \* one token, in ticks

VARIABLES
    clock,      \* time.Now(), in ticks
    b,          \* l.b: b[k] is Nil or [tokens, last]
    pc,         \* pc[r]: "idle" or "lock" (time read, waiting for l.mu)
    now,        \* now[r]: the time r read
    key,        \* key[r]: clientKey(r)
    calls,      \* calls[r]: requests r has served
    granted,    \* granted[k]: requests of k allowed so far (ghost)
    denied      \* denied[k]: some request of k got 429 (ghost)

vars == <<clock, b, pc, now, key, calls, granted, denied>>

Init ==
    /\ clock = 0
    /\ b = [k \in Keys |-> Nil]
    /\ pc = [r \in Reqs |-> "idle"]
    /\ now = [r \in Reqs |-> 0]
    /\ key = [r \in Reqs |-> CHOOSE k \in Keys : TRUE]
    /\ calls = [r \in Reqs |-> 0]
    /\ granted = [k \in Keys |-> 0]
    /\ denied = [k \in Keys |-> FALSE]

(* The clock moves on.                                                     *)
Tick ==
    /\ clock < MaxTime
    /\ clock' = clock + 1
    /\ UNCHANGED <<b, pc, now, key, calls, granted, denied>>

(* withRateLimit's handler: clientKey(r), then allow's now := time.Now().  *)
Arrive(r, q) ==
    /\ pc[r] = "idle" /\ calls[r] < MaxCalls
    /\ calls' = [calls EXCEPT ![r] = @ + 1]
    /\ key' = [key EXCEPT ![r] = ClientKey(q)]
    /\ now' = [now EXCEPT ![r] = clock]
    /\ pc' = [pc EXCEPT ![r] = "lock"]
    /\ UNCHANGED <<clock, b, granted, denied>>

(* The refill: tokens += elapsed * rpm, capped at l.burst.  elapsed is     *)
(* negative when another request that read a later time took the lock      *)
(* first.                                                                  *)
Refill(bk, t) ==
    IF bk.tokens + (t - bk.last) > Full THEN Full ELSE bk.tokens + (t - bk.last)

(* The body of allow under l.mu, and the handler's answer: a new key gets  *)
(* burst - 1 tokens and is allowed; otherwise refill, deny (moving last to *)
(* now) below one token, or take one.  A denial is written as 429; an     *)
(* allowed request goes on to the handler chain of HttpRoutes, which keeps *)
(* no state of the limiter's.                                              *)
Allow(r) ==
    LET k == key[r]
        t == now[r]
        tok == Refill(b[k], t)
    IN
    /\ pc[r] = "lock"
    /\ pc' = [pc EXCEPT ![r] = "idle"]
    /\ IF b[k] = Nil
       THEN /\ b' = [b EXCEPT ![k] = [tokens |-> Full - One, last |-> t]]
            /\ granted' = [granted EXCEPT ![k] = @ + 1]
            /\ UNCHANGED denied
       ELSE IF tok < One
       THEN /\ b' = [b EXCEPT ![k] = [tokens |-> tok, last |-> t]]
            /\ denied' = [denied EXCEPT ![k] = TRUE]
            /\ UNCHANGED granted
       ELSE /\ b' = [b EXCEPT ![k] = [tokens |-> tok - One, last |-> t]]
            /\ granted' = [granted EXCEPT ![k] = @ + 1]
            /\ UNCHANGED denied
    /\ UNCHANGED <<clock, now, key, calls>>

Terminating ==
    /\ \A r \in Reqs : pc[r] = "idle" /\ calls[r] = MaxCalls
    /\ UNCHANGED vars

Next ==
    \/ Tick
    \/ \E r \in Reqs, q \in Requests : Arrive(r, q)
    \/ \E r \in Reqs : Allow(r)
    \/ Terminating

Spec == Init /\ [][Next]_vars

-----------------------------------------------------------------------------
(* Properties.                                                             *)

(* A client is refused (429) only after Burst of its requests have been    *)
(* allowed: RateLimitBurst "defines burst capacity", so the first Burst    *)
(* requests of a client, however close together, all get through.         *)
NoDenialWithinBurst ==
    \A k \in Keys : denied[k] => granted[k] >= Burst

=============================================================================

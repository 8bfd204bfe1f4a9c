---------------------------- MODULE MCRateLimiter ----------------------------
(* RateLimiter instantiated for TLC: two goroutines serving two requests   *)
(* each from one host, burst 2 (the smallest burst with a second request   *)
(* to refuse), two ticks per token, so that half a token of clock skew     *)
(* between two requests is enough.  The requests are a points POST and a  *)
(* state GET with the key k1 (one bucket, shared), a badge POST with an    *)
(* unknown X-API-Key (a bucket of its own, as clientKey does not check the *)
(* key), a CORS preflight without a key, and a health probe whose bearer   *)
(* token is blank although its X-API-Key is k1 (both counted against the  *)
(* host).                                                                  *)
EXTENDS RateLimiter

CONSTANTS r1, r2

MCReqs == {r1, r2}
Host == "203.0.113.7"
MCRequests == {
    [method |-> "POST", path |-> <<"users", "u1", "points">>, bearer |-> "k1",
     xkey |-> "", ip |-> Host, delta |-> "5"],
    [method |-> "POST", path |-> <<"users", "u1", "badges", "gold">>, bearer |-> NoHeader,
     xkey |-> "bogus", ip |-> Host, delta |-> ""],
    [method |-> "OPTIONS", path |-> <<"users", "u1">>, bearer |-> NoHeader,
     xkey |-> "", ip |-> Host, delta |-> ""],
    [method |-> "GET", path |-> <<"healthz">>, bearer |-> Blank,
     xkey |-> "k1", ip |-> Host, delta |-> ""],
    [method |-> "GET", path |-> <<"users", "u1">>, bearer |-> NoHeader,
     xkey |-> "k1", ip |-> Host, delta |-> ""]}
=============================================================================

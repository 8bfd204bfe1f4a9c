------------------------------ MODULE MCEngine ------------------------------
(* Engine instantiated for TLC: one user, the metrics xp and coins,        *)
(* int64 at 10 bits (MaxInt 511), so that two +200 calls reach level 3     *)
(* (total 400) and a third overflows.  The HTTP front of the engine,       *)
(* HttpRoutes, is configured with one API key, CORS and a hub, and checked *)
(* on every request built from three methods, nine paths, four             *)
(* Authorization headers, two X-API-Key headers and two deltas.            *)
EXTENDS Engine

CONSTANTS p1, p2

MCIntWidth == 10
MCUsers == {"alice"}
MCMetrics == {"xp", "coins"}
MCDeltas == {0, -100, 200}
MCBadges == {"onboarded"}
MCSerial == {p1}
MCConcurrent == {p1, p2}

MCPaths == {<<>>, <<"healthz">>, <<"ws">>, <<"users">>, <<"users", "u1">>,
            <<"users", " ">>, <<"users", "u1", "points">>,
            <<"users", "u1", "badges", "gold">>, <<"users", "u1", "badges", "gold!">>}
MCRequestGrid ==
    [method : {"GET", "POST", "OPTIONS"}, path : MCPaths,
     bearer : {"no bearer", "Bearer ", "k1", "bogus"}, xkey : {"", "k1", "bogus"},
     ip : {"203.0.113.7"}, delta : {"5", "x"}]

Routes == INSTANCE HttpRoutes
    WITH AuthOn <- TRUE, APIKeys <- {"k1"}, CORSOn <- TRUE, HubOn <- TRUE,
         NoHeader <- "no bearer", Blank <- "Bearer ", BadUserIds <- {" "},
         BadBadgeIds <- {"gold!"}, BadDeltas <- {"x"}, Requests <- MCRequestGrid

(* Every request that reaches the engine's callers comes through the       *)
(* handler chain of NewMux, which follows the README's route table and the *)
(* API-key check (HttpRoutes!RoutesFollowTable); checked in every state of *)
(* the callers, the table being a constant that TLC evaluates once.        *)
EngineBehindRoutes == calls \in [Procs -> 0..MaxCalls] => Routes!RoutesFollowTable

=============================================================================

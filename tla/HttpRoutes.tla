----------------------------- MODULE HttpRoutes -----------------------------
(***************************************************************************)
(* What the HTTP API (src/api/httpapi/httpapi.go) answers to one request   *)
(* once the rate limiter has let it through: withAPIKeyAuth around         *)
(* withCORS around the ServeMux of NewMux, and the users handler behind    *)
(* it, with its early returns in the order the code takes them.            *)
(*                                                                         *)
(* A request is a record: its method; its URL path as the segments split   *)
(* returns (PathPrefix "", so withPrefix leaves the patterns as written);  *)
(* its Authorization header (NoHeader, Blank for "Bearer " and spaces, or  *)
(* the key after "Bearer "); its X-API-Key header (a key or ""); the host  *)
(* of its RemoteAddr; and its delta query parameter.  User ids, badge ids  *)
(* and deltas are tokens, and the sets BadUserIds, BadBadgeIds and         *)
(* BadDeltas are those NormalizeUserID, ValidateBadgeID and ParseInt       *)
(* refuse.  The answer is the status written and the engine call made; ok  *)
(* is whether that call returns without error.                             *)
(***************************************************************************)
EXTENDS Naturals, Sequences

CONSTANTS
    AuthOn,         \* len(opts.APIKeys) > 0: withAPIKeyAuth is installed
    APIKeys,        \* allowed: the configured keys, trimmed, "" dropped
    CORSOn,         \* opts.AllowCORSOrigin != ""
    HubOn,          \* hub != nil: /ws is routed
    NoHeader,       \* no Authorization header, or not a bearer one
    Blank,          \* "Bearer " followed by spaces only
    BadUserIds, BadBadgeIds, BadDeltas,
    Requests        \* the requests considered

NoCall == "none"

Resp(status, call) == [status |-> status, call |-> call]

(* extractAPIKey: the bearer token when the Authorization header has the   *)
(* bearer prefix, even if it trims to "", and X-API-Key otherwise.         *)
ExtractAPIKey(q) ==
    CASE q.bearer = NoHeader -> q.xkey
      [] q.bearer = Blank    -> ""
      [] OTHER               -> q.bearer

(* clientKey: the API key when there is one, valid or not; the remote host *)
(* otherwise.                                                              *)
ClientKey(q) == IF ExtractAPIKey(q) # "" THEN ExtractAPIKey(q) ELSE q.ip

(* The "/users/" handler, after split(path): a wrong method, a path of     *)
(* one segment, a user id NormalizeUserID refuses, a delta ParseInt        *)
(* refuses and a badge id ValidateBadgeID refuses each end the request     *)
(* before the engine is called; GET answers GetState for any longer path.  *)
UsersHandler(q, ok) ==
    LET p == q.path IN
    IF q.method \notin {"GET", "POST"} \/ Len(p) < 2 THEN Resp(404, NoCall)
    ELSE IF p[2] \in BadUserIds THEN Resp(400, NoCall)
    ELSE IF q.method = "GET" THEN Resp(IF ok THEN 200 ELSE 500, "GetState")
    ELSE IF Len(p) >= 3 /\ p[3] = "points"
         THEN IF q.delta \in BadDeltas THEN Resp(400, NoCall)
              ELSE Resp(IF ok THEN 200 ELSE 400, "AddPoints")
    ELSE IF Len(p) >= 4 /\ p[3] = "badges"
         THEN IF p[4] \in BadBadgeIds THEN Resp(400, NoCall)
              ELSE Resp(IF ok THEN 200 ELSE 400, "AwardBadge")
    ELSE Resp(404, NoCall)

(* healthCheck: GetState for the user "healthcheck_probe", whatever the    *)
(* method, and 503 when it fails.                                          *)
HealthCheck(ok) == Resp(IF ok THEN 200 ELSE 503, "GetState")

(* NewMux's ServeMux: "/healthz" runs healthCheck; "/ws" upgrades to a     *)
(* WebSocket (101) when a hub is given; the "/users/" subtree goes to the  *)
(* users handler; anything else is 404.                                    *)
Mux(q, ok) ==
    CASE q.path = <<"healthz">>                   -> HealthCheck(ok)
      [] q.path = <<"ws">> /\ HubOn               -> Resp(101, NoCall)
      [] q.path # <<>> /\ q.path[1] = "users"     -> UsersHandler(q, ok)
      [] OTHER                                    -> Resp(404, NoCall)

(* withCORS answers a preflight (OPTIONS) itself with 204.                 *)
WithCORS(q, ok) ==
    IF q.method = "OPTIONS" THEN Resp(204, NoCall) ELSE Mux(q, ok)

(* The handler withAPIKeyAuth wraps: the mux, wrapped in withCORS when an  *)
(* origin is set.                                                          *)
CorsChain(q, ok) == IF CORSOn THEN WithCORS(q, ok) ELSE Mux(q, ok)

(* Mutant: only a missing key refused, the lookup in allowed dropped.      *)
AuthMissingOnly(q, ok) ==
    IF ExtractAPIKey(q) = "" THEN Resp(401, NoCall) ELSE CorsChain(q, ok)

(* withAPIKeyAuth: 401 for a missing key and for a key not in allowed,     *)
(* whatever the method.                                                    *)
AuthCheck(q, ok) ==
    IF ExtractAPIKey(q) = "" \/ ExtractAPIKey(q) \notin APIKeys
    THEN Resp(401, NoCall)
    ELSE CorsChain(q, ok)

(* NewMux's chain below the rate limiter: withAPIKeyAuth outermost when    *)
(* keys are given.                                                         *)
Handler(q, ok) == IF AuthOn THEN AuthCheck(q, ok) ELSE CorsChain(q, ok)

-----------------------------------------------------------------------------
(* The reference: the endpoints of the README ("Routes", "Endpoints"), the *)
(* operation each names, and what it takes for a request to be one the API *)
(* should serve.                                                           *)
UsersPath(q, n) == Len(q.path) = n /\ q.path[1] = "users"

Endpoint(q) ==
    CASE q.method = "GET"  /\ q.path = <<"healthz">>                 -> "GetState"
      [] q.method = "GET"  /\ UsersPath(q, 2)                        -> "GetState"
      [] q.method = "POST" /\ UsersPath(q, 3) /\ q.path[3] = "points" -> "AddPoints"
      [] q.method = "POST" /\ UsersPath(q, 4) /\ q.path[3] = "badges" -> "AwardBadge"
      [] OTHER                                                       -> NoCall

(* The request presents a configured key, in either header, as Options    *)
(* documents APIKeys ("via Authorization: Bearer or X-API-Key"); which     *)
(* header wins when both are sent is left open.                            *)
Presents(q) == q.bearer \in APIKeys \/ q.xkey \in APIKeys

Authorized(q) == ~AuthOn \/ Presents(q)

(* The request sends at most one of the two key headers.                   *)
OneHeader(q) == q.bearer = NoHeader \/ q.xkey = ""

(* The inputs operation op takes from the request are valid.               *)
ValidInputs(q, op) ==
    /\ Len(q.path) >= 2 /\ q.path[1] = "users" => q.path[2] \notin BadUserIds
    /\ op = "AddPoints" => q.delta \notin BadDeltas
    /\ op = "AwardBadge" => q.path[4] \notin BadBadgeIds

(* The handler chain of NewMux against the route table, for every request  *)
(* and engine outcome: the engine is called only for a request presenting *)
(* a configured key in one of the headers, with valid inputs; every        *)
(* README endpoint with valid inputs and a key in its only key header      *)
(* calls its operation; a request reaching the engine is answered 2xx      *)
(* exactly when the call succeeds; a request presenting no configured key  *)
(* gets 401.  Completeness is not claimed for requests sending both        *)
(* headers: there extractAPIKey's precedence decides, and a blank or wrong *)
(* bearer token refuses a valid X-API-Key.                                 *)
RoutesFollowTable ==
    \A q \in Requests, ok \in BOOLEAN :
      LET res == Handler(q, ok) IN
      /\ res.call # NoCall => Authorized(q) /\ ValidInputs(q, res.call)
      /\ Endpoint(q) # NoCall /\ Authorized(q) /\ OneHeader(q)
           /\ ValidInputs(q, Endpoint(q))
           => res.call = Endpoint(q)
      /\ res.call # NoCall => (res.status \in 200..299 <=> ok)
      /\ ~Authorized(q) => res.status = 401

=============================================================================

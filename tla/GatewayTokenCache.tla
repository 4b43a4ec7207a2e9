-------------------------- MODULE GatewayTokenCache --------------------------
(* The gateway's plugin google-cloud-run-auth: every request to a private   *)
(* service carries an identity token of the metadata server, cached by the  *)
(* worker.  A request that finds the token due for a refresh asks for       *)
(* another one and yields meanwhile; others pass it, find the same entry,   *)
(* and ask too.  Times are those left until something happens.              *)
EXTENDS GatewayTraffic

CONSTANTS Skew,         \* refresh_skew_seconds
          Retry,        \* refresh_retry_seconds
          Margin,       \* 15: a cached token with less left is not sent
          Fresh,        \* 30: a fetched token with less left is not taken
          MaxFetch,     \* how long the metadata request may take
          MaxLife       \* bounds the life of tokens

ASSUME TokenAssumption ==
    /\ Skew \in Nat /\ Retry \in Nat \ {0} /\ Margin \in Nat /\ Fresh \in Nat
    /\ MaxLife \in Nat
    /\ MaxFetch \in 0..Margin

VARIABLES entry,      \* token_cache[audience]: life of its token, 0 if it has
                      \* none, and time until retry_after
          request,    \* the requests in the plugin
          metadata    \* whether the metadata server answers with fresh tokens

gatewayVars == <<entry, request, metadata>>

Idle == [at |-> "idle", captured |-> 0, own |-> FALSE, elapsed |-> 0, token |-> 0]
Refused == [Idle EXCEPT !.at = "refused"]
Granted(life) == [Idle EXCEPT !.at = "granted", !.token = life]

Least(a, b) == IF a <= b THEN a ELSE b

Answer(r, outcome) == request' = [request EXCEPT ![r] = outcome]

(* a new table in the cache: requests that read another one keep theirs *)
Replace(r, table, outcome) ==
    /\ entry' = table
    /\ request' = [q \in Requests |->
                     IF q = r THEN outcome ELSE [request[q] EXCEPT !.own = FALSE]]

(* cached.expiration - refresh_skew_seconds > now *)
UseCached(r) ==
    /\ request[r].at = "idle"
    /\ entry.left > Skew
    /\ Answer(r, Granted(entry.left))
    /\ UNCHANGED <<entry, metadata>>

(* mutation: a request during the back-off starts it again *)
BugRenewsBackOff(r) ==
    /\ request[r].at = "idle"
    /\ entry.left <= Skew /\ entry.retry > 0
    /\ Answer(r, IF entry.left > Margin THEN Granted(entry.left) ELSE Refused)
    /\ entry' = [entry EXCEPT !.retry = Retry]
    /\ UNCHANGED metadata

(* cached.retry_after > now *)
BackOff(r) ==
    /\ request[r].at = "idle"
    /\ entry.left <= Skew /\ entry.retry > 0
    /\ Answer(r, IF entry.left > Margin THEN Granted(entry.left) ELSE Refused)
    /\ UNCHANGED <<entry, metadata>>

StartFetch(r) ==
    /\ request[r].at = "idle"
    /\ entry.left <= Skew /\ entry.retry = 0
    /\ Answer(r, [Idle EXCEPT !.at = "fetching", !.captured = entry.left, !.own = TRUE])
    /\ UNCHANGED <<entry, metadata>>

Fetched(r) ==
    /\ request[r].at = "fetching" /\ metadata = "up"
    /\ \E life \in (Fresh + 1)..MaxLife :
          Replace(r, [left |-> life, retry |-> 0], Granted(life))
    /\ UNCHANGED metadata

(* mutation: the back-off may outlast the token *)
BugUnboundedRetry(q) == Retry

(* until retry_after, when the request began *)
RetryAfter(q) == Least(Retry, q.captured - Margin)

(* the token read before the request is sent on, with its table's retry_after *)
FetchFailsUsable(r) ==
    LET q == request[r] IN
    /\ q.at = "fetching" /\ metadata = "down"
    /\ q.captured > Margin
    /\ entry' = IF q.own
                THEN [entry EXCEPT !.retry = Rest(RetryAfter(q) - q.elapsed)]
                ELSE entry
    /\ Answer(r, Granted(q.captured - q.elapsed))
    /\ UNCHANGED metadata

(* an entry without a token replaces whatever the cache has by now *)
FetchFails(r) ==
    LET q == request[r] IN
    /\ q.at = "fetching" /\ metadata = "down"
    /\ q.captured <= Margin
    /\ Replace(r, [left |-> 0, retry |-> Rest(Retry - q.elapsed)], Refused)
    /\ UNCHANGED metadata

EndFetch(r) == Fetched(r) \/ FetchFailsUsable(r) \/ FetchFails(r)

(* proxied to the service *)
Send(r) ==
    /\ request[r].at = "granted"
    /\ Answer(r, [Idle EXCEPT !.at = "sent"])
    /\ UNCHANGED <<entry, metadata>>

Leave(r) ==
    /\ request[r].at \in {"refused", "sent"}
    /\ Answer(r, Idle)
    /\ UNCHANGED <<entry, metadata>>

ChangeMetadata ==
    /\ metadata' = IF metadata = "up" THEN "down" ELSE "up"
    /\ UNCHANGED <<entry, request>>

Fetching(r) == request[r].at = "fetching"

GatewayTick ==
    /\ \A r \in Requests : Fetching(r) => request[r].elapsed < MaxFetch
    /\ entry' = [left |-> Rest(entry.left - 1), retry |-> Rest(entry.retry - 1)]
    /\ request' = [r \in Requests |->
                     IF Fetching(r) THEN [request[r] EXCEPT !.elapsed = @ + 1]
                     ELSE request[r]]
    /\ UNCHANGED metadata

GatewayInit ==
    /\ entry = [left |-> 0, retry |-> 0]
    /\ request = [r \in Requests |-> Idle]
    /\ metadata = "up"

InPlugin(r) == UseCached(r) \/ BackOff(r) \/ StartFetch(r) \/ EndFetch(r)

GatewayNext ==
    \/ \E r \in Requests : InPlugin(r) \/ Send(r) \/ Leave(r)
    \/ ChangeMetadata
    \/ GatewayTick

GatewaySpec == GatewayInit /\ [][GatewayNext]_gatewayVars

-----------------------------------------------------------------------------
GatewayTypeOK ==
    /\ entry \in [left : 0..MaxLife, retry : 0..Retry]
    /\ request \in [Requests -> [at : {"idle", "fetching", "granted", "refused", "sent"},
                                 captured : 0..MaxLife, own : BOOLEAN,
                                 elapsed : 0..MaxFetch, token : 0..MaxLife]]
    /\ metadata \in {"up", "down"}

(* No request leaves with an expired token, though a refresh may fail long  *)
(* after the token was looked at; and a back-off ends while the cached      *)
(* token can still be sent ("bounded retry backoff while a cached token     *)
(* remains valid", README.cloud-run.md).                                    *)
TokensOutliveTheirUse ==
    /\ \A r \in Requests : request[r].at = "granted" => request[r].token > 0
    /\ entry.left > 0 /\ entry.retry > 0 => entry.left > Margin

(* The gateway recovers: once the metadata server answers again, requests   *)
(* are refused no more, although failed refreshes that overlapped may have  *)
(* thrown good tokens away and each refusal may have met another back-off.  *)
GatewayRecovers ==
    <>[](metadata = "up") => <>[](\A r \in Requests : request[r].at # "refused")
=============================================================================

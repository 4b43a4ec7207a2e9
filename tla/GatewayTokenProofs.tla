------------------------- MODULE GatewayTokenProofs -------------------------
(* The identity tokens of the gateway, proved for every number of requests, *)
(* every configuration of the plugin and every behaviour of the metadata    *)
(* server whose answers take no longer than the margin.                     *)
EXTENDS GatewayTokenCache, TLAPS

(* a back-off ends at least Margin before the token it protects *)
BackOffLeavesMargin ==
    entry.left > 0 /\ entry.retry > 0 => entry.left - entry.retry >= Margin

(* a request that read the table of the cache knows what it has left *)
OwnTableIsCurrent ==
    \A r \in Requests :
       request[r].at = "fetching" /\ request[r].own =>
          entry.left = Rest(request[r].captured - request[r].elapsed)

GrantedIsLive ==
    \A r \in Requests : request[r].at = "granted" => request[r].token > 0

TokenInv == GatewayTypeOK /\ BackOffLeavesMargin /\ OwnTableIsCurrent /\ GrantedIsLive

Stage == [at : {"idle", "fetching", "granted", "refused", "sent"},
          captured : 0..MaxLife, own : BOOLEAN, elapsed : 0..MaxFetch, token : 0..MaxLife]

LEMMA Zeros == 0 \in 0..MaxLife /\ 0 \in 0..MaxFetch
BY TokenAssumption

LEMMA Stages ==
    /\ Idle \in Stage /\ Refused \in Stage
    /\ \A life \in 0..MaxLife : Granted(life) \in Stage
<1>1. Idle \in Stage
      BY Zeros DEF Stage, Idle
<1>2. Refused \in Stage
      BY Zeros DEF Stage, Refused, Idle
<1>3. ASSUME NEW life \in 0..MaxLife
      PROVE  Granted(life) \in Stage
      BY <1>3, Zeros DEF Stage, Granted, Idle
<1> QED BY <1>1, <1>2, <1>3

-----------------------------------------------------------------------------
LEMMA TokenInit == GatewayInit => TokenInv
BY TokenAssumption DEF GatewayInit, TokenInv, GatewayTypeOK, BackOffLeavesMargin,
   OwnTableIsCurrent, GrantedIsLive, Idle

(* A step that gives one request another place and leaves the cache alone.  *)
LEMMA PlaceKeeps ==
    ASSUME TokenInv, UNCHANGED <<entry, metadata>>,
           NEW r \in Requests, NEW outcome \in Stage, Answer(r, outcome),
           outcome.at = "granted" => outcome.token > 0,
           outcome.at = "fetching" => outcome.elapsed = 0 /\ outcome.captured = entry.left
    PROVE  TokenInv'
<1> USE TokenAssumption DEF TokenInv, GatewayTypeOK
<1>1. request' \in [Requests -> Stage]
      BY DEF Answer, Stage
<1>2. GatewayTypeOK'
      BY <1>1 DEF Stage
<1>3. BackOffLeavesMargin'
      BY DEF BackOffLeavesMargin
<1>4. OwnTableIsCurrent'
  <2> SUFFICES ASSUME NEW q \in Requests, request'[q].at = "fetching", request'[q].own
               PROVE  entry.left = Rest(request'[q].captured - request'[q].elapsed)
      BY DEF OwnTableIsCurrent
  <2>1. CASE q = r
        BY <2>1 DEF Answer, Rest
  <2>2. CASE q # r
        BY <2>2 DEF Answer, OwnTableIsCurrent
  <2> QED BY <2>1, <2>2
<1>5. GrantedIsLive'
      BY DEF GrantedIsLive, Answer
<1> QED BY <1>2, <1>3, <1>4, <1>5

LEMMA UseCachedKeeps ==
    ASSUME TokenInv, NEW r \in Requests, UseCached(r)
    PROVE  TokenInv'
<1>1. entry.left \in 0..MaxLife /\ entry.left > 0
      BY TokenAssumption DEF TokenInv, GatewayTypeOK, UseCached
<1>2. Granted(entry.left) \in Stage
      BY <1>1, Stages
<1> QED BY <1>1, <1>2, PlaceKeeps DEF UseCached, Granted, Idle

LEMMA BackOffKeeps ==
    ASSUME TokenInv, NEW r \in Requests, BackOff(r)
    PROVE  TokenInv'
<1>1. entry.left \in 0..MaxLife
      BY DEF TokenInv, GatewayTypeOK
<1>2. CASE entry.left > Margin
  <2>1. Granted(entry.left) \in Stage /\ entry.left > 0
        BY <1>1, <1>2, Stages, TokenAssumption
  <2> QED BY <1>2, <2>1, PlaceKeeps DEF BackOff, Granted, Idle
<1>3. CASE ~(entry.left > Margin)
      BY <1>3, Stages, PlaceKeeps DEF BackOff, Refused, Idle
<1> QED BY <1>2, <1>3

LEMMA StartFetchKeeps ==
    ASSUME TokenInv, NEW r \in Requests, StartFetch(r)
    PROVE  TokenInv'
<1> DEFINE outcome == [Idle EXCEPT !.at = "fetching", !.captured = entry.left, !.own = TRUE]
<1>1. outcome \in Stage
      BY Zeros DEF TokenInv, GatewayTypeOK, Stage, Idle
<1>2. outcome.at = "fetching" /\ outcome.elapsed = 0 /\ outcome.captured = entry.left
      BY DEF Idle
<1>3. Answer(r, outcome) /\ UNCHANGED <<entry, metadata>>
      BY DEF StartFetch
<1> QED BY <1>1, <1>2, <1>3, PlaceKeeps

LEMMA SendKeeps ==
    ASSUME TokenInv, NEW r \in Requests, Send(r)
    PROVE  TokenInv'
<1> DEFINE outcome == [Idle EXCEPT !.at = "sent"]
<1>1. outcome \in Stage /\ outcome.at = "sent"
      BY Zeros DEF Stage, Idle
<1>2. Answer(r, outcome) /\ UNCHANGED <<entry, metadata>>
      BY DEF Send
<1> QED BY <1>1, <1>2, PlaceKeeps

LEMMA LeaveKeeps ==
    ASSUME TokenInv, NEW r \in Requests, Leave(r)
    PROVE  TokenInv'
BY Stages, PlaceKeeps DEF Leave, Idle

-----------------------------------------------------------------------------
(* A table that replaces the cached one is nobody's own.                    *)
LEMMA ReplaceKeeps ==
    ASSUME TokenInv, UNCHANGED metadata, NEW r \in Requests,
           NEW table \in [left : 0..MaxLife, retry : 0..Retry],
           NEW outcome \in Stage, Replace(r, table, outcome),
           table.left = 0 \/ table.retry = 0,
           outcome.at # "fetching",
           outcome.at = "granted" => outcome.token > 0
    PROVE  TokenInv'
<1> USE TokenAssumption DEF TokenInv, GatewayTypeOK
<1>1. request' \in [Requests -> Stage]
      BY DEF Replace, Stage
<1>2. GatewayTypeOK'
      BY <1>1 DEF Replace, Stage
<1>3. BackOffLeavesMargin'
      BY DEF BackOffLeavesMargin, Replace
<1>4. \A q \in Requests : request'[q].at = "fetching" => ~request'[q].own
      BY DEF Replace
<1>5. OwnTableIsCurrent'
      BY <1>4 DEF OwnTableIsCurrent
<1>6. GrantedIsLive'
      BY DEF GrantedIsLive, Replace
<1> QED BY <1>2, <1>3, <1>5, <1>6

LEMMA FetchedKeeps ==
    ASSUME TokenInv, NEW r \in Requests, Fetched(r)
    PROVE  TokenInv'
<1>1. PICK life \in (Fresh + 1)..MaxLife :
         Replace(r, [left |-> life, retry |-> 0], Granted(life))
      BY DEF Fetched
<1>2. life \in 0..MaxLife /\ life > 0
      BY TokenAssumption
<1>3. [left |-> life, retry |-> 0] \in [left : 0..MaxLife, retry : 0..Retry]
      BY <1>2, TokenAssumption
<1>4. Granted(life) \in Stage
      BY <1>2, Stages
<1> QED BY <1>1, <1>2, <1>3, <1>4, ReplaceKeeps DEF Fetched, Granted, Idle

LEMMA FetchFailsKeeps ==
    ASSUME TokenInv, NEW r \in Requests, FetchFails(r)
    PROVE  TokenInv'
<1> DEFINE table == [left |-> 0, retry |-> Rest(Retry - request[r].elapsed)]
<1>1. table \in [left : 0..MaxLife, retry : 0..Retry] /\ table.left = 0
      BY TokenAssumption DEF TokenInv, GatewayTypeOK, Rest
<1>2. Replace(r, table, Refused) /\ UNCHANGED metadata
      BY DEF FetchFails
<1>3. Refused \in Stage /\ Refused.at = "refused"
      BY Stages DEF Refused, Idle
<1> QED BY <1>1, <1>2, <1>3, ReplaceKeeps

(* The back-off of a failed refresh counts from when the request began, and *)
(* so does the token it falls back on.                                      *)
LEMMA FetchFailsUsableKeeps ==
    ASSUME TokenInv, NEW r \in Requests, FetchFailsUsable(r)
    PROVE  TokenInv'
<1> USE TokenAssumption DEF TokenInv, GatewayTypeOK
<1> DEFINE life == request[r].captured - request[r].elapsed
           rest == Rest(RetryAfter(request[r]) - request[r].elapsed)
<1>1. /\ request[r] \in Stage
      /\ request[r].at = "fetching" /\ request[r].captured > Margin
      /\ entry' = IF request[r].own THEN [entry EXCEPT !.retry = rest] ELSE entry
      /\ Answer(r, Granted(life))
      /\ UNCHANGED metadata
      BY DEF FetchFailsUsable, Stage
<1>2. life \in 0..MaxLife /\ life > 0
      BY <1>1 DEF Stage
<1>3. Granted(life) \in Stage
      BY <1>2, Stages
<1>4. rest \in 0..Retry
      BY <1>1 DEF Stage, Rest, RetryAfter, Least
<1>5. rest > 0 => life - rest >= Margin
      BY <1>1 DEF Stage, Rest, RetryAfter, Least
<1>6. entry'.left = entry.left
      BY <1>1
<1>7. request' \in [Requests -> Stage]
      BY <1>1, <1>3 DEF Answer, Stage
<1>8. GatewayTypeOK'
      BY <1>1, <1>4, <1>7 DEF Stage
<1>9. BackOffLeavesMargin'
  <2>1. CASE request[r].own
    <3>1. entry.left = life
          BY <1>1, <1>2, <2>1 DEF OwnTableIsCurrent, Rest
    <3>2. entry'.retry = rest
          BY <1>1, <2>1
    <3> HIDE DEF rest
    <3> QED BY <1>5, <1>6, <3>1, <3>2 DEF BackOffLeavesMargin
  <2>2. CASE ~request[r].own
        BY <1>1, <2>2 DEF BackOffLeavesMargin
  <2> QED BY <2>1, <2>2
<1>10. OwnTableIsCurrent'
  <2> SUFFICES ASSUME NEW q \in Requests, request'[q].at = "fetching", request'[q].own
               PROVE  entry'.left = Rest(request'[q].captured - request'[q].elapsed)
      BY DEF OwnTableIsCurrent
  <2>1. q # r
        BY <1>1 DEF Answer, Granted, Idle
  <2> QED BY <1>1, <1>6, <2>1 DEF Answer, OwnTableIsCurrent
<1>11. GrantedIsLive'
      BY <1>1, <1>2 DEF GrantedIsLive, Answer, Granted, Idle
<1> QED BY <1>8, <1>9, <1>10, <1>11

-----------------------------------------------------------------------------
LEMMA GatewayTickKeeps ==
    ASSUME TokenInv, GatewayTick
    PROVE  TokenInv'
<1> USE TokenAssumption DEF TokenInv, GatewayTypeOK
<1>1. /\ \A q \in Requests : Fetching(q) => request[q].elapsed < MaxFetch
      /\ entry' = [left |-> Rest(entry.left - 1), retry |-> Rest(entry.retry - 1)]
      /\ \A q \in Requests : request'[q] = IF Fetching(q)
                                           THEN [request[q] EXCEPT !.elapsed = @ + 1]
                                           ELSE request[q]
      BY DEF GatewayTick
<1>2. request' \in [Requests -> Stage]
  <2>1. ASSUME NEW q \in Requests, Fetching(q)
        PROVE  request'[q] \in Stage
    <3>1. request[q] \in Stage
          BY DEF Stage
    <3>2. request[q].elapsed + 1 \in 0..MaxFetch
          BY <1>1, <2>1, <3>1 DEF Stage
    <3>3. request'[q] = [request[q] EXCEPT !.elapsed = @ + 1]
          BY <1>1, <2>1
    <3> QED BY <3>1, <3>2, <3>3 DEF Stage
  <2>2. ASSUME NEW q \in Requests, ~Fetching(q)
        PROVE  request'[q] \in Stage
        BY <1>1, <2>2 DEF Stage
  <2> QED BY <2>1, <2>2 DEF GatewayTick
<1>3. entry' \in [left : 0..MaxLife, retry : 0..Retry]
      BY <1>1 DEF Rest
<1>4. GatewayTypeOK'
      BY <1>2, <1>3 DEF Stage, GatewayTick
<1>5. BackOffLeavesMargin'
      BY <1>1 DEF BackOffLeavesMargin, Rest
<1>6. OwnTableIsCurrent'
  <2> SUFFICES ASSUME NEW q \in Requests, request'[q].at = "fetching", request'[q].own
               PROVE  entry'.left = Rest(request'[q].captured - request'[q].elapsed)
      BY DEF OwnTableIsCurrent
  <2>1. /\ request[q].at = "fetching" /\ request[q].own
        /\ request'[q].captured = request[q].captured
        /\ request'[q].elapsed = request[q].elapsed + 1
        BY <1>1 DEF Fetching
  <2>2. entry.left = Rest(request[q].captured - request[q].elapsed)
        BY <2>1 DEF OwnTableIsCurrent
  <2> QED BY <1>1, <2>1, <2>2 DEF Rest
<1>7. GrantedIsLive'
      BY <1>1 DEF GrantedIsLive, Fetching
<1> QED BY <1>4, <1>5, <1>6, <1>7

LEMMA ChangeMetadataKeeps ==
    ASSUME TokenInv, ChangeMetadata
    PROVE  TokenInv'
BY DEF TokenInv, GatewayTypeOK, BackOffLeavesMargin, OwnTableIsCurrent, GrantedIsLive,
   ChangeMetadata

LEMMA TokenStep == TokenInv /\ [GatewayNext]_gatewayVars => TokenInv'
<1> SUFFICES ASSUME TokenInv, [GatewayNext]_gatewayVars
             PROVE  TokenInv'
    OBVIOUS
<1>1. ASSUME NEW r \in Requests, InPlugin(r)
      PROVE  TokenInv'
      BY <1>1, UseCachedKeeps, BackOffKeeps, StartFetchKeeps, FetchedKeeps,
         FetchFailsUsableKeeps, FetchFailsKeeps DEF InPlugin, EndFetch
<1>2. ASSUME NEW r \in Requests, Send(r) \/ Leave(r)
      PROVE  TokenInv'
      BY <1>2, SendKeeps, LeaveKeeps
<1>3. CASE UNCHANGED gatewayVars
      BY <1>3 DEF gatewayVars, TokenInv, GatewayTypeOK, BackOffLeavesMargin,
         OwnTableIsCurrent, GrantedIsLive
<1> QED BY <1>1, <1>2, <1>3, ChangeMetadataKeeps, GatewayTickKeeps DEF GatewayNext

(* The type of every reachable state, the margin of every back-off, and     *)
(* what a request that waits for the metadata server knows of the cache.    *)
THEOREM TokenInvariant == GatewaySpec => []TokenInv
BY TokenInit, TokenStep, PTL DEF GatewaySpec

(* Every state of the gateway's token cache is well typed.                  *)
THEOREM TokenTypeCorrect == GatewaySpec => []GatewayTypeOK
<1>1. TokenInv => GatewayTypeOK
      BY DEF TokenInv
<1> QED BY <1>1, TokenInvariant, PTL

(* No request is sent with an expired token, and no back-off outlasts the   *)
(* time in which the cached token can be sent.                              *)
THEOREM TokensAlwaysLive == GatewaySpec => []TokensOutliveTheirUse
<1>1. TokenInv => TokensOutliveTheirUse
      BY TokenAssumption DEF TokenInv, GatewayTypeOK, BackOffLeavesMargin, GrantedIsLive,
         TokensOutliveTheirUse
<1> QED BY <1>1, TokenInvariant, PTL
=============================================================================

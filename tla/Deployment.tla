----------------------------- MODULE Deployment -----------------------------
(* The gateway in front of a service: a webhook gets its identity token,    *)
(* is sent to the process, and leaves with the process's answer, or with    *)
(* the gateway's own when it has no token or the process cannot be reached. *)
(* A Step is a second of the gateway's clock.                               *)
EXTENDS GatewayTokenCache, ServiceLifecycle

vars == <<gatewayVars, lifecycleVars>>

(* retries: 0 *)
Forward(r) ==
    /\ Send(r)
    /\ Accept(r) \/ (~Reachable /\ UNCHANGED lifecycleVars)

Return(r) ==
    /\ Leave(r)
    /\ Collect(r) \/ (handler[r].at = "none" /\ UNCHANGED lifecycleVars)

Token(r) == InPlugin(r) /\ UNCHANGED lifecycleVars

Metadata == ChangeMetadata /\ UNCHANGED lifecycleVars

Process == (Startup \/ Shutdown \/ Environment) /\ UNCHANGED gatewayVars

Webhook(r) == Handle(r) /\ UNCHANGED gatewayVars

Tick == GatewayTick /\ ServiceTick

Init == GatewayInit /\ LifecycleInit

Next ==
    \/ \E r \in Requests : Token(r) \/ Forward(r) \/ Webhook(r) \/ Return(r)
    \/ Metadata \/ Process \/ Tick

Spec == Init /\ [][Next]_vars

(* Time passes, the program's own steps are taken and its timeouts strike.  *)
(* Nothing else is promised: neither requests nor statements, scrapes,      *)
(* signals or a metadata server that answers.                               *)
Fairness ==
    /\ SF_vars(Tick)
    /\ WF_vars((Startup \/ Shutdown) /\ UNCHANGED gatewayVars)
    /\ \A r \in Requests :
          /\ WF_vars((EndFetch(r) /\ UNCHANGED lifecycleVars) \/ Return(r))
          /\ WF_vars(Expire(r) /\ UNCHANGED gatewayVars)

FairSpec == Spec /\ Fairness

TypeOK == GatewayTypeOK /\ LifecycleTypeOK
=============================================================================

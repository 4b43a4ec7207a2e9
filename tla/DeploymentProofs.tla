-------------------------- MODULE DeploymentProofs --------------------------
(* The gateway in front of a service behaves like the gateway, and the      *)
(* service behind it like the service: what was proved of each holds of     *)
(* both together.                                                           *)
EXTENDS Deployment, GatewayTokenProofs, ServiceLifecycleProofs

LEMMA GatewayStep == [Next]_vars => [GatewayNext]_gatewayVars
<1> SUFFICES ASSUME [Next]_vars
             PROVE  [GatewayNext]_gatewayVars
    OBVIOUS
<1>1. ASSUME NEW r \in Requests, Token(r) \/ Forward(r) \/ Return(r)
      PROVE  GatewayNext
      BY <1>1 DEF Token, Forward, Return, GatewayNext
<1>2. ASSUME NEW r \in Requests, Webhook(r)
      PROVE  UNCHANGED gatewayVars
      BY <1>2 DEF Webhook
<1>3. CASE Metadata \/ Tick
      BY <1>3 DEF Metadata, Tick, GatewayNext
<1>4. CASE Process
      BY <1>4 DEF Process
<1>5. CASE UNCHANGED vars
      BY <1>5 DEF vars
<1> QED BY <1>1, <1>2, <1>3, <1>4, <1>5 DEF Next

LEMMA LifecycleStep == [Next]_vars => [LifecycleNext]_lifecycleVars
<1> SUFFICES ASSUME [Next]_vars
             PROVE  [LifecycleNext]_lifecycleVars
    OBVIOUS
<1>1. ASSUME NEW r \in Requests, Token(r)
      PROVE  UNCHANGED lifecycleVars
      BY <1>1 DEF Token
<1>2. ASSUME NEW r \in Requests, Forward(r)
      PROVE  [LifecycleNext]_lifecycleVars
      BY <1>2 DEF Forward, LifecycleNext
<1>3. ASSUME NEW r \in Requests, Return(r)
      PROVE  [LifecycleNext]_lifecycleVars
      BY <1>3 DEF Return, LifecycleNext
<1>4. ASSUME NEW r \in Requests, Webhook(r)
      PROVE  LifecycleNext
      BY <1>4 DEF Webhook, LifecycleNext
<1>5. CASE Metadata
      BY <1>5 DEF Metadata
<1>6. CASE Process \/ Tick
      BY <1>6 DEF Process, Tick, LifecycleNext
<1>7. CASE UNCHANGED vars
      BY <1>7 DEF vars
<1> QED BY <1>1, <1>2, <1>3, <1>4, <1>5, <1>6, <1>7 DEF Next

(* Whatever the service does, the gateway's token cache behaves as          *)
(* specified on its own.                                                    *)
THEOREM RefinesGateway == Spec => GatewaySpec
<1>1. Init => GatewayInit
      BY DEF Init
<1> QED BY <1>1, GatewayStep, PTL DEF Spec, GatewaySpec

(* Whatever the gateway does, the process of the service behaves as         *)
(* specified on its own.                                                    *)
THEOREM RefinesLifecycle == Spec => LifecycleSpec
<1>1. Init => LifecycleInit
      BY DEF Init
<1> QED BY <1>1, LifecycleStep, PTL DEF Spec, LifecycleSpec

(* Tokens are live, work is kept and the gateway outwaits every webhook, in *)
(* every deployment.                                                        *)
THEOREM DeploymentSafe ==
    Spec => [](TypeOK /\ TokensOutliveTheirUse /\ ShutdownKeepsWork /\ GatewayWaitsLongEnough)
<1>1. GatewayTypeOK /\ LifecycleTypeOK => TypeOK
      BY DEF TypeOK
<1> QED BY <1>1, RefinesGateway, RefinesLifecycle, TokenTypeCorrect, LifecycleTypeCorrect,
           TokensAlwaysLive, WorkIsKept, GatewayOutwaits, PTL
=============================================================================

---------------------------- MODULE MCDeployment ----------------------------
EXTENDS Deployment, TLC

Defaults == [key \in IdentitySettings \union OrganizationSettings |->
                IF key \in IdentityTexts \union OrganizationTexts THEN 1 ELSE Unset]

Times(process, write, shutdown) ==
    [HTTP_WRITE_TIMEOUT |-> write, DATABASE_MAX_CONNS |-> 1,
     CLERK_WEBHOOK_PROCESS_TIMEOUT |-> process, SHUTDOWN_TIMEOUT |-> shutdown,
     REDIS_OPERATION_TIMEOUT |-> Second,
     CLERK_ORGANIZATION_WEBHOOK_PROCESS_TIMEOUT |-> process,
     HTTP_SHUTDOWN_TIMEOUT |-> shutdown]

Of(service, env) == [service |-> service, env |-> env @@ Defaults]

(* two that start and three that must not *)
MCInstances ==
    {Of("identity", Times(Second, 2500, Second)),
     Of("organization", Times(Second, 2500, Second)),
     Of("identity", Times(12 * Second, 13 * Second, Second)),
     Of("organization", [DATABASE_MAX_CONNS |-> 0]),
     Of("identity", [REDIS_OPERATION_TIMEOUT |-> Malformed])}
=============================================================================

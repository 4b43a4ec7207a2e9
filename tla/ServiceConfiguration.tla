------------------------ MODULE ServiceConfiguration ------------------------
(* Which environments the services and the maintenance job accept at their  *)
(* start.  A setting is unset, malformed, or a value: a time in             *)
(* milliseconds, a number, or any number for a text that its parser takes.  *)
EXTENDS Integers

CONSTANTS Unset, Malformed

SettingValues == Int \union {Unset, Malformed}

ASSUME SettingAssumption == Unset \notin Int /\ Malformed \notin Int /\ Unset # Malformed

Second == 1000
Minute == 60 * Second
Hour == 60 * Minute
MiB == 1024 * 1024

(* nonEmptyValue, durationValue, int32Value: an unset value is not checked *)
Setting(env, key, fallback) == IF env[key] = Unset THEN fallback ELSE env[key]

Given(env, key) == env[key] \notin {Unset, Malformed}
Number(env, key) == env[key] # Malformed
Optional(env, keys) == \A key \in keys : Number(env, key)
Duration(env, key) == env[key] = Unset \/ (env[key] # Malformed /\ env[key] > 0)

-----------------------------------------------------------------------------
CommonTexts == {"DATABASE_URL", "CLERK_JWT_KEY", "CLERK_ISSUER", "CLERK_AUTHORIZED_PARTIES"}

CommonDurations ==
    {"HTTP_READ_HEADER_TIMEOUT", "HTTP_READ_TIMEOUT", "HTTP_WRITE_TIMEOUT",
     "HTTP_IDLE_TIMEOUT", "DATABASE_CONNECT_TIMEOUT", "DATABASE_READINESS_TIMEOUT",
     "DATABASE_MAX_CONN_LIFETIME", "DATABASE_MAX_CONN_IDLE_TIME",
     "DATABASE_HEALTH_CHECK_PERIOD", "CLERK_AUTH_LEEWAY"}

CommonOptions == {"SERVICE_NAME", "LOG_LEVEL"}

IdentityTexts == CommonTexts \union
    {"REDIS_ADDR", "REDIS_PASSWORD", "CLERK_WEBHOOK_SIGNING_SECRET"}

IdentityDurations == CommonDurations \union
    {"SHUTDOWN_TIMEOUT", "REDIS_DIAL_TIMEOUT", "REDIS_OPERATION_TIMEOUT",
     "CURRENT_USER_CACHE_TTL", "CLERK_WEBHOOK_PROCESS_TIMEOUT"}

IdentityOptions == CommonOptions \union {"REDIS_USERNAME", "REDIS_TLS_ENABLED"}

OrganizationTexts == CommonTexts \union
    {"CLERK_SECRET_KEY", "CLERK_ORGANIZATION_WEBHOOK_SIGNING_SECRET",
     "ORGANIZATION_PERSONAL_EMAIL_DOMAINS"}

OrganizationDurations == CommonDurations \union
    {"HTTP_SHUTDOWN_TIMEOUT", "CLERK_BACKEND_API_TIMEOUT",
     "IDENTITY_SERVICE_REQUEST_TIMEOUT", "CLERK_ORGANIZATION_WEBHOOK_PROCESS_TIMEOUT"}

OrganizationOptions == CommonOptions \union
    {"CLERK_BACKEND_API_URL", "IDENTITY_SERVICE_URL"}

(* DATABASE_MAX_CONNS, DATABASE_MIN_CONNS *)
PoolAccepted(env) ==
    LET max == Setting(env, "DATABASE_MAX_CONNS", 5)
        min == Setting(env, "DATABASE_MIN_CONNS", 0)
    IN /\ Number(env, "DATABASE_MAX_CONNS") /\ max > 0
       /\ Number(env, "DATABASE_MIN_CONNS") /\ min >= 0 /\ min <= max

(* mutation: only the time to write the answer limits the processing *)
BugNoMaximum(env, timeout, size) ==
    LET bytes == Setting(env, size, MiB)
    IN /\ Setting(env, timeout, 5 * Second) < Setting(env, "HTTP_WRITE_TIMEOUT", 15 * Second)
       /\ Number(env, size) /\ bytes > 0 /\ bytes <= 5 * MiB

(* the webhook is processed before its answer must have been written *)
WebhookAccepted(env, timeout, size) ==
    LET process == Setting(env, timeout, 5 * Second)
        bytes == Setting(env, size, MiB)
    IN /\ process <= 8 * Second
       /\ process < Setting(env, "HTTP_WRITE_TIMEOUT", 15 * Second)
       /\ Number(env, size) /\ bytes > 0 /\ bytes <= 5 * MiB

(* LoadMetricsAddr: numbers stand for the endpoints of addresses *)
MetricsAccepted(env, key) ==
    /\ Optional(env, {"HTTP_ADDR", key})
    /\ Setting(env, key, 9090) # Setting(env, "HTTP_ADDR", 8080)

IdentityAccepted(env) ==
    /\ \A key \in IdentityTexts : Given(env, key)
    /\ \A key \in IdentityDurations : Duration(env, key)
    /\ Optional(env, IdentityOptions)
    /\ PoolAccepted(env)
    /\ Setting(env, "REDIS_DIAL_TIMEOUT", 500) <= 5 * Second
    /\ Setting(env, "REDIS_OPERATION_TIMEOUT", 150) <= Second
    /\ Setting(env, "CURRENT_USER_CACHE_TTL", 30 * Second) <= 5 * Minute
    /\ WebhookAccepted(env, "CLERK_WEBHOOK_PROCESS_TIMEOUT", "CLERK_WEBHOOK_MAX_BODY_BYTES")
    /\ Setting(env, "CLERK_AUTH_LEEWAY", 5 * Second) <= 30 * Second
    /\ MetricsAccepted(env, "METRICS_ADDR")

(* 1: google-id-token, which needs an audience; 0: none, which refuses one  *)
(* (a blank one counts as unset)                                            *)
AuthModeAccepted(env) ==
    LET mode == Setting(env, "IDENTITY_SERVICE_AUTH_MODE", 0)
    IN \/ mode = 0 /\ env["IDENTITY_SERVICE_AUDIENCE"] = Unset
       \/ mode = 1 /\ Given(env, "IDENTITY_SERVICE_AUDIENCE")

OrganizationAccepted(env) ==
    /\ \A key \in OrganizationTexts : Given(env, key)
    /\ \A key \in OrganizationDurations : Duration(env, key)
    /\ Optional(env, OrganizationOptions)
    /\ PoolAccepted(env)
    /\ Setting(env, "CLERK_AUTH_LEEWAY", 5 * Second) <= 30 * Second
    /\ Setting(env, "CLERK_BACKEND_API_TIMEOUT", 3 * Second) <= 5 * Second
    /\ WebhookAccepted(env, "CLERK_ORGANIZATION_WEBHOOK_PROCESS_TIMEOUT",
                       "CLERK_ORGANIZATION_WEBHOOK_MAX_BODY_BYTES")
    /\ Setting(env, "IDENTITY_SERVICE_REQUEST_TIMEOUT", 2 * Second) <= 5 * Second
    /\ AuthModeAccepted(env)
    /\ MetricsAccepted(env, "ORGANIZATION_METRICS_ADDR")

(* the maintenance job *)
MaintenanceAccepted(env) ==
    LET batch == Setting(env, "ORGANIZATION_MAINTENANCE_BATCH_SIZE", 100)
    IN /\ Given(env, "ORGANIZATION_MAINTENANCE_DATABASE_URL")
       /\ Given(env, "CLERK_SECRET_KEY")
       /\ Optional(env, {"LOG_LEVEL", "CLERK_BACKEND_API_URL"})
       /\ \A key \in {"ORGANIZATION_MAINTENANCE_DATABASE_CONNECT_TIMEOUT",
                      "ORGANIZATION_MAINTENANCE_COMMAND_TIMEOUT",
                      "ORGANIZATION_INVITATION_INTENT_RETENTION",
                      "ORGANIZATION_REMOVAL_RECONCILE_AFTER",
                      "CLERK_BACKEND_API_TIMEOUT"} : Duration(env, key)
       /\ Setting(env, "ORGANIZATION_MAINTENANCE_COMMAND_TIMEOUT", 30 * Second) <= 2 * Minute
       /\ Setting(env, "ORGANIZATION_INVITATION_INTENT_RETENTION", 720 * Hour) >= 24 * Hour
       /\ Setting(env, "ORGANIZATION_REMOVAL_RECONCILE_AFTER", 15 * Minute) >= Minute
       /\ Number(env, "ORGANIZATION_MAINTENANCE_BATCH_SIZE") /\ batch \in 1..500
       /\ Setting(env, "CLERK_BACKEND_API_TIMEOUT", 3 * Second) <= 5 * Second

Others == {"DATABASE_MAX_CONNS", "DATABASE_MIN_CONNS", "HTTP_ADDR"}

IdentitySettings == IdentityTexts \union IdentityDurations \union IdentityOptions \union Others \union
    {"CLERK_WEBHOOK_MAX_BODY_BYTES", "METRICS_ADDR"}

OrganizationSettings ==
    OrganizationTexts \union OrganizationDurations \union OrganizationOptions \union Others \union
    {"CLERK_ORGANIZATION_WEBHOOK_MAX_BODY_BYTES", "ORGANIZATION_METRICS_ADDR",
     "IDENTITY_SERVICE_AUTH_MODE", "IDENTITY_SERVICE_AUDIENCE"}

-----------------------------------------------------------------------------
Accepted(service, env) ==
    IF service = "identity" THEN IdentityAccepted(env) ELSE OrganizationAccepted(env)

(* what an accepted environment configures of a running service *)
IdentityConfig(env) ==
    [conns |-> Setting(env, "DATABASE_MAX_CONNS", 5),
     process |-> Setting(env, "CLERK_WEBHOOK_PROCESS_TIMEOUT", 5 * Second),
     rollback |-> 2 * Second,
     invalidation |-> Setting(env, "REDIS_OPERATION_TIMEOUT", 150),
     write |-> Setting(env, "HTTP_WRITE_TIMEOUT", 15 * Second),
     shutdown |-> Setting(env, "SHUTDOWN_TIMEOUT", 10 * Second)]

OrganizationConfig(env) ==
    [conns |-> Setting(env, "DATABASE_MAX_CONNS", 5),
     process |-> Setting(env, "CLERK_ORGANIZATION_WEBHOOK_PROCESS_TIMEOUT", 5 * Second),
     rollback |-> 0,
     invalidation |-> 0,
     write |-> Setting(env, "HTTP_WRITE_TIMEOUT", 15 * Second),
     shutdown |-> Setting(env, "HTTP_SHUTDOWN_TIMEOUT", 10 * Second)]

Config(service, env) ==
    IF service = "identity" THEN IdentityConfig(env) ELSE OrganizationConfig(env)
=============================================================================

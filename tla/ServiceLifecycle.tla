-------------------------- MODULE ServiceLifecycle --------------------------
(* The process of a service (run of cmd/identity-service and                *)
(* cmd/organization-service), from the loading of its configuration to its  *)
(* exit, and the webhooks it processes meanwhile.  The metrics server is    *)
(* stopped first, then the application server, both within one budget; then *)
(* the cache and the pool are closed.  Times are in milliseconds and pass   *)
(* in Steps.                                                                *)
EXTENDS ServiceConfiguration, GatewayTraffic

CONSTANTS Instances,    \* the services and environments a process may have
          Step

ASSUME LifecycleAssumption ==
    /\ Step \in Nat \ {0}
    /\ \A i \in Instances :
          /\ i.service \in {"identity", "organization"}
          /\ \A key \in IdentitySettings \union OrganizationSettings :
                i.env[key] \in SettingValues

VARIABLES instance,     \* the service and environment of this process
          phase,
          open,         \* the pool, the cache client and the listeners
          signalled,    \* SIGINT or SIGTERM was received
          budget,       \* what is left of shutdownContext
          scraping,     \* whether the metrics server answers a request
          handler       \* the webhooks

lifecycleVars == <<instance, phase, open, signalled, budget, scraping, handler>>

Service == Config(instance.service, instance.env)

Resources ==
    {"database", "application", "metrics"} \union
    IF instance.service = "identity" THEN {"cache"} ELSE {}

(* the order in which run opens them *)
Before(resource) ==
    CASE resource = "database" -> {}
      [] resource = "cache" -> {"database"}
      [] resource = "application" -> Resources \ {"application", "metrics"}
      [] OTHER -> Resources \ {"metrics"}

Absent == [at |-> "none", age |-> 0, limit |-> 0, cut |-> FALSE]

(* a queued webhook waits for a connection, which it holds until it has     *)
(* committed or rolled back                                                 *)
Holding == {"working", "rolling back"}
Interruptible == {"queued", "working"}
Active == {"queued", "working", "rolling back", "committed"}
IsActive(r) == handler[r].at \in Active
InUse == {r \in Requests : handler[r].at \in Holding}

Enter(r, stage, limit) ==
    handler' = [handler EXCEPT ![r].at = stage, ![r].limit = limit]

(* the answer reaches the gateway unless the connection was closed or the   *)
(* time to write it is over                                                 *)
End(r) ==
    handler' = [handler EXCEPT ![r].at =
                  IF handler[r].cut \/ handler[r].age >= Service.write
                  THEN "lost" ELSE "answered"]

UnchangedProcess == UNCHANGED <<instance, phase, open, signalled, budget, scraping>>

-----------------------------------------------------------------------------
Load ==
    /\ phase = "loading"
    /\ phase' = IF Accepted(instance.service, instance.env) THEN "opening" ELSE "exited"
    /\ UNCHANGED <<instance, open, signalled, budget, scraping, handler>>

(* the pool is opened under the context the signal cancels *)
Open(resource) ==
    /\ phase = "opening"
    /\ resource \in Resources \ open
    /\ Before(resource) \subseteq open
    /\ resource = "database" => ~signalled
    /\ open' = open \union {resource}
    /\ UNCHANGED <<instance, phase, signalled, budget, scraping, handler>>

(* what was opened is closed by the deferred calls *)
StartFails ==
    /\ phase = "opening" /\ open # Resources
    /\ phase' = "exited"
    /\ open' = {}
    /\ UNCHANGED <<instance, signalled, budget, scraping, handler>>

Serve ==
    /\ phase = "opening" /\ open = Resources
    /\ phase' = "serving"
    /\ UNCHANGED <<instance, open, signalled, budget, scraping, handler>>

(* the signal is caught only after the configuration is loaded *)
Signal ==
    /\ ~signalled /\ phase # "exited"
    /\ signalled' = TRUE
    /\ phase' = IF phase = "loading" THEN "exited" ELSE phase
    /\ UNCHANGED <<instance, open, budget, scraping, handler>>

Listeners == {"application", "metrics"}

ServerStops ==
    /\ phase = "serving"
    /\ \E listener \in Listeners \intersect open : open' = open \ {listener}
    /\ UNCHANGED <<instance, phase, signalled, budget, scraping, handler>>

MustStop == signalled \/ (phase = "serving" /\ ~(Listeners \subseteq open))

BeginShutdown ==
    /\ phase = "serving" /\ MustStop
    /\ phase' = "stopping metrics"
    /\ budget' = Service.shutdown
    /\ open' = open \ {"metrics"}
    /\ UNCHANGED <<instance, signalled, scraping, handler>>

(* mutation: the scrape is waited for without the budget's end *)
BugWaitsForScrape ==
    /\ phase = "stopping metrics" /\ ~scraping
    /\ phase' = "stopping application"
    /\ open' = open \ {"application"}
    /\ UNCHANGED <<instance, signalled, budget, scraping, handler>>

(* Shutdown of the metrics server returns, or is given up and its           *)
(* connections are closed; Shutdown of the application server closes the    *)
(* listener                                                                 *)
StopMetrics ==
    /\ phase = "stopping metrics"
    /\ ~scraping \/ budget = 0
    /\ phase' = "stopping application"
    /\ scraping' = FALSE
    /\ open' = open \ {"application"}
    /\ UNCHANGED <<instance, signalled, budget, handler>>

(* mutation: the handlers are not waited for *)
BugNoDraining ==
    /\ phase = "stopping application"
    /\ phase' = "closing cache"
    /\ UNCHANGED <<instance, open, signalled, budget, scraping, handler>>

(* Close, after Shutdown gave up, cancels the contexts of the handlers but  *)
(* does not wait for them                                                   *)
StopApplication ==
    /\ phase = "stopping application"
    /\ (\A r \in Requests : ~IsActive(r)) \/ budget = 0
    /\ phase' = "closing cache"
    /\ handler' = [r \in Requests |->
                     IF IsActive(r) THEN [handler[r] EXCEPT !.cut = TRUE] ELSE handler[r]]
    /\ UNCHANGED <<instance, open, signalled, budget, scraping>>

CloseCache ==
    /\ phase = "closing cache"
    /\ phase' = "closing database"
    /\ open' = open \ {"cache"}
    /\ UNCHANGED <<instance, signalled, budget, scraping, handler>>

(* pgxpool's Close waits for the connections in use; what still runs when   *)
(* the process ends is gone                                                 *)
Exit ==
    /\ phase = "closing database"
    /\ InUse = {}
    /\ phase' = "exited"
    /\ open' = {}
    /\ handler' = [r \in Requests |->
                     IF IsActive(r) THEN [handler[r] EXCEPT !.at = "lost"] ELSE handler[r]]
    /\ UNCHANGED <<instance, signalled, budget, scraping>>

StartScrape ==
    /\ phase = "serving" /\ "metrics" \in open /\ ~scraping
    /\ scraping' = TRUE
    /\ UNCHANGED <<instance, phase, open, signalled, budget, handler>>

EndScrape ==
    /\ scraping
    /\ scraping' = FALSE
    /\ UNCHANGED <<instance, phase, open, signalled, budget, handler>>

Startup == Load \/ (\E resource \in Resources : Open(resource)) \/ StartFails \/ Serve
Shutdown == BeginShutdown \/ StopMetrics \/ StopApplication \/ CloseCache \/ Exit
Environment == Signal \/ ServerStops \/ StartScrape \/ EndScrape

-----------------------------------------------------------------------------
Reachable == phase \in {"serving", "stopping metrics"} /\ "application" \in open

(* clerkWebhookHandlerCore, from the processing context on *)
Accept(r) ==
    /\ Reachable
    /\ handler[r].at = "none"
    /\ handler' = [handler EXCEPT ![r] = [Absent EXCEPT !.at = "queued",
                                                        !.limit = Service.process]]
    /\ UnchangedProcess

(* Begin *)
Acquire(r) ==
    /\ handler[r].at = "queued" /\ ~handler[r].cut
    /\ Cardinality(InUse) < Service.conns
    /\ phase # "closing database"
    /\ Enter(r, "working", handler[r].limit)
    /\ UnchangedProcess

(* the identity service has the cache to invalidate *)
Commit(r) ==
    /\ handler[r].at = "working" /\ ~handler[r].cut
    /\ IF "cache" \in Resources
       THEN Enter(r, "committed", handler[r].age + Service.invalidation)
       ELSE End(r)
    /\ UnchangedProcess

(* the identity service's rollback has a time of its own, the organization  *)
(* service's what is left of the processing context                         *)
RollbackLimit(r) ==
    IF instance.service = "identity" THEN handler[r].age + Service.rollback
    ELSE handler[r].limit

(* an error, or the end of the context: the connection is closed at once or *)
(* the transaction rolled back                                              *)
Fail(r) ==
    /\ handler[r].at \in Interruptible
    /\ \/ End(r)
       \/ /\ handler[r].at = "working"
          /\ Enter(r, "rolling back", RollbackLimit(r))
    /\ UnchangedProcess

(* the rollback or the invalidation, answered or given up *)
Finish(r) ==
    /\ handler[r].at \in {"rolling back", "committed"}
    /\ End(r)
    /\ UnchangedProcess

Due(r) == handler[r].age + Step > handler[r].limit

(* mutation: a connection is waited for without the context *)
BugWaitsForConnection(r) ==
    handler[r].at = "working" /\ (Due(r) \/ handler[r].cut)

(* the processing context ends, with its time or with the connection *)
Interrupted(r) ==
    handler[r].at \in Interruptible /\ (Due(r) \/ handler[r].cut)

Expire(r) ==
    \/ Interrupted(r) /\ Fail(r)
    \/ Due(r) /\ Finish(r)

Handle(r) == Acquire(r) \/ Commit(r) \/ Fail(r) \/ Finish(r)

Collect(r) ==
    /\ handler[r].at \in {"answered", "lost"}
    /\ handler' = [handler EXCEPT ![r] = Absent]
    /\ UnchangedProcess

InShutdown == phase \in {"stopping metrics", "stopping application"}

ServiceTick ==
    /\ \A r \in Requests : IsActive(r) => ~Due(r)
    /\ handler' = [r \in Requests |->
                     IF IsActive(r) THEN [handler[r] EXCEPT !.age = @ + Step]
                     ELSE handler[r]]
    /\ budget' = IF InShutdown THEN Rest(budget - Step) ELSE budget
    /\ UNCHANGED <<instance, phase, open, signalled, scraping>>

LifecycleInit ==
    /\ instance \in Instances
    /\ phase = "loading"
    /\ open = {}
    /\ signalled = FALSE
    /\ budget = 0
    /\ scraping = FALSE
    /\ handler = [r \in Requests |-> Absent]

LifecycleNext ==
    \/ Startup \/ Shutdown \/ Environment
    \/ \E r \in Requests : Accept(r) \/ Handle(r) \/ Collect(r)
    \/ ServiceTick

LifecycleSpec == LifecycleInit /\ [][LifecycleNext]_lifecycleVars

-----------------------------------------------------------------------------
Phases == {"loading", "opening", "serving", "stopping metrics",
           "stopping application", "closing cache", "closing database", "exited"}

LifecycleTypeOK ==
    /\ instance \in Instances
    /\ phase \in Phases
    /\ open \subseteq {"database", "cache", "application", "metrics"}
    /\ signalled \in BOOLEAN /\ scraping \in BOOLEAN
    /\ budget \in Nat
    /\ handler \in [Requests -> [at : Active \union {"none", "answered", "lost"},
                                 age : Nat, limit : Nat, cut : BOOLEAN]]

(* What an uncut handler needs is open: the pool until it has committed or  *)
(* rolled back, the cache client after; connections in use outlive even a   *)
(* cut.  Handlers are cut only when the whole shutdown time is over, and no *)
(* handler outlives the process ("database and cache are closed after the   *)
(* servers": the order of shutdownRuntime).                                 *)
ShutdownKeepsWork ==
    /\ \A r \in Requests :
          /\ handler[r].at \in Interruptible /\ ~handler[r].cut => "database" \in open
          /\ handler[r].at \in Holding => "database" \in open
          /\ handler[r].at = "committed" /\ ~handler[r].cut => "cache" \in open
          /\ IsActive(r) /\ handler[r].cut => budget = 0
    /\ phase = "exited" => open = {} /\ \A r \in Requests : ~IsActive(r)

(* "webhook processing must complete before the gateway timeout", which is  *)
(* fixed at 10 seconds (identity-service README): also the rollback and the *)
(* invalidation, whose times come after the processing timeout.             *)
GatewayTimeout == 10 * Second
GatewayWaitsLongEnough ==
    \A r \in Requests : IsActive(r) => handler[r].age <= GatewayTimeout

(* A signalled process, or one that lost a server, stops: whatever a        *)
(* scrape, the database or a handler does.                                  *)
ProcessStops == MustStop ~> phase = "exited"

(* Whatever the database does, every accepted webhook ends: waiting for a   *)
(* connection, in a transaction, in a rollback or in an invalidation.  The  *)
(* requests are interchangeable, so it is asked of one of them.             *)
AcceptedWorkEnds ==
    LET r == CHOOSE r \in Requests : TRUE IN IsActive(r) ~> ~IsActive(r)
=============================================================================

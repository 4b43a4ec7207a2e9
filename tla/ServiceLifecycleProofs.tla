----------------------- MODULE ServiceLifecycleProofs -----------------------
(* The process of a service, proved for every environment it may be given,  *)
(* any number of webhooks and every length of a step.                       *)
EXTENDS ServiceLifecycle, TLAPS

(* what an accepted environment promises of a running service *)
Timed(c) ==
    /\ c.process \in Nat /\ c.process <= 8 * Second
    /\ c.invalidation \in Nat /\ c.invalidation <= Second
    /\ c.rollback \in Nat /\ c.rollback <= 2 * Second
    /\ c.write \in Nat /\ c.shutdown \in Nat

LEMMA Units == Second = 1000 /\ Minute = 60000 /\ Second \in Nat
BY DEF Second, Minute

(* The value of a duration setting that was checked.                        *)
LEMMA CheckedDuration ==
    ASSUME NEW env, NEW key, NEW fallback \in Nat,
           env[key] \in SettingValues, Duration(env, key)
    PROVE  Setting(env, key, fallback) \in Nat
BY SettingAssumption DEF Setting, Duration, SettingValues

LEMMA IdentityTimed ==
    ASSUME NEW i \in Instances, i.service = "identity", IdentityAccepted(i.env)
    PROVE  Timed(IdentityConfig(i.env))
<1> DEFINE env == i.env
<1>1. \A key \in IdentityDurations : env[key] \in SettingValues /\ Duration(env, key)
      BY LifecycleAssumption DEF IdentityAccepted, IdentitySettings
<1>2. /\ "CLERK_WEBHOOK_PROCESS_TIMEOUT" \in IdentityDurations
      /\ "REDIS_OPERATION_TIMEOUT" \in IdentityDurations
      /\ "HTTP_WRITE_TIMEOUT" \in IdentityDurations
      /\ "SHUTDOWN_TIMEOUT" \in IdentityDurations
      BY DEF IdentityDurations, CommonDurations
<1>3. /\ Setting(env, "REDIS_OPERATION_TIMEOUT", 150) <= Second
      /\ Setting(env, "CLERK_WEBHOOK_PROCESS_TIMEOUT", 5 * Second) <= 8 * Second
      BY DEF IdentityAccepted, WebhookAccepted
<1>4. /\ 5 * Second \in Nat /\ 15 * Second \in Nat /\ 10 * Second \in Nat /\ 2 * Second \in Nat
      BY Units
<1>5. /\ Setting(env, "CLERK_WEBHOOK_PROCESS_TIMEOUT", 5 * Second) \in Nat
      /\ Setting(env, "REDIS_OPERATION_TIMEOUT", 150) \in Nat
      /\ Setting(env, "HTTP_WRITE_TIMEOUT", 15 * Second) \in Nat
      /\ Setting(env, "SHUTDOWN_TIMEOUT", 10 * Second) \in Nat
  <2> HIDE DEF env
  <2> QED BY <1>1, <1>2, <1>4, CheckedDuration
<1> QED BY <1>3, <1>4, <1>5 DEF Timed, IdentityConfig

LEMMA OrganizationTimed ==
    ASSUME NEW i \in Instances, i.service = "organization", OrganizationAccepted(i.env)
    PROVE  Timed(OrganizationConfig(i.env))
<1> DEFINE env == i.env
<1>1. \A key \in OrganizationDurations : env[key] \in SettingValues /\ Duration(env, key)
      BY LifecycleAssumption DEF OrganizationAccepted, OrganizationSettings
<1>2. /\ "CLERK_ORGANIZATION_WEBHOOK_PROCESS_TIMEOUT" \in OrganizationDurations
      /\ "HTTP_WRITE_TIMEOUT" \in OrganizationDurations
      /\ "HTTP_SHUTDOWN_TIMEOUT" \in OrganizationDurations
      BY DEF OrganizationDurations, CommonDurations
<1>3. Setting(env, "CLERK_ORGANIZATION_WEBHOOK_PROCESS_TIMEOUT", 5 * Second) <= 8 * Second
      BY DEF OrganizationAccepted, WebhookAccepted
<1>4. /\ 5 * Second \in Nat /\ 15 * Second \in Nat /\ 10 * Second \in Nat
      /\ 0 <= Second /\ 0 <= 2 * Second
      BY Units
<1>5. /\ Setting(env, "CLERK_ORGANIZATION_WEBHOOK_PROCESS_TIMEOUT", 5 * Second) \in Nat
      /\ Setting(env, "HTTP_WRITE_TIMEOUT", 15 * Second) \in Nat
      /\ Setting(env, "HTTP_SHUTDOWN_TIMEOUT", 10 * Second) \in Nat
  <2> HIDE DEF env
  <2> QED BY <1>1, <1>2, <1>4, CheckedDuration
<1> QED BY <1>3, <1>4, <1>5 DEF Timed, OrganizationConfig

(* A service whose environment is accepted leaves the gateway its timeout.  *)
LEMMA ServiceTimed ==
    ASSUME instance \in Instances, Accepted(instance.service, instance.env)
    PROVE  Timed(Service)
<1>1. instance.service \in {"identity", "organization"}
      BY LifecycleAssumption
<1> QED BY <1>1, IdentityTimed, OrganizationTimed DEF Accepted, Service, Config
(* The cache's assumption on its times (CurrentUserCache, TimingAssumption) *)
(* holds of every accepted environment: the generation marker outlives a    *)
(* shared load and a late SET, by far, and data live at all.                *)
CoalescedLoadTimeout == 2 * Second
CacheGenerationMarkerTTL == 10 * Minute

THEOREM CacheTimingHolds ==
    ASSUME NEW i \in Instances, i.service = "identity", IdentityAccepted(i.env)
    PROVE  /\ Setting(i.env, "CURRENT_USER_CACHE_TTL", 30 * Second) \in Nat \ {0}
           /\ CacheGenerationMarkerTTL >
                 CoalescedLoadTimeout + Setting(i.env, "REDIS_OPERATION_TIMEOUT", 150)
<1> DEFINE env == i.env
<1>1. \A key \in IdentityDurations : env[key] \in SettingValues /\ Duration(env, key)
      BY LifecycleAssumption DEF IdentityAccepted, IdentitySettings
<1>2. "CURRENT_USER_CACHE_TTL" \in IdentityDurations /\ "REDIS_OPERATION_TIMEOUT" \in IdentityDurations
      BY DEF IdentityDurations
<1>3. Setting(env, "CURRENT_USER_CACHE_TTL", 30 * Second) \in Nat \ {0}
      BY <1>1, <1>2, Units, SettingAssumption DEF Setting, Duration, SettingValues
<1>4. Setting(env, "REDIS_OPERATION_TIMEOUT", 150) \in Nat
      BY <1>1, <1>2, CheckedDuration
<1>5. Setting(env, "REDIS_OPERATION_TIMEOUT", 150) <= Second
      BY DEF IdentityAccepted
<1> QED BY <1>3, <1>4, <1>5, Units DEF CacheGenerationMarkerTTL, CoalescedLoadTimeout

(* The maintenance job looks at no reservation whose command may still wait *)
(* for Clerk: it reconciles after a longer time than a command may take.    *)
THEOREM ReconciliationWaitsForCommands ==
    ASSUME NEW i \in Instances, i.service = "organization", OrganizationAccepted(i.env),
           NEW env, MaintenanceAccepted(env),
           env["ORGANIZATION_REMOVAL_RECONCILE_AFTER"] \in SettingValues
    PROVE  Setting(env, "ORGANIZATION_REMOVAL_RECONCILE_AFTER", 15 * Minute) >
              Setting(i.env, "CLERK_BACKEND_API_TIMEOUT", 3 * Second)
<1>1. /\ "CLERK_BACKEND_API_TIMEOUT" \in OrganizationDurations
      /\ 3 * Second \in Nat /\ 15 * Minute \in Nat
      BY Units DEF OrganizationDurations
<1>2. /\ i.env["CLERK_BACKEND_API_TIMEOUT"] \in SettingValues
      /\ Duration(i.env, "CLERK_BACKEND_API_TIMEOUT")
      BY <1>1, LifecycleAssumption DEF OrganizationAccepted, OrganizationSettings
<1>3. Setting(i.env, "CLERK_BACKEND_API_TIMEOUT", 3 * Second) \in Nat
      BY <1>1, <1>2, CheckedDuration
<1>4. Setting(env, "ORGANIZATION_REMOVAL_RECONCILE_AFTER", 15 * Minute) \in Nat
      BY <1>1, CheckedDuration DEF MaintenanceAccepted
<1>5. /\ Setting(i.env, "CLERK_BACKEND_API_TIMEOUT", 3 * Second) <= 5 * Second
      /\ Setting(env, "ORGANIZATION_REMOVAL_RECONCILE_AFTER", 15 * Minute) >= Minute
      BY DEF OrganizationAccepted, MaintenanceAccepted
<1> QED BY <1>3, <1>4, <1>5, Units

-----------------------------------------------------------------------------
Record == [at : Active \union {"none", "answered", "lost"},
           age : Nat, limit : Nat, cut : BOOLEAN]

Stopped == {"loading", "opening", "exited"}
Closing == {"closing cache", "closing database"}

ConfigAccepted ==
    phase \notin {"loading", "exited"} => Accepted(instance.service, instance.env)

(* what is open in each phase *)
OpenInPhase ==
    /\ phase \in {"loading", "exited"} => open = {}
    /\ phase \notin Stopped => "database" \in open
    /\ phase \notin Stopped \union {"closing database"} =>
          (instance.service = "identity" => "cache" \in open)

(* a handler runs in a process that serves or stops, is cut when the time   *)
(* of the shutdown is over, and stays below its limit                       *)
HandlerOK(h) ==
    h.at \in Active =>
       /\ phase \notin Stopped
       /\ h.cut => budget = 0
       /\ phase \in Closing <=> h.cut
       /\ h.age <= h.limit /\ h.limit <= GatewayTimeout
       /\ h.at \in Interruptible => h.limit <= 8 * Second
       /\ h.at = "committed" => instance.service = "identity"

HandlersOK == \A r \in Requests : HandlerOK(handler[r])

LifecycleInv == LifecycleTypeOK /\ ConfigAccepted /\ OpenInPhase /\ HandlersOK

LEMMA LifecycleStart == LifecycleInit => LifecycleInv
<1> SUFFICES ASSUME LifecycleInit
             PROVE  LifecycleInv
    OBVIOUS
<1>1. Absent \in Record /\ Absent.at \notin Active
      BY DEF Absent, Record, Active
<1>2. handler \in [Requests -> Record] /\ HandlersOK
      BY <1>1 DEF LifecycleInit, HandlersOK, HandlerOK
<1>3. LifecycleTypeOK
      BY <1>2 DEF LifecycleInit, LifecycleTypeOK, Phases, Record
<1> QED BY <1>2, <1>3 DEF LifecycleInit, LifecycleInv, ConfigAccepted, OpenInPhase, Stopped

(* A step of one handler.                                                   *)
LEMMA HandlerStep ==
    ASSUME LifecycleInv, UnchangedProcess, NEW r \in Requests,
           handler' \in [Requests -> Record],
           \A q \in Requests \ {r} : handler'[q] = handler[q],
           HandlerOK(handler'[r])
    PROVE  LifecycleInv'
<1>1. LifecycleTypeOK'
      BY DEF LifecycleInv, LifecycleTypeOK, UnchangedProcess, Record
<1>2. ConfigAccepted' /\ OpenInPhase'
      BY DEF LifecycleInv, ConfigAccepted, OpenInPhase, UnchangedProcess
<1>3. \A q \in Requests : HandlerOK(handler'[q])
      BY DEF LifecycleInv, HandlersOK
<1>4. HandlersOK'
      BY <1>3 DEF HandlersOK, HandlerOK, UnchangedProcess
<1> QED BY <1>1, <1>2, <1>4 DEF LifecycleInv

LEMMA HandlerTyped ==
    ASSUME LifecycleInv, NEW r \in Requests
    PROVE  handler \in [Requests -> Record] /\ handler[r] \in Record /\ HandlerOK(handler[r])
BY DEF LifecycleInv, LifecycleTypeOK, Record, HandlersOK

(* Only running processes have handlers, and their services are timed.      *)
LEMMA RunningTimed ==
    ASSUME LifecycleInv, phase \notin {"loading", "exited"}
    PROVE  Timed(Service)
BY ServiceTimed DEF LifecycleInv, LifecycleTypeOK, ConfigAccepted

LEMMA EndKeeps ==
    ASSUME LifecycleInv, NEW r \in Requests, End(r), UnchangedProcess
    PROVE  LifecycleInv'
<1>1. handler' \in [Requests -> Record]
      BY HandlerTyped DEF End, Record
<1>2. handler'[r].at \in {"lost", "answered"}
      BY HandlerTyped DEF End, Record
<1>3. HandlerOK(handler'[r])
      BY <1>2 DEF HandlerOK, Active
<1>4. \A q \in Requests \ {r} : handler'[q] = handler[q]
      BY HandlerTyped DEF End
<1> QED BY <1>1, <1>3, <1>4, HandlerStep

LEMMA EnterKeeps ==
    ASSUME LifecycleInv, NEW r \in Requests, NEW limit \in Nat,
           NEW stage \in Active,
           Enter(r, stage, limit), UnchangedProcess,
           handler[r].at \in Active,
           handler[r].age <= limit, limit <= GatewayTimeout,
           stage \in Interruptible => limit <= 8 * Second,
           stage = "committed" => instance.service = "identity"
    PROVE  LifecycleInv'
<1>1. handler' \in [Requests -> Record]
      BY HandlerTyped DEF Enter, Record
<1>2. /\ handler'[r].at = stage /\ handler'[r].limit = limit
      /\ handler'[r].age = handler[r].age /\ handler'[r].cut = handler[r].cut
      BY HandlerTyped DEF Enter, Record
<1>3. HandlerOK(handler'[r])
      BY <1>2, HandlerTyped DEF HandlerOK
<1>4. \A q \in Requests \ {r} : handler'[q] = handler[q]
      BY HandlerTyped DEF Enter
<1> QED BY <1>1, <1>3, <1>4, HandlerStep

LEMMA AcceptKeeps ==
    ASSUME LifecycleInv, NEW r \in Requests, Accept(r)
    PROVE  LifecycleInv'
<1> DEFINE h == [Absent EXCEPT !.at = "queued", !.limit = Service.process]
<1>1. Timed(Service)
      BY RunningTimed DEF Accept, Reachable
<1>2. /\ h.at = "queued" /\ h.age = 0 /\ h.limit = Service.process /\ h.cut = FALSE
      /\ Service.process \in Nat
      BY <1>1 DEF Absent, Timed
<1>3. h \in Record
      BY <1>2 DEF Record, Absent, Active
<1>4. HandlerOK(h)
  <2>1. phase \notin Stopped /\ phase \notin Closing
        BY DEF Accept, Reachable, Stopped, Closing
  <2>2. 0 <= Service.process /\ Service.process <= 8 * Second /\ Service.process <= GatewayTimeout
        BY <1>1, Units DEF Timed, GatewayTimeout
  <2> HIDE DEF h
  <2> QED BY <1>2, <2>1, <2>2 DEF HandlerOK
<1>5. handler' = [handler EXCEPT ![r] = h]
      BY DEF Accept
<1> HIDE DEF h
<1>6. handler' \in [Requests -> Record] /\ handler'[r] = h
      BY <1>3, <1>5, HandlerTyped
<1>7. \A q \in Requests \ {r} : handler'[q] = handler[q]
      BY <1>5, HandlerTyped
<1> QED BY <1>4, <1>6, <1>7, HandlerStep DEF Accept

LEMMA CollectKeeps ==
    ASSUME LifecycleInv, NEW r \in Requests, Collect(r)
    PROVE  LifecycleInv'
<1>1. handler' \in [Requests -> Record] /\ handler'[r] = Absent
      BY HandlerTyped DEF Collect, Record, Absent
<1>2. HandlerOK(Absent)
      BY DEF HandlerOK, Absent, Active
<1>3. \A q \in Requests \ {r} : handler'[q] = handler[q]
      BY HandlerTyped DEF Collect
<1> QED BY <1>1, <1>2, <1>3, HandlerStep DEF Collect

LEMMA AcquireKeeps ==
    ASSUME LifecycleInv, NEW r \in Requests, Acquire(r)
    PROVE  LifecycleInv'
<1>1. /\ handler[r] \in Record /\ HandlerOK(handler[r])
      /\ handler[r].at = "queued"
      BY HandlerTyped DEF Acquire
<1>2. /\ handler[r].limit \in Nat /\ handler[r].age <= handler[r].limit
      /\ handler[r].limit <= GatewayTimeout /\ handler[r].limit <= 8 * Second
      BY <1>1 DEF HandlerOK, Active, Interruptible, Record
<1> QED BY <1>1, <1>2, EnterKeeps DEF Acquire, Active

LEMMA CommitKeeps ==
    ASSUME LifecycleInv, NEW r \in Requests, Commit(r)
    PROVE  LifecycleInv'
<1>1. /\ handler[r] \in Record /\ HandlerOK(handler[r])
      /\ handler[r].at = "working"
      BY HandlerTyped DEF Commit
<1>2. /\ handler[r].age \in Nat /\ handler[r].limit \in Nat
      /\ handler[r].age <= handler[r].limit
      /\ handler[r].limit <= 8 * Second /\ phase \notin Stopped
      BY <1>1 DEF HandlerOK, Active, Interruptible, Record
<1>3. Timed(Service)
      BY <1>2, RunningTimed DEF Stopped
<1>4. CASE "cache" \in Resources
  <2> DEFINE limit == handler[r].age + Service.invalidation
  <2>1. limit \in Nat /\ handler[r].age <= limit /\ limit <= GatewayTimeout
        BY <1>2, <1>3, Units DEF Timed, GatewayTimeout
  <2>2. Enter(r, "committed", limit) /\ UnchangedProcess /\ instance.service = "identity"
        BY <1>4 DEF Commit, Resources
  <2>3. "committed" \in Active /\ "committed" \notin Interruptible /\ handler[r].at \in Active
        BY <1>1 DEF Active, Interruptible
  <2> HIDE DEF limit
  <2> QED BY <2>1, <2>2, <2>3, EnterKeeps
<1>5. CASE "cache" \notin Resources
      BY <1>5, EndKeeps DEF Commit
<1> QED BY <1>4, <1>5

LEMMA FailKeeps ==
    ASSUME LifecycleInv, NEW r \in Requests, Fail(r)
    PROVE  LifecycleInv'
<1>1. CASE End(r)
      BY <1>1, EndKeeps DEF Fail
<1>2. CASE handler[r].at = "working" /\ Enter(r, "rolling back", RollbackLimit(r))
  <2>1. handler[r] \in Record /\ HandlerOK(handler[r])
        BY HandlerTyped
  <2>2. /\ handler[r].age \in Nat /\ handler[r].limit \in Nat
        /\ handler[r].age <= handler[r].limit
        /\ handler[r].limit <= 8 * Second /\ phase \notin Stopped
        BY <1>2, <2>1 DEF HandlerOK, Active, Interruptible, Record
  <2>3. Timed(Service)
        BY <2>2, RunningTimed DEF Stopped
  <2>4. /\ RollbackLimit(r) \in Nat /\ handler[r].age <= RollbackLimit(r)
        /\ RollbackLimit(r) <= GatewayTimeout
        BY <2>2, <2>3, Units DEF RollbackLimit, Timed, GatewayTimeout
  <2>5. "rolling back" \in Active /\ "rolling back" \notin Interruptible /\ handler[r].at \in Active
        BY <1>2 DEF Active, Interruptible
  <2> QED BY <1>2, <2>4, <2>5, EnterKeeps DEF Fail
<1> QED BY <1>1, <1>2 DEF Fail

LEMMA FinishKeeps ==
    ASSUME LifecycleInv, NEW r \in Requests, Finish(r)
    PROVE  LifecycleInv'
BY EndKeeps DEF Finish
-----------------------------------------------------------------------------
(* A step of the process that leaves the handlers alone, among phases in    *)
(* which they are to be found alike.                                        *)
LEMMA ProcessStep ==
    ASSUME LifecycleInv, LifecycleTypeOK', ConfigAccepted', OpenInPhase',
           UNCHANGED <<instance, handler>>,
           phase' \in Stopped => \A r \in Requests : ~IsActive(r),
           phase' \in Closing <=> phase \in Closing,
           phase \in Closing => budget' = budget
    PROVE  LifecycleInv'
<1>1. ASSUME NEW r \in Requests
      PROVE  HandlerOK(handler[r])'
      BY HandlerTyped DEF HandlerOK, IsActive
<1> QED BY <1>1 DEF LifecycleInv, HandlersOK

(* Before the process serves, and after it ended, nothing is handled.       *)
LEMMA NoneYet ==
    ASSUME LifecycleInv, phase \in Stopped
    PROVE  \A r \in Requests : ~IsActive(r)
BY DEF LifecycleInv, HandlersOK, HandlerOK, IsActive

LEMMA StartupKeeps ==
    ASSUME LifecycleInv, Startup
    PROVE  LifecycleInv'
<1> USE DEF LifecycleInv, LifecycleTypeOK, ConfigAccepted, OpenInPhase, Phases, Stopped, Closing
<1>1. CASE Load
      BY <1>1, NoneYet, ProcessStep DEF Load
<1>2. ASSUME NEW resource \in Resources, Open(resource)
      PROVE  LifecycleInv'
      BY <1>2, NoneYet, ProcessStep DEF Open, Resources
<1>3. CASE StartFails
      BY <1>3, NoneYet, ProcessStep DEF StartFails
<1>4. CASE Serve
      BY <1>4, NoneYet, ProcessStep DEF Serve, Resources
<1> QED BY <1>1, <1>2, <1>3, <1>4 DEF Startup

LEMMA EnvironmentKeeps ==
    ASSUME LifecycleInv, Environment
    PROVE  LifecycleInv'
<1> USE DEF LifecycleInv, LifecycleTypeOK, ConfigAccepted, OpenInPhase, Stopped, Closing
<1>1. CASE Signal
  <2>1. CASE phase = "loading"
        BY <1>1, <2>1, NoneYet, ProcessStep DEF Signal, Phases
  <2>2. CASE phase # "loading"
    <3>1. phase' = phase /\ UNCHANGED <<instance, open, budget, handler>>
          BY <1>1, <2>2 DEF Signal
    <3>2. LifecycleTypeOK' /\ ConfigAccepted' /\ OpenInPhase'
          BY <1>1, <3>1 DEF Signal
    <3> QED BY <3>1, <3>2, NoneYet, ProcessStep
  <2> QED BY <2>1, <2>2
<1>2. CASE ServerStops
      BY <1>2, NoneYet, ProcessStep DEF ServerStops, Listeners
<1>3. CASE StartScrape
      BY <1>3, NoneYet, ProcessStep DEF StartScrape
<1>4. CASE EndScrape
      BY <1>4, NoneYet, ProcessStep DEF EndScrape
<1> QED BY <1>1, <1>2, <1>3, <1>4 DEF Environment

LEMMA BeginShutdownKeeps ==
    ASSUME LifecycleInv, BeginShutdown
    PROVE  LifecycleInv'
<1>1. Service.shutdown \in Nat
      BY RunningTimed DEF BeginShutdown, Timed
<1>2. LifecycleTypeOK' /\ ConfigAccepted' /\ OpenInPhase'
      BY <1>1 DEF BeginShutdown, LifecycleInv, LifecycleTypeOK, ConfigAccepted, OpenInPhase,
         Phases, Stopped
<1> QED BY <1>2, ProcessStep DEF BeginShutdown, Stopped, Closing

LEMMA StopMetricsKeeps ==
    ASSUME LifecycleInv, StopMetrics
    PROVE  LifecycleInv'
<1>1. LifecycleTypeOK' /\ ConfigAccepted' /\ OpenInPhase'
      BY DEF StopMetrics, LifecycleInv, LifecycleTypeOK, ConfigAccepted, OpenInPhase,
         Phases, Stopped
<1> QED BY <1>1, ProcessStep DEF StopMetrics, Stopped, Closing

LEMMA CloseCacheKeeps ==
    ASSUME LifecycleInv, CloseCache
    PROVE  LifecycleInv'
<1>1. LifecycleTypeOK' /\ ConfigAccepted' /\ OpenInPhase'
      BY DEF CloseCache, LifecycleInv, LifecycleTypeOK, ConfigAccepted, OpenInPhase,
         Phases, Stopped
<1> QED BY <1>1, ProcessStep DEF CloseCache, Stopped, Closing

(* The handlers that are left are cut when the budget is over.              *)
LEMMA StopApplicationKeeps ==
    ASSUME LifecycleInv, StopApplication
    PROVE  LifecycleInv'
<1>1. \A r \in Requests :
         handler'[r] = IF IsActive(r) THEN [handler[r] EXCEPT !.cut = TRUE] ELSE handler[r]
      BY DEF StopApplication
<1>2. ASSUME NEW r \in Requests
      PROVE  handler'[r] \in Record /\ HandlerOK(handler[r])'
  <2>1. handler[r] \in Record /\ HandlerOK(handler[r])
        BY HandlerTyped
  <2>2. CASE IsActive(r)
    <3>1. handler'[r] = [handler[r] EXCEPT !.cut = TRUE] /\ budget = 0
          BY <1>1, <2>2 DEF StopApplication
    <3>2. /\ handler'[r] \in Record /\ handler'[r].cut
          /\ handler'[r].at = handler[r].at /\ handler'[r].age = handler[r].age
          /\ handler'[r].limit = handler[r].limit
          BY <2>1, <3>1 DEF Record
    <3> QED BY <2>1, <2>2, <3>1, <3>2
            DEF HandlerOK, IsActive, StopApplication, Stopped, Closing
  <2>3. CASE ~IsActive(r)
        BY <1>1, <2>1, <2>3 DEF HandlerOK, IsActive
  <2> QED BY <2>2, <2>3
<1>3. handler' \in [Requests -> Record] /\ HandlersOK'
      BY <1>2 DEF StopApplication, HandlersOK
<1>4. LifecycleTypeOK' /\ ConfigAccepted' /\ OpenInPhase'
      BY <1>3 DEF StopApplication, LifecycleInv, LifecycleTypeOK, ConfigAccepted, OpenInPhase,
         Phases, Stopped, Record
<1> QED BY <1>3, <1>4 DEF LifecycleInv

LEMMA ExitKeeps ==
    ASSUME LifecycleInv, Exit
    PROVE  LifecycleInv'
<1>1. ASSUME NEW r \in Requests
      PROVE  handler'[r] \in Record /\ handler'[r].at \notin Active
  <2>1. handler[r] \in Record
        BY HandlerTyped
  <2>2. CASE IsActive(r)
    <3>1. handler'[r] = [handler[r] EXCEPT !.at = "lost"]
          BY <2>2 DEF Exit
    <3> QED BY <2>1, <3>1 DEF Record, Active
  <2>3. CASE ~IsActive(r)
        BY <2>1, <2>3 DEF Exit, IsActive
  <2> QED BY <2>2, <2>3
<1>2. handler' \in [Requests -> Record] /\ HandlersOK'
      BY <1>1 DEF Exit, HandlersOK, HandlerOK
<1>3. LifecycleTypeOK' /\ ConfigAccepted' /\ OpenInPhase'
      BY <1>2 DEF Exit, LifecycleInv, LifecycleTypeOK, ConfigAccepted, OpenInPhase,
         Phases, Stopped, Record
<1> QED BY <1>2, <1>3 DEF LifecycleInv

(* Time passes only as long as every handler's limit allows.                *)
LEMMA ServiceTickKeeps ==
    ASSUME LifecycleInv, ServiceTick
    PROVE  LifecycleInv'
<1> USE LifecycleAssumption
<1>1. budget' \in Nat /\ (phase \in Closing => budget' = budget) /\ (budget = 0 => budget' = 0)
  <2>1. budget \in Nat /\ Step \in Nat \ {0}
        BY DEF LifecycleInv, LifecycleTypeOK
  <2>2. Rest(budget - Step) \in Nat /\ (budget = 0 => Rest(budget - Step) = 0)
        BY <2>1 DEF Rest
  <2>3. budget' = IF InShutdown THEN Rest(budget - Step) ELSE budget
        BY DEF ServiceTick
  <2>4. phase \in Closing => ~InShutdown
        BY DEF InShutdown, Closing
  <2> QED BY <2>1, <2>2, <2>3, <2>4
<1>2. ASSUME NEW r \in Requests
      PROVE  handler'[r] \in Record /\ HandlerOK(handler[r])'
  <2>1. handler[r] \in Record /\ HandlerOK(handler[r])
        BY HandlerTyped
  <2>2. CASE IsActive(r)
    <3>1. /\ handler'[r] = [handler[r] EXCEPT !.age = @ + Step]
          /\ handler[r].age + Step <= handler[r].limit
          BY <2>1, <2>2 DEF ServiceTick, Due, Record
    <3>2. /\ handler'[r] \in Record /\ handler'[r].cut = handler[r].cut
          /\ handler'[r].at = handler[r].at /\ handler'[r].age = handler[r].age + Step
          /\ handler'[r].limit = handler[r].limit
          BY <2>1, <3>1 DEF Record
    <3> QED BY <1>1, <2>1, <2>2, <3>1, <3>2 DEF HandlerOK, IsActive, ServiceTick
  <2>3. CASE ~IsActive(r)
        BY <2>1, <2>3 DEF HandlerOK, IsActive, ServiceTick
  <2> QED BY <2>2, <2>3
<1>3. handler' \in [Requests -> Record] /\ HandlersOK'
      BY <1>2 DEF ServiceTick, HandlersOK
<1>4. LifecycleTypeOK' /\ ConfigAccepted' /\ OpenInPhase'
      BY <1>1, <1>3 DEF ServiceTick, LifecycleInv, LifecycleTypeOK, ConfigAccepted,
         OpenInPhase, Record
<1> QED BY <1>3, <1>4 DEF LifecycleInv

LEMMA LifecycleKeeps == LifecycleInv /\ [LifecycleNext]_lifecycleVars => LifecycleInv'
<1> SUFFICES ASSUME LifecycleInv, [LifecycleNext]_lifecycleVars
             PROVE  LifecycleInv'
    OBVIOUS
<1>1. CASE Shutdown
      BY <1>1, BeginShutdownKeeps, StopMetricsKeeps, StopApplicationKeeps, CloseCacheKeeps,
         ExitKeeps DEF Shutdown
<1>2. ASSUME NEW r \in Requests, Accept(r) \/ Handle(r) \/ Collect(r)
      PROVE  LifecycleInv'
      BY <1>2, AcceptKeeps, AcquireKeeps, CommitKeeps, FailKeeps, FinishKeeps, CollectKeeps
         DEF Handle
<1>3. CASE UNCHANGED lifecycleVars
      BY <1>3 DEF lifecycleVars, LifecycleInv, LifecycleTypeOK, ConfigAccepted, OpenInPhase,
         HandlersOK, HandlerOK
<1> QED BY <1>1, <1>2, <1>3, StartupKeeps, EnvironmentKeeps, ServiceTickKeeps
        DEF LifecycleNext

(* What is open in each phase, and what every handler may count on.         *)
THEOREM LifecycleInvariant == LifecycleSpec => []LifecycleInv
BY LifecycleStart, LifecycleKeeps, PTL DEF LifecycleSpec

(* Every state of a process is well typed.                                  *)
THEOREM LifecycleTypeCorrect == LifecycleSpec => []LifecycleTypeOK
<1>1. LifecycleInv => LifecycleTypeOK
      BY DEF LifecycleInv
<1> QED BY <1>1, LifecycleInvariant, PTL

LEMMA InvKeepsWork == LifecycleInv => ShutdownKeepsWork
<1> SUFFICES ASSUME LifecycleInv
             PROVE  ShutdownKeepsWork
    OBVIOUS
<1>1. ASSUME NEW r \in Requests, IsActive(r)
      PROVE  /\ phase \notin Stopped /\ "database" \in open
             /\ handler[r].cut => budget = 0
             /\ handler[r].at = "committed" /\ ~handler[r].cut => "cache" \in open
      BY <1>1 DEF LifecycleInv, LifecycleTypeOK, OpenInPhase, HandlersOK, HandlerOK, IsActive,
         Closing, Stopped
<1>2. phase = "exited" => open = {} /\ \A r \in Requests : ~IsActive(r)
      BY <1>1 DEF LifecycleInv, OpenInPhase, Stopped
<1>3. \A r \in Requests : handler[r].at \in Interruptible \union Holding \union {"committed"}
                            => IsActive(r)
      BY DEF IsActive, Active, Interruptible, Holding
<1> QED BY <1>1, <1>2, <1>3 DEF ShutdownKeepsWork

(* The shutdown takes nothing away from a handler before its time is over.  *)
THEOREM WorkIsKept == LifecycleSpec => []ShutdownKeepsWork
BY LifecycleInvariant, InvKeepsWork, PTL

LEMMA InvWaitsLongEnough == LifecycleInv => GatewayWaitsLongEnough
BY Units DEF LifecycleInv, LifecycleTypeOK, HandlersOK, HandlerOK, IsActive,
   GatewayWaitsLongEnough, GatewayTimeout

(* No accepted environment lets a webhook take longer than the gateway      *)
(* waits, its rollback or invalidation included.                            *)
THEOREM GatewayOutwaits == LifecycleSpec => []GatewayWaitsLongEnough
BY LifecycleInvariant, InvWaitsLongEnough, PTL
=============================================================================

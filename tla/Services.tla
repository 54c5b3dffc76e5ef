------------------------------ MODULE Services ------------------------------
(***************************************************************************)
(* The services around the task store, one at a time: each module EXTENDS  *)
(* list keeps variables of its own, no property relates those of two, and  *)
(* so exploring one with the others at rest finds whatever exploring their *)
(* product would.  part says which one moves.                              *)
(***************************************************************************)
EXTENDS Gateway, Licence, Fleet, Access, Webhooks, Alerts, Providers, CloudSync,
        PolicyFile, Realtime, Setup, Rollup, Worktrees, ApiKeys, Management,
        Routing, RateLimiter, Push, ModelCatalog

VARIABLE part

Parts == {"gateway", "licence", "fleet", "access", "webhooks", "alerts", "providers",
          "cloud", "policy", "realtime", "setup", "rollup", "worktrees", "keys",
          "management", "routing", "rates", "push", "catalog"}

---------------------------------------------------------------------------
(* What a part starts from is chosen only where the part is to move.       *)
Undecided ==
    /\ part # "gateway" => budgetPolicy = CHOOSE policy \in Policies : TRUE
    /\ part # "licence" => customerUnique
    /\ part # "alerts"  => ruleType = "anomaly"
    /\ part # "cloud"   => localPolicy = [p \in Paths |-> CHOOSE v \in Values : TRUE]
    /\ part # "routing" => registry = [f \in Files |-> [p \in ThirdParties |-> "absent"]]
    /\ part # "catalog" => model = [m \in Listings |-> NoModel]

ServicesInit ==
    /\ part \in Parts
    /\ GatewayInit /\ LicenceInit /\ FleetInit /\ AccessInit /\ WebhooksInit
    /\ AlertsInit /\ ProvidersInit /\ CloudInit /\ PolicyInit
    /\ RealtimeInit /\ SetupInit /\ RollupInit
    /\ WorktreesInit /\ ApiKeysInit /\ ManagementInit
    /\ RoutingInit /\ RateInit /\ PushInit /\ CatalogInit
    /\ Undecided

Rests(vars, p) == IF part = p THEN TRUE ELSE UNCHANGED vars

OthersRest ==
    /\ UNCHANGED part
    /\ Rests(gatewayVars, "gateway") /\ Rests(licenceVars, "licence")
    /\ Rests(fleetVars, "fleet")     /\ Rests(accessVars, "access")
    /\ Rests(hookVars, "webhooks")   /\ Rests(alertVars, "alerts")
    /\ Rests(providersVars, "providers") /\ Rests(cloudVars, "cloud")
    /\ Rests(policyVars, "policy")   /\ Rests(realtimeVars, "realtime")
    /\ Rests(setupVars, "setup")     /\ Rests(rollupVars, "rollup")
    /\ Rests(treeVars, "worktrees") /\ Rests(keyVars, "keys")
    /\ Rests(mgmtVars, "management") /\ Rests(routingVars, "routing")
    /\ Rests(rateVars, "rates") /\ Rests(pushVars, "push")
    /\ Rests(catalogVars, "catalog")

ServicesNext ==
    \/ part = "gateway"   /\ OthersRest /\ GatewayNext
    \/ part = "licence"   /\ OthersRest /\ LicenceNext
    \/ part = "fleet"     /\ OthersRest /\ FleetNext
    \/ part = "access"    /\ OthersRest /\ AccessNext
    \/ part = "webhooks"  /\ OthersRest /\ WebhooksNext
    \/ part = "alerts"    /\ OthersRest /\ AlertsNext
    \/ part = "providers" /\ OthersRest /\ ProvidersNext
    \/ part = "cloud"     /\ OthersRest /\ CloudNext
    \/ part = "policy"    /\ OthersRest /\ PolicyNext
    \/ part = "realtime"  /\ OthersRest /\ RealtimeNext
    \/ part = "setup"     /\ OthersRest /\ SetupNext
    \/ part = "rollup"    /\ OthersRest /\ RollupNext
    \/ part = "worktrees" /\ OthersRest /\ WorktreesNext
    \/ part = "keys"      /\ OthersRest /\ ApiKeysNext
    \/ part = "management" /\ OthersRest /\ ManagementNext
    \/ part = "routing"   /\ OthersRest /\ RoutingNext
    \/ part = "rates"     /\ OthersRest /\ RateNext
    \/ part = "push"      /\ OthersRest /\ PushNext
    \/ part = "catalog"   /\ OthersRest /\ CatalogNext

servicesVars == <<part, gatewayVars, licenceVars, fleetVars, accessVars, hookVars, alertVars,
                  providersVars, cloudVars, policyVars, realtimeVars, setupVars, rollupVars,
                  treeVars, keyVars, mgmtVars, routingVars, rateVars, pushVars,
                  catalogVars>>

ServicesSpec == ServicesInit /\ [][ServicesNext]_servicesVars

---------------------------------------------------------------------------
\* Every service keeps to its types, each a conjunct its own module states.  One at rest
\* is as it was at first, and is judged where it moves.
WhenMoving(p, holds) == part = p => holds

ServicesTypeOK ==
    /\ WhenMoving("gateway", GatewayTypeOK) /\ WhenMoving("licence", LicenceTypeOK)
    /\ WhenMoving("fleet", FleetTypeOK) /\ WhenMoving("access", AccessTypeOK)
    /\ WhenMoving("webhooks", WebhooksTypeOK) /\ WhenMoving("alerts", AlertsTypeOK)
    /\ WhenMoving("providers", ProvidersTypeOK) /\ WhenMoving("cloud", CloudTypeOK)
    /\ WhenMoving("policy", PolicyTypeOK) /\ WhenMoving("realtime", RealtimeTypeOK)
    /\ WhenMoving("setup", SetupTypeOK) /\ WhenMoving("rollup", RollupTypeOK)
    /\ WhenMoving("worktrees", WorktreesTypeOK) /\ WhenMoving("keys", ApiKeysTypeOK)
    /\ WhenMoving("management", ManagementTypeOK) /\ WhenMoving("routing", RoutingTypeOK)
    /\ WhenMoving("rates", RateTypeOK) /\ WhenMoving("push", PushTypeOK)
    /\ WhenMoving("catalog", CatalogTypeOK)

\* What is delivered, replayed or confirmed again does its work once: a payment
\* event (stripe-webhook.mjs:130-143), a failed attempt
\* (management-webhooks.mjs:41-43), a policy preview (cloud-control-plane.mjs:186-190),
\* an escalation (escalation-push.mjs:123-125).
AtMostOnce == AppliedOnce /\ ReplayedOnce /\ ConfirmedOnce /\ ToldOnce

\* Nothing acknowledged is lost: a policy pushed from the cloud
\* (cloud-control-plane.mjs:204-211), an event the agent owes it
\* (local-agent.mjs:172-181), a setting saved (policy-write.mjs:9-17), an event the
\* summaries are to count (aggregation.mjs:179-184), a commit never pushed
\* (worktree.mjs:160-163), the founder's uncommitted work (boot-guard.mjs:18-21), an
\* escalation held to have been posted (escalation-push.mjs:153-156), a tier the founder
\* set (api/v1/models.mjs:64).
NothingLost ==
    /\ LastPushWins /\ OwedIsReported /\ EditsKept /\ HourlyExact
    /\ UnpushedKept /\ FounderWorkStays /\ PushedWasShown /\ FounderTierKept

\* What is answered or used without looking again is recent and valid: a cached
\* tier (license-validate.mjs:69-86), the watcher's snapshot and the policy it was
\* taken from (config-hot-reload.mjs:15-20), a page that has its events by a stream
\* (dashboard/operational-events.mjs:54-63), the wait a refused caller was told
\* (api/rate-limiter.mjs:36-46), the models on offer and their tiers
\* (model-discovery.mjs:36-76).
NeverMisled ==
    /\ CachedTierRecent /\ SnapshotCurrent /\ NeverMisconfigured /\ PageCurrent
    /\ RetryHonoured /\ CatalogFollowsAnswers /\ OfferedAreTiered

\* Several writes that belong together are all made or none: an account and its
\* membership (user-store.mjs:424-457), the files of an installation
\* (setup-wizard-core.mjs:406-411), an API key and its successor
\* (auth/api-tokens.mjs:257-259).
AllOrNothing == AcceptanceWhole /\ InstallationWhole /\ RotationWhole

\* What has been ended stays so: a project that was stopped (control-plane.mjs:344-404),
\* a key whose setup session is over (dashboard/server.mjs:392-397), an API key revoked,
\* rotated out or past its overlap (auth/api-tokens.mjs:211-220).
EndedStaysEnded == StoppedStaysStopped /\ SecretsEnd /\ EndedKeysStayOut

\* Those who work beside each other keep apart: agents in their worktrees
\* (worktree.mjs:9-13), tenants in their workflow state
\* (dashboard/management-router.mjs:15-17).
KeptApart == TreesApart /\ TenantsApart

\* Caps are overrun by the requests in flight at most, and where the runner's gate halts
\* the gateway denies (budget.mjs:220-291, gateway/windows.mjs:69-104); no run draws on
\* Anthropic unasked (router.mjs:136-141), saving costs a task a tier at most
\* (model-router.mjs:325-331), and no key asks more than its rate (api/rate-limiter.mjs).
BudgetHolds ==
    OverrunBounded /\ GateHaltMeansDeny /\ NoSurpriseSpend /\ NeverUnderServed /\ RateKept
=============================================================================

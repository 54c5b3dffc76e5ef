------------------------------ MODULE Routing ------------------------------
(***************************************************************************)
(* Which provider, model tier and command line an agent's run is given     *)
(* (model-router.mjs:211-376, router.mjs:130-183), and whose account the   *)
(* run then draws on (runner.mjs:163-169, launcher.mjs:265-281,            *)
(* harness-adapters.mjs).                                                  *)
(*                                                                         *)
(* A cycle decides for every agent at once and then launches one run after *)
(* the other, waiting for each to end.  The providers' file and the keys   *)
(* may change meanwhile, and the launch looks the provider up again.  The  *)
(* plan reads the file beside the process, the launch the one of the       *)
(* repository.                                                             *)
(*                                                                         *)
(* A provider is in a file or not, and with its key set or not.  Tiers are *)
(* 1 (simple) to TopTier (critical).  Model names stand for their tier.    *)
(***************************************************************************)
EXTENDS Integers, FiniteSets, FiniteSetsExt

CONSTANTS
    RoutedAgents,
    ThirdParties,   \* providers other than Anthropic's own login
    TopTier,
    ServedTiers,    \* [ThirdParties -> tiers it names a model for]
    Speaks,         \* [ThirdParties -> harnesses whose wire it has]
    Signals,        \* the tiers a task's type, tags and complexity call for
    EntryHarnesses, \* the harnesses an entry may name
    MaxPlans        \* bound: cycles

Native == "anthropic"
NoProvider == "none"
Harnesses == {"claude-code", "opencode", "antigravity"}
Files == {"beside", "repository"}
Found == {"absent", "keyless", "keyed"}

ASSUME RoutingAssumption ==
    /\ TopTier \in Nat \ {0} /\ MaxPlans \in Nat
    /\ ServedTiers \in [ThirdParties -> SUBSET (1..TopTier)]
    /\ EntryHarnesses \subseteq Harnesses
    /\ Native \notin ThirdParties
    /\ Signals # {}
    /\ Signals \subseteq [explicit : 0..TopTier, inferred : 0..TopTier, numeric : 1..TopTier]

\* The routing entry of a task's role or tier names a provider and maybe a harness, or
\* only a model of Anthropic's, or is missing.
Entries == [provider : ThirdParties \cup {Native}, harness : EntryHarnesses \cup {"default"}]
           \cup {[provider |-> NoProvider, harness |-> "default"]}

\* What a cycle's policy and tasks ask: an entry and the signals of its task per agent,
\* whether the budget warns and the policy downgrades then, and on_missing_key.
Asks == [entry : Entries, signals : Signals, downgrade : BOOLEAN, fallback : BOOLEAN]

VARIABLES
    registry,   \* [Files -> [ThirdParties -> Found]]
    dispatch,   \* what became of each agent's turn in the cycle
    plans       \* bound: cycles begun

routingVars == <<registry, dispatch, plans>>

NoAsk == [entry |-> [provider |-> NoProvider, harness |-> "default"],
          signals |-> CHOOSE s \in Signals : TRUE, downgrade |-> FALSE, fallback |-> FALSE]
NoTurn == [phase |-> "idle", ask |-> NoAsk, provider |-> NoProvider, harness |-> "default",
           tier |-> 0, found |-> "keyed", pays |-> NoProvider]

RoutingInit ==
    /\ registry \in [Files -> [ThirdParties -> Found]]
    /\ dispatch = [a \in RoutedAgents |-> NoTurn]
    /\ plans = 0

---------------------------------------------------------------------------
(* Deciding (model-router.mjs, router.mjs).                                *)

\* No signal of a task is overruled by a lower one.
complexityTier_explicit(signals) ==
    IF signals.explicit > 0 THEN signals.explicit ELSE Max({signals.inferred, signals.numeric})
complexityTier(signals) == Max({signals.explicit, signals.inferred, signals.numeric})

effectiveTier(ask) ==
    IF ask.downgrade THEN Max({1, complexityTier(ask.signals) - 1}) ELSE complexityTier(ask.signals)

\* Every entry that is not an object names a model of Anthropic's.
providerName(ask) == IF ask.entry.provider = NoProvider THEN Native ELSE ask.entry.provider

defaultHarnessForProvider(p) == IF p = Native THEN "claude-code" ELSE "opencode"

harnessOf(ask) ==
    IF ask.entry.harness = "default" THEN defaultHarnessForProvider(providerName(ask))
    ELSE ask.entry.harness

\* A provider that is in no file, or has no model for the tier where the entry names
\* none itself, throws.
Throws(ask) ==
    LET p == providerName(ask)
    IN p # Native /\ (registry["beside"][p] = "absent" \/ effectiveTier(ask) \notin ServedTiers[p])

providerKeyPresent(p) == p = Native \/ registry["beside"][p] = "keyed"

\* A missing key denies the turn, unless the policy opts into Anthropic.
decide_fallsBack(ask) ==
    LET turn == [NoTurn EXCEPT !.ask = ask, !.tier = effectiveTier(ask)]
    IN IF providerKeyPresent(providerName(ask))
       THEN [turn EXCEPT !.phase = "decided", !.provider = providerName(ask), !.harness = harnessOf(ask)]
       ELSE [turn EXCEPT !.phase = "decided", !.provider = Native, !.harness = "claude-code"]
decide(ask) ==
    LET turn == [NoTurn EXCEPT !.ask = ask, !.tier = effectiveTier(ask)]
    IN IF providerKeyPresent(providerName(ask))
       THEN [turn EXCEPT !.phase = "decided", !.provider = providerName(ask), !.harness = harnessOf(ask)]
       ELSE IF ask.fallback
       THEN [turn EXCEPT !.phase = "decided", !.provider = Native, !.harness = "claude-code"]
       ELSE [turn EXCEPT !.phase = "denied"]

\* One agent's entry that throws ends the cycle for all of them.
planRun ==
    /\ plans < MaxPlans /\ plans' = plans + 1
    /\ \A a \in RoutedAgents : dispatch[a].phase # "decided"
    /\ \E asked \in [RoutedAgents -> Asks] :
         /\ \A a, b \in RoutedAgents : /\ asked[a].downgrade = asked[b].downgrade
                                       /\ asked[a].fallback = asked[b].fallback
         /\ dispatch' = IF \E a \in RoutedAgents : Throws(asked[a])
                        THEN [a \in RoutedAgents |-> [NoTurn EXCEPT !.phase = "thrown"]]
                        ELSE [a \in RoutedAgents |-> decide(asked[a])]
    /\ UNCHANGED registry

---------------------------------------------------------------------------
(* Launching (runner.mjs, launcher.mjs, harness-adapters.mjs).             *)

\* What the second look finds.
LookedUp(turn) == IF turn.provider = Native THEN "keyed" ELSE registry["repository"][turn.provider]

\* A descriptor that is not there is taken for Anthropic's.
resolvedProvider(turn) == IF LookedUp(turn) = "absent" THEN Native ELSE turn.provider

\* The adapters throw where harness and provider do not fit, or the key is not set.
buildSpawnPlan_keyless(turn) ==
    LET p == resolvedProvider(turn)
    IN CASE turn.harness = "claude-code" -> TRUE
         [] turn.harness = "opencode"    -> p # Native /\ "opencode" \in Speaks[p]
         [] OTHER                        -> TRUE
buildSpawnPlan(turn) ==
    LET p == resolvedProvider(turn)
    IN CASE turn.harness = "claude-code" -> p = Native \/ ("claude-code" \in Speaks[p] /\ LookedUp(turn) = "keyed")
         [] turn.harness = "opencode"    -> p # Native /\ "opencode" \in Speaks[p]
         [] OTHER                        -> TRUE

\* claude-code without a key of its own uses the login of whoever runs it.
Pays(turn) ==
    IF turn.harness = "antigravity" THEN "antigravity"
    ELSE IF LookedUp(turn) = "keyed" THEN resolvedProvider(turn)
    ELSE IF turn.harness = "claude-code" THEN Native
    ELSE NoProvider

launch(a) ==
    /\ dispatch[a].phase = "decided"
    /\ \A b \in RoutedAgents : dispatch[b].phase # "running"
    /\ LET turn == dispatch[a]
       IN dispatch' = [dispatch EXCEPT ![a] =
            IF buildSpawnPlan(turn)
            THEN [turn EXCEPT !.phase = "running", !.found = LookedUp(turn), !.pays = Pays(turn)]
            ELSE [turn EXCEPT !.phase = "failed"]]
    /\ UNCHANGED <<registry, plans>>

RunOver(a) ==
    /\ dispatch[a].phase = "running"
    /\ dispatch' = [dispatch EXCEPT ![a] = NoTurn]
    /\ UNCHANGED <<registry, plans>>

\* A provider is added, hidden or given a key, in one file or both.
EditProviders(p, files, found) ==
    /\ \E f \in files : registry[f][p] # found
    /\ registry' = [f \in Files |-> IF f \in files THEN [registry[f] EXCEPT ![p] = found] ELSE registry[f]]
    /\ UNCHANGED <<dispatch, plans>>

RoutingNext ==
    \/ planRun
    \/ \E a \in RoutedAgents : launch(a) \/ RunOver(a)
    \/ \E p \in ThirdParties, files \in {Files, {"beside"}, {"repository"}}, found \in Found :
         EditProviders(p, files, found)

RoutingSpec == RoutingInit /\ [][RoutingNext]_routingVars

---------------------------------------------------------------------------
RoutingTypeOK ==
    /\ registry \in [Files -> [ThirdParties -> Found]]
    /\ \A a \in RoutedAgents :
         /\ dispatch[a].phase \in {"idle", "decided", "denied", "thrown", "running", "failed"}
         /\ dispatch[a].ask \in Asks
         /\ dispatch[a].provider \in ThirdParties \cup {Native, NoProvider}
         /\ dispatch[a].harness \in Harnesses \cup {"default"}
         /\ dispatch[a].tier \in 0..TopTier
    /\ plans \in 0..MaxPlans

\* A run draws on Anthropic only where its entry names Anthropic or the policy opted in
\* for want of a key (router.mjs:136-141) -- or where the provider it was decided for was
\* not in the repository's file when it was launched (launcher.mjs:265).
NoSurpriseSpend ==
    \A a \in RoutedAgents :
        LET turn == dispatch[a]
        IN turn.phase = "running" /\ turn.pays = Native =>
             \/ providerName(turn.ask) = Native
             \/ turn.ask.fallback
             \/ turn.found = "absent" /\ turn.harness = "claude-code"

\* A run's model is of the tier the highest of its task's signals calls for, or of the
\* one below it where the budget warns and the policy allows it (model-router.mjs:262-266, 325-331).
NeverUnderServed ==
    \A a \in RoutedAgents :
        LET turn == dispatch[a]
        IN turn.phase \in {"decided", "running"} =>
             \A s \in DOMAIN turn.ask.signals :
                 turn.tier >= turn.ask.signals[s] - (IF turn.ask.downgrade THEN 1 ELSE 0)
=============================================================================

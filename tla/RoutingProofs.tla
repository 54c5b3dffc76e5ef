---------------------------- MODULE RoutingProofs ---------------------------
(***************************************************************************)
(* Theorems about what a run draws on, what the catalogue of models offers *)
(* and what the founder is told; about the pages that follow a stream of   *)
(* events, the requests let through in a window and the summaries of the   *)
(* ledger: for any agents, providers, entries, models, jobs, ticks, keys,  *)
(* buffers, windows and hours.                                             *)
(***************************************************************************)
EXTENDS Routing, Push, ModelCatalog, Realtime, RateLimiter, Rollup, FiniteSetTheorems,
        TLAPS

-----------------------------------------------------------------------------
(* The push of escalations.                                                *)

\* An escalation that two ticks have in hand, or that was shown and not marked, or that
\* is in hand and marked, is one of those excused.
PushInv ==
  /\ PushTypeOK
  /\ \A t \in Ticks : tick[t].step # "posting" => tick[t].fresh = {}
  /\ \A t, u \in Ticks : \A e \in tick[t].fresh : t # u /\ e \in tick[u].fresh => e \in excused
  /\ \A t \in Ticks : \A e \in tick[t].fresh : e \in pushedIds => e \in excused
  /\ \A e \in PushIds : told[e] > 0 => e \in pushedIds \/ e \in excused
  /\ ToldOnce
  /\ PushedWasShown

LEMMA ShownAmong == ASSUME NEW fresh PROVE Shown(fresh) \subseteq fresh
BY DEF Shown

LEMMA PushInitInv == PushInit => PushInv
BY PushAssumption, SMT DEF PushInit, PushInv, PushTypeOK, NoTick, ToldOnce, PushedWasShown

LEMMA PushStep == PushInv /\ [PushNext]_pushVars => PushInv'
<1> SUFFICES ASSUME PushInv, [PushNext]_pushVars PROVE PushInv'
  OBVIOUS
<1> USE PushAssumption
<1>1. ASSUME NEW t \in Ticks, NEW open \in SUBSET PushIds, collectEscalations(t, open)
      PROVE  PushInv'
  <2>1. /\ tick[t].step = "idle"
        /\ tick' = [tick EXCEPT ![t] = [step |-> "collected", open |-> open, fresh |-> {}]]
        /\ UNCHANGED <<pushedIds, told, excused, cutOff>>
    BY <1>1 DEF collectEscalations
  <2>2. /\ tick'[t].fresh = {} /\ tick'[t].step = "collected"
        /\ \A u \in Ticks : u # t => tick'[u] = tick[u]
    BY <2>1 DEF PushInv, PushTypeOK
  <2>3. PushTypeOK'
    BY <2>1 DEF PushInv, PushTypeOK
  <2>4. ToldOnce' /\ PushedWasShown'
    BY <2>1 DEF PushInv, ToldOnce, PushedWasShown
  <2> QED BY <2>1, <2>2, <2>3, <2>4 DEF PushInv
<1>2. ASSUME NEW t \in Ticks, StartPush(t) PROVE PushInv'
  <2> DEFINE fresh == tick[t].open \ pushedIds
  <2>1. /\ tick[t].step = "collected"
        /\ tick' = [tick EXCEPT ![t] = IF fresh = {} THEN NoTick
                                        ELSE [@ EXCEPT !.step = "posting", !.fresh = fresh]]
        /\ excused' = excused \cup (fresh \cap InHand)
        /\ UNCHANGED <<pushedIds, told, cutOff>>
    BY <1>2 DEF StartPush, NotYetPushed
  <2>2. fresh \subseteq PushIds /\ fresh \cap pushedIds = {}
    BY DEF PushInv, PushTypeOK
  <2>3. /\ \A u \in Ticks : u # t => tick'[u] = tick[u]
        /\ tick'[t] = IF fresh = {} THEN NoTick
                      ELSE [tick[t] EXCEPT !.step = "posting", !.fresh = fresh]
    BY <2>1 DEF PushInv, PushTypeOK
  <2>4. tick'[t].fresh = fresh
    BY <2>3 DEF NoTick, PushInv, PushTypeOK
  <2>5. \A u \in Ticks : \A e \in tick[u].fresh : e \in fresh => e \in excused'
    BY <2>1 DEF InHand
  <2>6. PushTypeOK'
    BY <2>1, <2>2 DEF PushInv, PushTypeOK, NoTick
  <2>7. \A u \in Ticks : tick'[u].step # "posting" => tick'[u].fresh = {}
    <3>1. tick[t] \in [step : {"idle", "collected", "posting"},
                       open : SUBSET PushIds, fresh : SUBSET PushIds]
      BY DEF PushInv, PushTypeOK
    <3>2. fresh # {} => tick'[t].step = "posting"
      BY <2>3, <3>1
    <3>3. \A u \in Ticks : u # t /\ tick'[u].step # "posting" => tick'[u].fresh = {}
      BY <2>3 DEF PushInv
    <3> QED BY <2>4, <3>2, <3>3
  <2> HIDE DEF fresh
  <2>8. \A u, v \in Ticks : \A e \in tick'[u].fresh :
          u # v /\ e \in tick'[v].fresh => e \in excused'
    BY <2>1, <2>3, <2>4, <2>5 DEF PushInv
  <2>9. \A u \in Ticks : \A e \in tick'[u].fresh : e \in pushedIds' => e \in excused'
    BY <2>1, <2>2, <2>3, <2>4 DEF PushInv
  <2>10. (ToldOnce /\ PushedWasShown)'
         /\ \A e \in PushIds : told'[e] > 0 => e \in pushedIds' \/ e \in excused'
    BY <2>1 DEF PushInv, ToldOnce, PushedWasShown
  <2> QED BY <2>6, <2>7, <2>8, <2>9, <2>10 DEF PushInv
\* What is shown is in hand: unless excused it was never shown before.
<1>3. ASSUME NEW t \in Ticks, Posted(t) PROVE PushInv'
  <2> DEFINE fresh == tick[t].fresh
  <2>1. fresh \subseteq PushIds /\ Shown(fresh) \subseteq fresh
    BY ShownAmong DEF PushInv, PushTypeOK
  <2>2. /\ told' = [e \in PushIds |-> IF e \in Shown(fresh) THEN told[e] + 1 ELSE told[e]]
        /\ \A e \in Shown(fresh) : told[e] < MaxTold
        /\ pushedIds' = pushedIds \cup fresh
        /\ cutOff' = cutOff \cup (fresh \ Shown(fresh))
        /\ tick' = [tick EXCEPT ![t] = NoTick] /\ excused' = excused
    BY <1>3 DEF Posted, ShowTo
  <2> HIDE DEF fresh
  <2>3. PushTypeOK'
    BY <2>1, <2>2 DEF PushInv, PushTypeOK, NoTick
  <2>4. /\ tick'[t].fresh = {} /\ tick'[t].step = "idle"
        /\ \A u \in Ticks : u # t => tick'[u] = tick[u]
    BY <2>2 DEF PushInv, PushTypeOK, NoTick
  <2>5. \A u \in Ticks : \A e \in tick'[u].fresh : e \in pushedIds' => e \in excused'
    BY <2>2, <2>4 DEF PushInv, fresh
  <2>6. \A e \in fresh : told[e] > 0 => e \in excused
    BY <2>1 DEF PushInv, fresh
  <2>7. ToldOnce'
    <3> SUFFICES ASSUME NEW e \in PushIds, told'[e] > 1 PROVE e \in excused'
      BY DEF ToldOnce
    <3>1. CASE e \in Shown(fresh)
      <4>1. told[e] \in Nat /\ told[e] + 1 > 1
        BY <2>2, <3>1 DEF PushInv, PushTypeOK
      <4> QED BY <2>1, <2>2, <2>6, <3>1, <4>1
    <3>2. CASE e \notin Shown(fresh)
      BY <2>2, <3>2 DEF PushInv, ToldOnce
    <3> QED BY <3>1, <3>2
  <2>8. PushedWasShown'
    <3> SUFFICES ASSUME NEW e \in pushedIds' PROVE told'[e] > 0 \/ e \in cutOff'
      BY DEF PushedWasShown
    <3>1. e \in PushIds /\ told[e] \in Nat
      BY <2>1, <2>2 DEF PushInv, PushTypeOK
    <3>2. CASE e \in Shown(fresh)
      BY <2>2, <3>1, <3>2
    <3>3. CASE e \notin Shown(fresh)
      BY <2>2, <3>1, <3>3 DEF PushInv, PushedWasShown
    <3> QED BY <3>2, <3>3
  <2>9. \A e \in PushIds : told'[e] > 0 => e \in pushedIds' \/ e \in excused'
    BY <2>1, <2>2 DEF PushInv
  <2> QED BY <2>2, <2>3, <2>4, <2>5, <2>7, <2>8, <2>9 DEF PushInv
<1>4. ASSUME NEW t \in Ticks, PostFails(t) PROVE PushInv'
  BY <1>4, SMT DEF PostFails, PushInv, PushTypeOK, NoTick, ToldOnce, PushedWasShown
<1>5. ASSUME NEW t \in Ticks, AnswerTooLate(t) PROVE PushInv'
  <2> DEFINE fresh == tick[t].fresh
  <2>1. fresh \subseteq PushIds /\ Shown(fresh) \subseteq fresh
    BY ShownAmong DEF PushInv, PushTypeOK
  <2>2. /\ told' = [e \in PushIds |-> IF e \in Shown(fresh) THEN told[e] + 1 ELSE told[e]]
        /\ \A e \in Shown(fresh) : told[e] < MaxTold
        /\ excused' = excused \cup fresh
        /\ tick' = [tick EXCEPT ![t] = NoTick]
        /\ UNCHANGED <<pushedIds, cutOff>>
    BY <1>5 DEF AnswerTooLate, ShowTo
  <2> HIDE DEF fresh
  <2>3. PushTypeOK'
    BY <2>1, <2>2 DEF PushInv, PushTypeOK, NoTick
  <2>4. /\ tick'[t].fresh = {} /\ tick'[t].step = "idle"
        /\ \A u \in Ticks : u # t => tick'[u] = tick[u]
    BY <2>2 DEF PushInv, PushTypeOK, NoTick
  <2>5. \A e \in PushIds : told[e] \in Nat
    BY DEF PushInv, PushTypeOK
  <2>6. ToldOnce' /\ PushedWasShown'
        /\ \A e \in PushIds : told'[e] > 0 => e \in pushedIds' \/ e \in excused'
    BY <2>1, <2>2, <2>5 DEF PushInv, PushTypeOK, ToldOnce, PushedWasShown
  <2> QED BY <2>2, <2>3, <2>4, <2>6 DEF PushInv
<1>6. CASE DaemonRestarts
  BY <1>6, SMT DEF DaemonRestarts, PushInv, PushTypeOK, NoTick, ToldOnce, PushedWasShown
<1>7. CASE UNCHANGED pushVars
  BY <1>7 DEF pushVars, PushInv, PushTypeOK, ToldOnce, PushedWasShown
<1> QED BY <1>1, <1>2, <1>3, <1>4, <1>5, <1>6, <1>7 DEF PushNext

\* In one session the founder is shown an escalation twice only where two ticks had it in
\* hand at once or an answer was lost, and what is marked was shown or came after the
\* tenth (escalation-push.mjs:132-161).
THEOREM FounderToldOnce == PushSpec => [](ToldOnce /\ PushedWasShown)
<1>1. PushInv => ToldOnce /\ PushedWasShown
  BY DEF PushInv
<1> QED BY <1>1, PushInitInv, PushStep, PTL DEF PushSpec

-----------------------------------------------------------------------------
(* Whose account a run draws on.                                           *)

\* A turn that was decided for Anthropic was asked to be, or falls back by the policy's
\* leave; any other is for the provider it asked for.
WellDecided(turn) ==
  /\ turn.provider = Native => providerName(turn.ask) = Native \/ turn.ask.fallback
  /\ turn.provider # Native => turn.provider = providerName(turn.ask)

Turns == [phase : {"idle", "decided", "denied", "thrown", "running", "failed"}, ask : Asks,
          provider : ThirdParties \cup {Native, NoProvider}, harness : Harnesses \cup {"default"},
          tier : Int, found : Found, pays : ThirdParties \cup {Native, NoProvider, "antigravity"}]

\* Between the plan and the launch a turn keeps the provider it was decided for, and to
\* its end the tier.
RoutingInv ==
  /\ registry \in [Files -> [ThirdParties -> Found]]
  /\ dispatch \in [RoutedAgents -> Turns]
  /\ \A a \in RoutedAgents : dispatch[a].phase = "decided" => WellDecided(dispatch[a])
  /\ \A a \in RoutedAgents : dispatch[a].phase \in {"decided", "running"} =>
                               dispatch[a].tier = effectiveTier(dispatch[a].ask)
  /\ NoSurpriseSpend

LEMMA MaxOfThree ==
  ASSUME NEW i \in Int, NEW j \in Int, NEW k \in Int
  PROVE  /\ Max({i, j, k}) \in Int
         /\ Max({i, j, k}) >= i /\ Max({i, j, k}) >= j /\ Max({i, j, k}) >= k
<1> DEFINE S == {i, j, k}
<1>1. \E x \in S : \A y \in S : x >= y
  OBVIOUS
<1>2. Max(S) \in S /\ \A y \in S : Max(S) >= y
  BY <1>1 DEF Max
<1> QED BY <1>2

LEMMA NoAskTyped == NoAsk \in Asks
BY RoutingAssumption DEF NoAsk, Asks, Entries

LEMMA NoTurnTyped == NoTurn \in Turns
BY NoAskTyped DEF NoTurn, Turns, Found

\* No signal is more than the tier, less the one that a warning budget takes.
LEMMA TierCoversSignals ==
  ASSUME NEW ask \in Asks
  PROVE  /\ effectiveTier(ask) \in Int
         /\ \A s \in DOMAIN ask.signals :
              effectiveTier(ask) >= ask.signals[s] - (IF ask.downgrade THEN 1 ELSE 0)
<1> DEFINE g == ask.signals
           top == complexityTier(g)
<1>1. /\ g \in [explicit : 0..TopTier, inferred : 0..TopTier, numeric : 1..TopTier]
      /\ ask.downgrade \in BOOLEAN
  BY RoutingAssumption DEF Asks
<1>2. g.explicit \in Int /\ g.inferred \in Int /\ g.numeric \in Int
  BY <1>1, RoutingAssumption
<1>3. top \in Int /\ top >= g.explicit /\ top >= g.inferred /\ top >= g.numeric
  BY <1>2, MaxOfThree DEF complexityTier
<1>4. \A s \in DOMAIN g : g[s] \in Int /\ top >= g[s]
  BY <1>1, <1>2, <1>3
<1> HIDE DEF g, top
<1>5. CASE ask.downgrade
  <2> DEFINE below == top - 1
  <2>1. below \in Int /\ 1 \in Int /\ below = top - 1
    BY <1>3
  <2> HIDE DEF below
  <2>2. Max({1, below, below}) \in Int /\ Max({1, below, below}) >= below
    BY <2>1, MaxOfThree
  <2>3. effectiveTier(ask) = Max({1, below, below})
    <3>1. {1, below} = {1, below, below}
      OBVIOUS
    <3>2. effectiveTier(ask) = Max({1, below})
      BY <1>5 DEF effectiveTier, top, g, below
    <3> QED BY <3>1, <3>2
  <2>4. \A s \in DOMAIN g : effectiveTier(ask) >= g[s] - 1
    BY <1>3, <1>4, <2>1, <2>2, <2>3
  <2> QED BY <1>5, <2>2, <2>3, <2>4 DEF g
<1>6. CASE ~ask.downgrade
  <2>1. effectiveTier(ask) = top
    BY <1>6 DEF effectiveTier, top, g
  <2>2. \A s \in DOMAIN g : effectiveTier(ask) >= g[s] - 0
    BY <1>3, <1>4, <2>1
  <2> QED BY <1>3, <1>6, <2>1, <2>2 DEF g
<1> QED BY <1>5, <1>6

LEMMA DecideFacts ==
  ASSUME NEW ask \in Asks
  PROVE  /\ decide(ask) \in Turns
         /\ decide(ask).phase \in {"decided", "denied"}
         /\ decide(ask).phase = "decided" => WellDecided(decide(ask))
         /\ decide(ask).ask = ask /\ decide(ask).tier = effectiveTier(ask)
<1>1. effectiveTier(ask) \in Int
  BY TierCoversSignals
<1>2. /\ providerName(ask) \in ThirdParties \cup {Native}
      /\ harnessOf(ask) \in Harnesses
  <2>1. ask.entry \in Entries
    BY DEF Asks
  <2>2. /\ ask.entry.provider \in ThirdParties \cup {Native, NoProvider}
        /\ ask.entry.harness \in EntryHarnesses \cup {"default"}
    BY <2>1 DEF Entries
  <2>3. providerName(ask) \in ThirdParties \cup {Native}
    BY <2>2 DEF providerName
  <2>4. harnessOf(ask) \in Harnesses
    BY <2>2, RoutingAssumption DEF harnessOf, defaultHarnessForProvider, Harnesses
  <2> QED BY <2>3, <2>4
<1> DEFINE turn == [NoTurn EXCEPT !.ask = ask, !.tier = effectiveTier(ask)]
           kept == [turn EXCEPT !.phase = "decided", !.provider = providerName(ask), !.harness = harnessOf(ask)]
           fell == [turn EXCEPT !.phase = "decided", !.provider = Native, !.harness = "claude-code"]
           none == [turn EXCEPT !.phase = "denied"]
<1>3. turn \in Turns /\ turn.ask = ask /\ turn.tier = effectiveTier(ask)
  BY <1>1, NoTurnTyped DEF Turns
<1> HIDE DEF turn
<1>4. /\ kept \in Turns /\ kept.ask = ask /\ kept.tier = effectiveTier(ask)
      /\ kept.phase = "decided" /\ kept.provider = providerName(ask)
  BY <1>2, <1>3 DEF Turns
<1>5. /\ fell \in Turns /\ fell.ask = ask /\ fell.tier = effectiveTier(ask)
      /\ fell.phase = "decided" /\ fell.provider = Native
  BY <1>3 DEF Turns, Harnesses
<1>6. /\ none \in Turns /\ none.ask = ask /\ none.tier = effectiveTier(ask)
      /\ none.phase = "denied"
  BY <1>3 DEF Turns
<1>7. decide(ask) = IF providerKeyPresent(providerName(ask)) THEN kept
                    ELSE IF ask.fallback THEN fell ELSE none
  BY DEF decide, turn
<1> HIDE DEF kept, fell, none
<1>8. WellDecided(kept)
  BY <1>4 DEF WellDecided
<1>9. ask.fallback => WellDecided(fell)
  BY <1>5 DEF WellDecided
<1> QED BY <1>4, <1>5, <1>6, <1>7, <1>8, <1>9

\* The second look may find a provider gone; then its turn counts as Anthropic's.
LEMMA LaunchFacts ==
  ASSUME NEW turn \in Turns, WellDecided(turn), buildSpawnPlan(turn),
         registry \in [Files -> [ThirdParties -> Found]]
  PROVE  /\ LookedUp(turn) \in Found
         /\ Pays(turn) \in ThirdParties \cup {Native, NoProvider, "antigravity"}
         /\ Pays(turn) = Native =>
              \/ providerName(turn.ask) = Native
              \/ turn.ask.fallback
              \/ LookedUp(turn) = "absent" /\ turn.harness = "claude-code"
<1>1. turn.ask \in Asks /\ turn.ask.entry \in Entries
  BY DEF Turns, Asks
<1>2. turn.ask.entry.provider \in ThirdParties \cup {Native, NoProvider}
  BY <1>1 DEF Entries
<1>3. providerName(turn.ask) \in ThirdParties \cup {Native}
  BY <1>2 DEF providerName
<1>4. turn.provider \in ThirdParties \cup {Native}
  BY <1>3 DEF WellDecided
<1>5. LookedUp(turn) \in Found
  BY <1>4 DEF LookedUp, Found, Files
<1>6. resolvedProvider(turn) \in ThirdParties \cup {Native}
  BY <1>4 DEF resolvedProvider
<1>7. Pays(turn) \in ThirdParties \cup {Native, NoProvider, "antigravity"}
  BY <1>6 DEF Pays
<1>8. ASSUME Pays(turn) = Native
      PROVE  \/ providerName(turn.ask) = Native
             \/ turn.ask.fallback
             \/ LookedUp(turn) = "absent" /\ turn.harness = "claude-code"
  <2>1. CASE turn.provider = Native
    BY <2>1 DEF WellDecided
  <2>2. CASE turn.provider # Native
    <3>1. LookedUp(turn) = "keyed" => resolvedProvider(turn) # Native
      BY <2>2 DEF resolvedProvider
    <3>2. turn.harness = "claude-code" /\ LookedUp(turn) # "keyed"
      <4>1. turn.harness = "antigravity" => Pays(turn) = "antigravity"
        BY DEF Pays
      <4>2. turn.harness # "antigravity" /\ LookedUp(turn) = "keyed"
              => Pays(turn) = resolvedProvider(turn)
        BY DEF Pays
      <4>3. turn.harness \notin {"antigravity", "claude-code"} /\ LookedUp(turn) # "keyed"
              => Pays(turn) = NoProvider
        BY DEF Pays
      <4> QED BY <1>8, <3>1, <4>1, <4>2, <4>3 DEF Native, NoProvider
    <3>3. resolvedProvider(turn) = Native
      BY <3>2 DEF buildSpawnPlan
    <3>4. LookedUp(turn) = "absent"
      BY <2>2, <3>3 DEF resolvedProvider
    <3> QED BY <3>2, <3>4
  <2> QED BY <2>1, <2>2
<1> QED BY <1>5, <1>7, <1>8

LEMMA RoutingInitInv == RoutingInit => RoutingInv
<1> SUFFICES ASSUME RoutingInit PROVE RoutingInv
  OBVIOUS
<1>1. NoTurn.phase = "idle"
  BY DEF NoTurn
<1>2. \A a \in RoutedAgents : dispatch[a].phase = "idle"
  BY <1>1 DEF RoutingInit
<1> QED BY <1>2, NoTurnTyped DEF RoutingInit, RoutingInv, NoSurpriseSpend

\* All agents' turns are decided anew together, or thrown together.
LEMMA PlanRunInv == ASSUME RoutingInv, planRun PROVE RoutingInv'
<1>1. PICK asked \in [RoutedAgents -> Asks] :
         dispatch' = IF \E a \in RoutedAgents : Throws(asked[a])
                     THEN [a \in RoutedAgents |-> [NoTurn EXCEPT !.phase = "thrown"]]
                     ELSE [a \in RoutedAgents |-> decide(asked[a])]
  BY DEF planRun
<1>2. registry' = registry
  BY DEF planRun
<1>3. /\ [NoTurn EXCEPT !.phase = "thrown"] \in Turns
      /\ [NoTurn EXCEPT !.phase = "thrown"].phase = "thrown"
  BY NoTurnTyped DEF Turns
<1>4. CASE \E a \in RoutedAgents : Throws(asked[a])
  <2>1. dispatch' = [a \in RoutedAgents |-> [NoTurn EXCEPT !.phase = "thrown"]]
    BY <1>1, <1>4
  <2>2. dispatch' \in [RoutedAgents -> Turns] /\ \A a \in RoutedAgents : dispatch'[a].phase = "thrown"
    BY <1>3, <2>1
  <2> QED BY <1>2, <2>2 DEF RoutingInv, NoSurpriseSpend
<1>5. CASE ~\E a \in RoutedAgents : Throws(asked[a])
  <2>1. dispatch' = [a \in RoutedAgents |-> decide(asked[a])]
    BY <1>1, <1>5
  <2>2. \A a \in RoutedAgents :
          /\ dispatch'[a] \in Turns
          /\ dispatch'[a].phase \in {"decided", "denied"}
          /\ dispatch'[a].phase = "decided" => WellDecided(dispatch'[a])
          /\ dispatch'[a].tier = effectiveTier(dispatch'[a].ask)
    <3> SUFFICES ASSUME NEW a \in RoutedAgents
                 PROVE  /\ dispatch'[a] \in Turns
                        /\ dispatch'[a].phase \in {"decided", "denied"}
                        /\ dispatch'[a].phase = "decided" => WellDecided(dispatch'[a])
                        /\ dispatch'[a].tier = effectiveTier(dispatch'[a].ask)
      OBVIOUS
    <3>1. PICK ask \in Asks : asked[a] = ask
      OBVIOUS
    <3>2. dispatch'[a] = decide(ask)
      BY <2>1, <3>1
    <3> QED BY <3>2, DecideFacts
  <2>3. dispatch' \in [RoutedAgents -> Turns]
    BY <2>1, <2>2
  <2> QED BY <1>2, <2>2, <2>3 DEF RoutingInv, NoSurpriseSpend, WellDecided, effectiveTier, complexityTier
<1> QED BY <1>4, <1>5

LEMMA LaunchInv == ASSUME RoutingInv, NEW a \in RoutedAgents, launch(a) PROVE RoutingInv'
<1> DEFINE turn == dispatch[a]
           run  == [turn EXCEPT !.phase = "running", !.found = LookedUp(turn), !.pays = Pays(turn)]
           stop == [turn EXCEPT !.phase = "failed"]
<1>1. /\ turn.phase = "decided" /\ registry' = registry
      /\ dispatch' = [dispatch EXCEPT ![a] = IF buildSpawnPlan(turn) THEN run ELSE stop]
  BY DEF launch
<1>2. turn \in Turns /\ WellDecided(turn) /\ turn.tier = effectiveTier(turn.ask)
  BY <1>1 DEF RoutingInv
<1> HIDE DEF turn
<1>3. stop \in Turns /\ stop.phase = "failed"
  BY <1>2 DEF Turns
<1>4. ASSUME buildSpawnPlan(turn)
      PROVE  /\ run \in Turns /\ run.phase = "running" /\ run.tier = effectiveTier(run.ask)
             /\ run.pays = Native =>
                  \/ providerName(run.ask) = Native
                  \/ run.ask.fallback
                  \/ run.found = "absent" /\ run.harness = "claude-code"
  <2>1. /\ LookedUp(turn) \in Found
        /\ Pays(turn) \in ThirdParties \cup {Native, NoProvider, "antigravity"}
        /\ Pays(turn) = Native =>
             \/ providerName(turn.ask) = Native
             \/ turn.ask.fallback
             \/ LookedUp(turn) = "absent" /\ turn.harness = "claude-code"
    BY <1>2, <1>4, LaunchFacts DEF RoutingInv
  <2>2. /\ run \in Turns /\ run.phase = "running" /\ run.found = LookedUp(turn) /\ run.pays = Pays(turn)
        /\ run.ask = turn.ask /\ run.tier = turn.tier /\ run.harness = turn.harness
    BY <1>2, <2>1 DEF Turns
  <2> HIDE DEF run
  <2> QED BY <1>2, <2>1, <2>2
<1> HIDE DEF run, stop
<1>5. \A b \in RoutedAgents : b # a => dispatch'[b] = dispatch[b]
  BY <1>1 DEF RoutingInv
<1>6. dispatch'[a] = IF buildSpawnPlan(turn) THEN run ELSE stop
  BY <1>1 DEF RoutingInv
<1>7. dispatch' \in [RoutedAgents -> Turns]
  BY <1>1, <1>3, <1>4 DEF RoutingInv
<1>8. \A b \in RoutedAgents : dispatch'[b].phase = "decided" => WellDecided(dispatch[b]) /\ b # a
  BY <1>3, <1>4, <1>5, <1>6 DEF RoutingInv
<1>9. \A b \in RoutedAgents : dispatch'[b].phase \in {"decided", "running"} =>
                               dispatch'[b].tier = effectiveTier(dispatch'[b].ask)
  BY <1>3, <1>4, <1>5, <1>6 DEF RoutingInv
<1>10. NoSurpriseSpend'
  BY <1>3, <1>4, <1>5, <1>6 DEF RoutingInv, NoSurpriseSpend
<1>11. \A b \in RoutedAgents : dispatch'[b].phase = "decided" => WellDecided(dispatch'[b])
  BY <1>5, <1>8
<1> QED BY <1>1, <1>7, <1>9, <1>10, <1>11 DEF RoutingInv, WellDecided, effectiveTier, complexityTier

LEMMA RoutingStep == RoutingInv /\ [RoutingNext]_routingVars => RoutingInv'
<1> SUFFICES ASSUME RoutingInv, [RoutingNext]_routingVars PROVE RoutingInv'
  OBVIOUS
<1>1. CASE planRun
  BY <1>1, PlanRunInv
<1>2. ASSUME NEW a \in RoutedAgents, launch(a) PROVE RoutingInv'
  BY <1>2, LaunchInv
<1>3. ASSUME NEW a \in RoutedAgents, RunOver(a) PROVE RoutingInv'
  <2>1. NoTurn.phase = "idle"
    BY DEF NoTurn
  <2>2. /\ dispatch' = [dispatch EXCEPT ![a] = NoTurn] /\ registry' = registry
    BY <1>3 DEF RunOver
  <2>3. /\ dispatch'[a].phase = "idle" /\ dispatch' \in [RoutedAgents -> Turns]
        /\ \A b \in RoutedAgents : b # a => dispatch'[b] = dispatch[b]
    BY <2>1, <2>2, NoTurnTyped DEF RoutingInv
  <2>4. \A b \in RoutedAgents : dispatch'[b].phase = "decided" => WellDecided(dispatch'[b])
    BY <2>3 DEF RoutingInv
  <2>5. \A b \in RoutedAgents : dispatch'[b].phase \in {"decided", "running"} =>
                                 dispatch'[b].tier = effectiveTier(dispatch'[b].ask)
    BY <2>3 DEF RoutingInv
  <2>6. NoSurpriseSpend'
    BY <2>3 DEF RoutingInv, NoSurpriseSpend
  <2> QED BY <2>2, <2>3, <2>4, <2>5, <2>6
          DEF RoutingInv, WellDecided, effectiveTier, complexityTier
<1>4. ASSUME NEW p \in ThirdParties, NEW files \in {Files, {"beside"}, {"repository"}},
             NEW found \in Found, EditProviders(p, files, found)
      PROVE  RoutingInv'
  <2>1. registry' \in [Files -> [ThirdParties -> Found]] /\ dispatch' = dispatch
    BY <1>4 DEF EditProviders, RoutingInv
  <2> QED BY <2>1 DEF RoutingInv, NoSurpriseSpend, WellDecided, effectiveTier, complexityTier
<1>5. CASE UNCHANGED routingVars
  BY <1>5 DEF routingVars, RoutingInv, NoSurpriseSpend, WellDecided, effectiveTier, complexityTier
<1> QED BY <1>1, <1>2, <1>3, <1>4, <1>5 DEF RoutingNext

\* Whatever changes between plan and launch, a run draws on Anthropic only where its entry
\* names Anthropic, the policy opted in, or the provider was not there when it was
\* launched (router.mjs:136-141, launcher.mjs:265).
THEOREM RunsDrawOnWhatWasAsked == RoutingSpec => []NoSurpriseSpend
<1>1. RoutingInv => NoSurpriseSpend
  BY DEF RoutingInv
<1> QED BY <1>1, RoutingInitInv, RoutingStep, PTL DEF RoutingSpec

\* No signal of a task is overruled by a lower one, but for the one tier that a warning
\* budget takes (model-router.mjs:262-266, 325-331).
THEOREM SignalsAreServed == RoutingSpec => []NeverUnderServed
<1>1. RoutingInv => NeverUnderServed
  <2> SUFFICES ASSUME RoutingInv, NEW a \in RoutedAgents,
                      dispatch[a].phase \in {"decided", "running"}
               PROVE  \A s \in DOMAIN dispatch[a].ask.signals :
                        dispatch[a].tier >= dispatch[a].ask.signals[s]
                                            - (IF dispatch[a].ask.downgrade THEN 1 ELSE 0)
    BY DEF NeverUnderServed
  <2>1. dispatch[a].ask \in Asks /\ dispatch[a].tier = effectiveTier(dispatch[a].ask)
    BY DEF RoutingInv, Turns
  <2> QED BY <2>1, TierCoversSignals
<1> QED BY <1>1, RoutingInitInv, RoutingStep, PTL DEF RoutingSpec
-----------------------------------------------------------------------------
(* The catalogue of models.                                                *)

Places == {"idle", "asking", "writing", "quick", "medium", "pricing", "over"}

ModelsInv ==
  /\ model \in [Listings -> [status : {"absent", "offered", "deprecated"},
                             tier : ModelTiers \cup {"none"}]]
  /\ job \in [Jobs -> [at : Places, pending : SUBSET Sources, provider : Sources \cup {"none"},
                       left : SUBSET Listings, seen : SUBSET Listings]]
  /\ lastAnswer \in [Listings -> {"none", "seen", "missed"}]
  /\ missedSince \in [Jobs -> SUBSET Listings]
  /\ chosen \in [Listings -> ModelTiers \cup {"none"}]
  /\ jobDeaths \in Nat

\* What a discovery has still to write, and has written, fits the answer the history
\* holds, unless another writes the same rows.
WritersInv ==
  \A j \in Jobs : job[j].at = "writing" =>
    /\ job[j].seen \subseteq RowsOf(job[j].provider) /\ job[j].left \subseteq job[j].seen
    /\ \A i \in Jobs : i # j /\ job[i].at = "writing" /\ job[i].provider = job[j].provider
          => RowsOf(job[j].provider) \subseteq disputed
    /\ \A m \in RowsOf(job[j].provider) \ disputed :
          /\ lastAnswer[m] = "seen" <=> m \in job[j].seen
          /\ m \in job[j].seen \ job[j].left => model[m].status = "offered"

\* What a refresh has listed is on offer, or has gone since.
RefreshInv ==
  \A j \in Jobs : job[j].at = "pricing" =>
    \A m \in job[j].left : model[m].status = "offered" \/ m \in missedSince[j]

\* A model without a tier has a discovery at work that will give it one.
TiersInv ==
  \/ jobDeaths > 0
  \/ Untiered \subseteq revived
  \/ \E j \in Jobs : job[j].at \in {"asking", "writing", "quick", "medium"}

CatalogInv ==
  /\ ModelsInv /\ WritersInv /\ RefreshInv /\ TiersInv
  /\ CatalogFollowsAnswers /\ FounderTierKept

LEMMA RowsOfListed == ASSUME NEW p, NEW m \in RowsOf(p) PROVE m \in Listings /\ m[1] = p
BY DEF RowsOf

LEMMA CatalogInitInv == CatalogInit => CatalogInv
<1> SUFFICES ASSUME CatalogInit PROVE CatalogInv
  OBVIOUS
<1>1. PICK known \in {{}, Listings} :
        /\ model = [m \in Listings |-> IF m \in known THEN Earlier(m) ELSE NoModel]
        /\ lastAnswer = [m \in Listings |-> IF m \in known THEN "seen" ELSE "none"]
  BY DEF CatalogInit
<1>2. \A m \in Listings : /\ Earlier(m) \in [status : {"offered"}, tier : ModelTiers]
                          /\ Earlier(m).status = "offered" /\ Earlier(m).tier # "none"
  BY DEF Earlier, ModelTiers
<1>3. NoModel \in [status : {"absent"}, tier : {"none"}]
  BY DEF NoModel
<1>4. ModelsInv
  <2>1. model \in [Listings -> [status : {"absent", "offered", "deprecated"},
                                tier : ModelTiers \cup {"none"}]]
    BY <1>1, <1>2, <1>3
  <2>2. job \in [Jobs -> [at : Places, pending : SUBSET Sources, provider : Sources \cup {"none"},
                          left : SUBSET Listings, seen : SUBSET Listings]]
    BY DEF CatalogInit, NoJob, Places
  <2> QED BY <1>1, <2>1, <2>2 DEF CatalogInit, ModelsInv
<1>5. \A m \in Listings : /\ model[m].status = "offered" <=> lastAnswer[m] = "seen"
                          /\ model[m].status = "offered" => model[m].tier # "none"
  BY <1>1, <1>2, <1>3 DEF NoModel
<1>6. \A j \in Jobs : job[j].at = "idle"
  BY DEF CatalogInit, NoJob
<1>7. WritersInv /\ RefreshInv
  BY <1>6 DEF WritersInv, RefreshInv
<1>8. TiersInv /\ CatalogFollowsAnswers
  BY <1>5 DEF TiersInv, CatalogFollowsAnswers, Untiered, Offered
<1>9. FounderTierKept
  BY DEF FounderTierKept, CatalogInit
<1> QED BY <1>4, <1>7, <1>8, <1>9 DEF CatalogInv

\* A step that moves no model, no answer and no history: it says only what it does to the job.
LEMMA JobOnly ==
  ASSUME CatalogInv, NEW j \in Jobs,
         UNCHANGED <<model, jobDeaths, lastAnswer, disputed, missedSince, revived, chosen>>,
         NEW k, job' = [job EXCEPT ![j] = k],
         k \in [at : Places, pending : SUBSET Sources, provider : Sources \cup {"none"},
                left : SUBSET Listings, seen : SUBSET Listings],
         k.at # "writing", job[j].at # "writing",
         k.at = "pricing" => \A m \in k.left : model[m].status = "offered" \/ m \in missedSince[j],
         job[j].at \in {"idle", "pricing"} \/ k.at = job[j].at
  PROVE  CatalogInv'
<1>1. /\ job'[j] = k /\ \A i \in Jobs : i # j => job'[i] = job[i]
      /\ \A i \in Jobs : job'[i].at = "writing" => i # j
  BY DEF CatalogInv, ModelsInv
<1>2. ModelsInv'
  BY DEF CatalogInv, ModelsInv
<1>3. WritersInv'
  BY <1>1 DEF CatalogInv, WritersInv, RowsOf
<1>4. RefreshInv'
  BY <1>1 DEF CatalogInv, RefreshInv
<1>5. TiersInv'
  BY <1>1 DEF CatalogInv, TiersInv, Untiered, Offered
<1>6. CatalogFollowsAnswers'
  BY <1>1 DEF CatalogInv, CatalogFollowsAnswers, InPeace, Writing, Offered
<1>7. FounderTierKept'
  BY DEF CatalogInv, FounderTierKept
<1> QED BY <1>2, <1>3, <1>4, <1>5, <1>6, <1>7 DEF CatalogInv
LEMMA AnswersInv ==
  ASSUME CatalogInv, NEW j \in Jobs, NEW p \in Sources, NEW answer \in SUBSET RowsOf(p),
         Answers(j, p, answer)
  PROVE  CatalogInv'
<1> DEFINE k == [at |-> "writing", pending |-> job[j].pending \ {p}, provider |-> p,
                 left |-> answer, seen |-> answer]
<1>1. /\ job' = [job EXCEPT ![j] = k]
      /\ lastAnswer' = [m \in Listings |-> IF m[1] # p THEN lastAnswer[m]
                                           ELSE IF m \in answer THEN "seen" ELSE "missed"]
      /\ disputed' = IF WritesElsewhere(j, p) THEN disputed \cup RowsOf(p) ELSE disputed \ RowsOf(p)
      /\ revived' = revived \ RowsOf(p)
      /\ UNCHANGED <<model, tierSets, jobDeaths, missedSince, chosen>>
      /\ job[j].at = "asking"
  BY DEF Answers
<1>2. /\ k \in [at : Places, pending : SUBSET Sources, provider : Sources \cup {"none"},
                left : SUBSET Listings, seen : SUBSET Listings]
      /\ k.at = "writing" /\ k.provider = p /\ k.left = answer /\ k.seen = answer
  BY DEF CatalogInv, ModelsInv, RowsOf, Places
<1> HIDE DEF k
<1>3. job'[j] = k /\ \A i \in Jobs : i # j => job'[i] = job[i]
  BY <1>1 DEF CatalogInv, ModelsInv
<1>4. ModelsInv'
  BY <1>1, <1>2 DEF CatalogInv, ModelsInv
<1>5. WritersInv'
  <2> SUFFICES ASSUME NEW i \in Jobs, job'[i].at = "writing"
               PROVE  /\ job'[i].seen \subseteq RowsOf(job'[i].provider) /\ job'[i].left \subseteq job'[i].seen
                      /\ \A h \in Jobs : h # i /\ job'[h].at = "writing"
                                              /\ job'[h].provider = job'[i].provider
                            => RowsOf(job'[i].provider) \subseteq disputed'
                      /\ \A m \in RowsOf(job'[i].provider) \ disputed' :
                            /\ lastAnswer'[m] = "seen" <=> m \in job'[i].seen
                            /\ m \in job'[i].seen \ job'[i].left => model'[m].status = "offered"
    BY DEF WritersInv, RowsOf
  <2>1. CASE i = j
    <3>1. \A h \in Jobs : h # j /\ job'[h].at = "writing" /\ job'[h].provider = p
             => RowsOf(p) \subseteq disputed'
      BY <1>1, <1>3 DEF WritesElsewhere
    <3>2. \A m \in RowsOf(p) : lastAnswer'[m] = "seen" <=> m \in answer
      BY <1>1, RowsOfListed
    <3> QED BY <1>2, <1>3, <2>1, <3>1, <3>2
  <2>2. CASE i # j
    <3>1. job'[i] = job[i] /\ job[i].at = "writing"
      BY <1>3, <2>2
    <3>2. CASE job[i].provider = p
      <4>1. RowsOf(p) \subseteq disputed'
        BY <1>1, <2>2, <3>1, <3>2 DEF WritesElsewhere
      <4> QED BY <3>1, <3>2, <4>1 DEF CatalogInv, WritersInv
    <3>3. CASE job[i].provider # p
      <4>1. \A m \in RowsOf(job[i].provider) :
               /\ lastAnswer'[m] = lastAnswer[m]
               /\ m \in disputed' <=> m \in disputed
        BY <1>1, <3>3 DEF RowsOf
      <4>2. \A h \in Jobs : job'[h].at = "writing" /\ job'[h].provider = job[i].provider => h # j
        BY <1>2, <1>3, <3>3
      <4>3. /\ job[i].seen \subseteq RowsOf(job[i].provider) /\ job[i].left \subseteq job[i].seen
            /\ \A m \in RowsOf(job[i].provider) \ disputed :
                  /\ lastAnswer[m] = "seen" <=> m \in job[i].seen
                  /\ m \in job[i].seen \ job[i].left => model[m].status = "offered"
        BY <3>1 DEF CatalogInv, WritersInv
      <4>4. \A h \in Jobs : h # i /\ job'[h].at = "writing" /\ job'[h].provider = job[i].provider
               => RowsOf(job[i].provider) \subseteq disputed
        BY <1>3, <3>1, <4>2 DEF CatalogInv, WritersInv
      <4>5. \A m \in RowsOf(job[i].provider) \ disputed' :
               /\ lastAnswer'[m] = "seen" <=> m \in job[i].seen
               /\ m \in job[i].seen \ job[i].left => model'[m].status = "offered"
        BY <1>1, <4>1, <4>3
      <4> QED BY <3>1, <4>1, <4>3, <4>4, <4>5
    <3> QED BY <3>2, <3>3
  <2> QED BY <2>1, <2>2
<1>6. RefreshInv'
  BY <1>1, <1>2, <1>3 DEF CatalogInv, RefreshInv
<1>7. TiersInv'
  BY <1>2, <1>3 DEF TiersInv
<1>8. CatalogFollowsAnswers'
  <2> SUFFICES ASSUME NEW m \in Listings, InPeace(m)'
               PROVE  model'[m].status = "offered" <=> lastAnswer'[m] = "seen"
    BY DEF CatalogFollowsAnswers, Offered
  <2>1. m[1] # p
    BY <1>2, <1>3 DEF InPeace, Writing
  <2>2. InPeace(m)
    BY <1>1, <1>3, <2>1 DEF InPeace, Writing, RowsOf
  <2> QED BY <1>1, <2>1, <2>2 DEF CatalogInv, CatalogFollowsAnswers, Offered
<1>9. FounderTierKept'
  BY <1>1 DEF CatalogInv, FounderTierKept
<1> QED BY <1>4, <1>5, <1>6, <1>7, <1>8, <1>9 DEF CatalogInv

\* A job with one row less to write is still a job.
LEMMA LeavesRow ==
  ASSUME CatalogInv, NEW j \in Jobs, NEW m, job' = [job EXCEPT ![j].left = @ \ {m}]
  PROVE  job' \in [Jobs -> [at : Places, pending : SUBSET Sources, provider : Sources \cup {"none"},
                            left : SUBSET Listings, seen : SUBSET Listings]]
<1> DEFINE Job == [at : Places, pending : SUBSET Sources, provider : Sources \cup {"none"},
                   left : SUBSET Listings, seen : SUBSET Listings]
           k == [job[j] EXCEPT !.left = @ \ {m}]
<1>1. job \in [Jobs -> Job]
  BY DEF CatalogInv, ModelsInv
<1>2. k \in Job
  <2> HIDE DEF Places
  <2> QED BY <1>1
<1>3. job' = [job EXCEPT ![j] = k]
  OBVIOUS
<1> HIDE DEF Job, k
<1>4. job' \in [Jobs -> Job]
  BY <1>1, <1>2, <1>3
<1> QED BY <1>4 DEF Job

LEMMA UpsertInv ==
  ASSUME CatalogInv, NEW j \in Jobs, NEW m \in Listings, upsertModel(j, m)
  PROVE  CatalogInv'
<1>1. /\ job[j].at = "writing" /\ m \in job[j].left
      /\ model' = [model EXCEPT ![m] = [@ EXCEPT !.status = "offered"]]
      /\ job' = [job EXCEPT ![j].left = @ \ {m}]
      /\ UNCHANGED <<jobDeaths, lastAnswer, disputed, missedSince, revived, chosen>>
  BY DEF upsertModel, Upserted
<1>2. /\ model'[m] = [model[m] EXCEPT !.status = "offered"]
      /\ \A x \in Listings : x # m => model'[x] = model[x]
      /\ job'[j] = [job[j] EXCEPT !.left = @ \ {m}]
      /\ \A i \in Jobs : i # j => job'[i] = job[i]
  BY <1>1 DEF CatalogInv, ModelsInv
<1>3. /\ model'[m].status = "offered" /\ model'[m].tier = model[m].tier
      /\ \A i \in Jobs : /\ job'[i].at = job[i].at /\ job'[i].provider = job[i].provider
                         /\ job'[i].seen = job[i].seen
                         /\ i # j => job'[i].left = job[i].left
      /\ job'[j].left = job[j].left \ {m}
  BY <1>2 DEF CatalogInv, ModelsInv
<1>4. ModelsInv'
  <2>1. model' \in [Listings -> [status : {"absent", "offered", "deprecated"},
                                 tier : ModelTiers \cup {"none"}]]
    BY <1>1 DEF CatalogInv, ModelsInv
  <2>2. job' \in [Jobs -> [at : Places, pending : SUBSET Sources, provider : Sources \cup {"none"},
                           left : SUBSET Listings, seen : SUBSET Listings]]
    BY <1>1, LeavesRow
  <2> QED BY <1>1, <2>1, <2>2 DEF CatalogInv, ModelsInv
<1>5. WritersInv'
  <2>1. \A x \in Listings : model[x].status = "offered" => model'[x].status = "offered"
    BY <1>2, <1>3
  <2> SUFFICES ASSUME NEW i \in Jobs, job'[i].at = "writing"
               PROVE  /\ job'[i].seen \subseteq RowsOf(job'[i].provider) /\ job'[i].left \subseteq job'[i].seen
                      /\ \A h \in Jobs : h # i /\ job'[h].at = "writing"
                                              /\ job'[h].provider = job'[i].provider
                            => RowsOf(job'[i].provider) \subseteq disputed'
                      /\ \A x \in RowsOf(job'[i].provider) \ disputed' :
                            /\ lastAnswer'[x] = "seen" <=> x \in job'[i].seen
                            /\ x \in job'[i].seen \ job'[i].left => model'[x].status = "offered"
    BY DEF WritersInv, RowsOf
  <2>2. /\ job[i].at = "writing" /\ job'[i].provider = job[i].provider
        /\ job'[i].seen = job[i].seen /\ job'[i].left \subseteq job[i].left
        /\ job[i].left \subseteq job'[i].left \cup {m}
    BY <1>3
  <2>3. /\ job[i].seen \subseteq RowsOf(job[i].provider) /\ job[i].left \subseteq job[i].seen
        /\ \A x \in RowsOf(job[i].provider) \ disputed :
              /\ lastAnswer[x] = "seen" <=> x \in job[i].seen
              /\ x \in job[i].seen \ job[i].left => model[x].status = "offered"
    BY <2>2 DEF CatalogInv, WritersInv
  <2>4. \A h \in Jobs : h # i /\ job'[h].at = "writing" /\ job'[h].provider = job[i].provider
           => RowsOf(job[i].provider) \subseteq disputed
    BY <1>3, <2>2 DEF CatalogInv, WritersInv
  <2>5. \A x \in RowsOf(job[i].provider) \ disputed :
           x \in job[i].seen \ job'[i].left => model'[x].status = "offered"
    BY <1>3, <2>1, <2>2, <2>3, RowsOfListed
  <2> QED BY <1>1, <2>2, <2>3, <2>4, <2>5
<1>6. RefreshInv'
  <2> SUFFICES ASSUME NEW i \in Jobs, job'[i].at = "pricing", NEW x \in job'[i].left
               PROVE  model'[x].status = "offered" \/ x \in missedSince'[i]
    BY DEF RefreshInv
  <2>1. job[i] = job'[i] /\ x \in Listings
    BY <1>1, <1>2, <1>3 DEF CatalogInv, ModelsInv
  <2>2. model[x].status = "offered" \/ x \in missedSince[i]
    BY <2>1 DEF CatalogInv, RefreshInv
  <2> QED BY <1>1, <1>2, <1>3, <2>1, <2>2
<1>7. TiersInv'
  BY <1>1, <1>3 DEF TiersInv
<1>8. CatalogFollowsAnswers'
  <2>1. ~InPeace(m)'
    <3>1. m[1] = job[j].provider
      BY <1>1, RowsOfListed DEF CatalogInv, WritersInv
    <3> QED BY <1>1, <1>3, <3>1 DEF InPeace, Writing
  <2> QED BY <1>1, <1>2, <1>3, <2>1 DEF CatalogInv, CatalogFollowsAnswers, InPeace, Writing, Offered
<1>9. FounderTierKept'
  BY <1>1, <1>2, <1>3 DEF CatalogInv, FounderTierKept
<1> QED BY <1>4, <1>5, <1>6, <1>7, <1>8, <1>9 DEF CatalogInv
LEMMA DeprecateInv ==
  ASSUME CatalogInv, NEW j \in Jobs, markUnseenAsDeprecated(j)
  PROVE  CatalogInv'
<1> DEFINE p == job[j].provider
           gone == {m \in Offered : m[1] = p} \ job[j].seen
           k == [NoJob EXCEPT !.at = "asking", !.pending = job[j].pending]
<1>1. /\ job[j].at = "writing" /\ job[j].left = {}
      /\ model' = [m \in Listings |-> IF m \in gone THEN [model[m] EXCEPT !.status = "deprecated"]
                                      ELSE model[m]]
      /\ job' = [job EXCEPT ![j] = k]
      /\ missedSince' = [i \in Jobs |-> IF job[i].at = "pricing" THEN missedSince[i] \cup gone
                                        ELSE missedSince[i]]
      /\ UNCHANGED <<jobDeaths, lastAnswer, disputed, revived, chosen>>
  BY DEF markUnseenAsDeprecated, Unseen
<1>2. /\ k \in [at : Places, pending : SUBSET Sources, provider : Sources \cup {"none"},
                left : SUBSET Listings, seen : SUBSET Listings]
      /\ k.at = "asking"
  BY DEF CatalogInv, ModelsInv, NoJob, Places
<1>3. /\ gone \subseteq Listings /\ \A m \in gone : m[1] = p /\ m \notin job[j].seen
  BY DEF Offered
<1>4. \A m \in Listings : /\ m \in gone => model'[m].status = "deprecated"
                          /\ m \notin gone => model'[m].status = model[m].status
                          /\ model'[m].tier = model[m].tier
  BY <1>1 DEF CatalogInv, ModelsInv
<1>5. /\ job[j].seen \subseteq RowsOf(p)
      /\ \A i \in Jobs : i # j /\ job[i].at = "writing" /\ job[i].provider = p
            => RowsOf(p) \subseteq disputed
      /\ \A m \in RowsOf(p) \ disputed :
            /\ lastAnswer[m] = "seen" <=> m \in job[j].seen
            /\ m \in job[j].seen => model[m].status = "offered"
  BY <1>1 DEF CatalogInv, WritersInv
<1>6. \A m \in Listings : m[1] = p /\ m \notin job[j].seen => model'[m].status # "offered"
  BY <1>4 DEF Offered
<1>7. ModelsInv'
  <2>1. model' \in [Listings -> [status : {"absent", "offered", "deprecated"},
                                 tier : ModelTiers \cup {"none"}]]
    BY <1>1 DEF CatalogInv, ModelsInv
  <2>2. missedSince' \in [Jobs -> SUBSET Listings]
    BY <1>1, <1>3 DEF CatalogInv, ModelsInv
  <2> QED BY <1>1, <1>2, <2>1, <2>2 DEF CatalogInv, ModelsInv
<1> HIDE DEF gone, k
<1>8. job'[j] = k /\ \A i \in Jobs : i # j => job'[i] = job[i]
  BY <1>1 DEF CatalogInv, ModelsInv
<1>9. WritersInv'
  <2> SUFFICES ASSUME NEW i \in Jobs, job'[i].at = "writing"
               PROVE  /\ job'[i].seen \subseteq RowsOf(job'[i].provider) /\ job'[i].left \subseteq job'[i].seen
                      /\ \A h \in Jobs : h # i /\ job'[h].at = "writing"
                                              /\ job'[h].provider = job'[i].provider
                            => RowsOf(job'[i].provider) \subseteq disputed'
                      /\ \A x \in RowsOf(job'[i].provider) \ disputed' :
                            /\ lastAnswer'[x] = "seen" <=> x \in job'[i].seen
                            /\ x \in job'[i].seen \ job'[i].left => model'[x].status = "offered"
    BY DEF WritersInv, RowsOf
  <2>1. i # j /\ job'[i] = job[i] /\ job[i].at = "writing"
    BY <1>2, <1>8
  <2>2. \A h \in Jobs : job'[h].at = "writing" => job[h] = job'[h]
    BY <1>2, <1>8
  <2>3. \A x \in RowsOf(job[i].provider) \ disputed : x \notin gone
    BY <1>3, <1>5, <2>1, RowsOfListed DEF RowsOf
  <2>4. /\ job[i].seen \subseteq RowsOf(job[i].provider) /\ job[i].left \subseteq job[i].seen
        /\ \A h \in Jobs : h # i /\ job[h].at = "writing" /\ job[h].provider = job[i].provider
              => RowsOf(job[i].provider) \subseteq disputed
        /\ \A x \in RowsOf(job[i].provider) \ disputed :
              /\ lastAnswer[x] = "seen" <=> x \in job[i].seen
              /\ x \in job[i].seen \ job[i].left => model[x].status = "offered"
    BY <2>1 DEF CatalogInv, WritersInv
  <2>5. \A x \in RowsOf(job[i].provider) \ disputed : model'[x].status = model[x].status
    BY <1>4, <2>3, RowsOfListed
  <2> QED BY <1>1, <2>1, <2>2, <2>4, <2>5
<1>10. RefreshInv'
  <2> SUFFICES ASSUME NEW i \in Jobs, job'[i].at = "pricing", NEW x \in job'[i].left
               PROVE  model'[x].status = "offered" \/ x \in missedSince'[i]
    BY DEF RefreshInv
  <2>1. job[i] = job'[i] /\ x \in Listings
    BY <1>2, <1>8 DEF CatalogInv, ModelsInv
  <2>2. model[x].status = "offered" \/ x \in missedSince[i]
    BY <2>1 DEF CatalogInv, RefreshInv
  <2> QED BY <1>1, <1>4, <2>1, <2>2
<1>11. TiersInv'
  BY <1>2, <1>8 DEF TiersInv
<1>12. CatalogFollowsAnswers'
  <2> SUFFICES ASSUME NEW m \in Listings, InPeace(m)'
               PROVE  model'[m].status = "offered" <=> lastAnswer'[m] = "seen"
    BY DEF CatalogFollowsAnswers, Offered
  <2>1. m \notin disputed /\ m \notin revived
        /\ \A i \in Jobs : ~(job'[i].at = "writing" /\ job'[i].provider = m[1])
    BY <1>1 DEF InPeace, Writing
  <2>2. CASE m[1] = p
    <3>1. m \in RowsOf(p) \ disputed
      BY <2>1, <2>2 DEF RowsOf
    <3>2. CASE m \in job[j].seen
      BY <1>1, <1>3, <1>4, <1>5, <3>1, <3>2
    <3>3. CASE m \notin job[j].seen
      BY <1>1, <1>5, <1>6, <2>2, <3>1, <3>3
    <3> QED BY <3>2, <3>3
  <2>3. CASE m[1] # p
    <3>1. \A i \in Jobs : ~(job[i].at = "writing" /\ job[i].provider = m[1])
      BY <1>8, <2>1, <2>3
    <3>2. InPeace(m) /\ m \notin gone
      BY <1>3, <2>1, <2>3, <3>1 DEF InPeace, Writing
    <3> QED BY <1>1, <1>4, <3>2 DEF CatalogInv, CatalogFollowsAnswers, Offered
  <2> QED BY <2>2, <2>3
<1>13. FounderTierKept'
  BY <1>1, <1>4 DEF CatalogInv, FounderTierKept
<1> QED BY <1>7, <1>9, <1>10, <1>11, <1>12, <1>13 DEF CatalogInv

\* A step that gives tiers to rows, and neither offers nor withdraws any.
LEMMA TiersOnly ==
  ASSUME CatalogInv, NEW j \in Jobs, NEW place \in {"quick", "medium", "over"},
         job[j].at \in {"asking", "quick", "medium"},
         job' = [job EXCEPT ![j].at = place],
         NEW rows \in SUBSET Offered, NEW tier \in ModelTiers, Assign(j, rows, tier),
         place = "over" => rows = Untiered,
         rows \subseteq Untiered \/ \A m \in rows : WindowOf[m] = "large"
  PROVE  CatalogInv'
<1>1. /\ model' = [m \in Listings |-> IF m \in rows THEN [model[m] EXCEPT !.tier = tier] ELSE model[m]]
      /\ UNCHANGED <<jobDeaths, lastAnswer, disputed, missedSince, revived, chosen>>
  BY DEF Assign
<1>2. \A m \in Listings : /\ model'[m].status = model[m].status
                          /\ m \in rows => model'[m].tier = tier
                          /\ m \notin rows => model'[m].tier = model[m].tier
  BY <1>1 DEF CatalogInv, ModelsInv
<1>3. /\ job'[j] = [job[j] EXCEPT !.at = place] /\ \A i \in Jobs : i # j => job'[i] = job[i]
      /\ job'[j].at = place
  BY DEF CatalogInv, ModelsInv
<1>4. \A i \in Jobs : /\ job'[i].at \in {"writing", "pricing"} => job'[i] = job[i]
                      /\ job[i].at \in {"writing", "pricing"} => job'[i] = job[i]
  BY <1>3
<1>5. ModelsInv'
  <2>1. model' \in [Listings -> [status : {"absent", "offered", "deprecated"},
                                 tier : ModelTiers \cup {"none"}]]
    BY <1>1 DEF CatalogInv, ModelsInv
  <2>2. job' \in [Jobs -> [at : Places, pending : SUBSET Sources, provider : Sources \cup {"none"},
                           left : SUBSET Listings, seen : SUBSET Listings]]
    BY DEF CatalogInv, ModelsInv, Places
  <2> QED BY <1>1, <2>1, <2>2 DEF CatalogInv, ModelsInv
<1>6. WritersInv'
  <2> SUFFICES ASSUME NEW i \in Jobs, job'[i].at = "writing"
               PROVE  /\ job'[i].seen \subseteq RowsOf(job'[i].provider) /\ job'[i].left \subseteq job'[i].seen
                      /\ \A h \in Jobs : h # i /\ job'[h].at = "writing"
                                              /\ job'[h].provider = job'[i].provider
                            => RowsOf(job'[i].provider) \subseteq disputed'
                      /\ \A x \in RowsOf(job'[i].provider) \ disputed' :
                            /\ lastAnswer'[x] = "seen" <=> x \in job'[i].seen
                            /\ x \in job'[i].seen \ job'[i].left => model'[x].status = "offered"
    BY DEF WritersInv, RowsOf
  <2>1. job'[i] = job[i] /\ job[i].at = "writing"
    BY <1>4
  <2>2. \A h \in Jobs : job'[h].at = "writing" => job[h] = job'[h]
    BY <1>4
  <2>3. \A x \in RowsOf(job[i].provider) : model'[x].status = model[x].status
    BY <1>2, RowsOfListed
  <2> QED BY <1>1, <2>1, <2>2, <2>3 DEF CatalogInv, WritersInv
<1>7. RefreshInv'
  <2> SUFFICES ASSUME NEW i \in Jobs, job'[i].at = "pricing", NEW x \in job'[i].left
               PROVE  model'[x].status = "offered" \/ x \in missedSince'[i]
    BY DEF RefreshInv
  <2>1. job[i] = job'[i] /\ x \in Listings
    BY <1>4 DEF CatalogInv, ModelsInv
  <2>2. model[x].status = "offered" \/ x \in missedSince[i]
    BY <2>1 DEF CatalogInv, RefreshInv
  <2> QED BY <1>1, <1>2, <2>1, <2>2
<1>8. TiersInv'
  <2>1. CASE place = "over"
    <3>1. Untiered' = {}
      BY <1>2, <2>1 DEF Untiered, Offered, ModelTiers
    <3> QED BY <3>1 DEF TiersInv
  <2>2. CASE place # "over"
    BY <1>3, <2>2 DEF TiersInv
  <2> QED BY <2>1, <2>2
<1>9. CatalogFollowsAnswers'
  <2> SUFFICES ASSUME NEW m \in Listings, InPeace(m)'
               PROVE  model'[m].status = "offered" <=> lastAnswer'[m] = "seen"
    BY DEF CatalogFollowsAnswers, Offered
  <2>1. InPeace(m)
    BY <1>1, <1>4 DEF InPeace, Writing
  <2> QED BY <1>1, <1>2, <2>1 DEF CatalogInv, CatalogFollowsAnswers, Offered
<1>10. FounderTierKept'
  <2> SUFFICES ASSUME NEW m \in Listings, chosen'[m] # "none", WindowOf[m] # "large"
               PROVE  model'[m].tier = chosen'[m]
    BY DEF FounderTierKept
  <2>1. model[m].tier = chosen[m] /\ chosen[m] # "none"
    BY <1>1 DEF CatalogInv, FounderTierKept
  <2>2. m \notin rows
    BY <2>1 DEF Untiered
  <2> QED BY <1>1, <1>2, <2>1, <2>2
<1> QED BY <1>5, <1>6, <1>7, <1>8, <1>9, <1>10 DEF CatalogInv
LEMMA PriceInv ==
  ASSUME CatalogInv, NEW j \in Jobs, NEW m \in Listings, PriceModel(j, m)
  PROVE  CatalogInv'
<1>1. /\ job[j].at = "pricing" /\ m \in job[j].left
      /\ model' = [model EXCEPT ![m] = [@ EXCEPT !.status = "offered"]]
      /\ job' = [job EXCEPT ![j].left = @ \ {m}]
      /\ revived' = IF m \in missedSince[j] THEN revived \cup {m} ELSE revived
      /\ UNCHANGED <<jobDeaths, lastAnswer, disputed, missedSince, chosen>>
  BY DEF PriceModel, Upserted
<1>2. /\ model'[m] = [model[m] EXCEPT !.status = "offered"]
      /\ \A x \in Listings : x # m => model'[x] = model[x]
      /\ job'[j] = [job[j] EXCEPT !.left = @ \ {m}]
      /\ \A i \in Jobs : i # j => job'[i] = job[i]
  BY <1>1 DEF CatalogInv, ModelsInv
<1>3. /\ model'[m].status = "offered"
      /\ \A x \in Listings : /\ model'[x].tier = model[x].tier
                             /\ model[x].status = "offered" => model'[x].status = "offered"
      /\ \A i \in Jobs : job'[i].at = job[i].at /\ job'[i].left \subseteq job[i].left
      /\ \A i \in Jobs : job[i].at = "writing" => job'[i] = job[i]
  BY <1>1, <1>2 DEF CatalogInv, ModelsInv
<1>4. m \in revived' \/ model[m].status = "offered"
  BY <1>1 DEF CatalogInv, RefreshInv
<1>5. ModelsInv'
  <2>1. model' \in [Listings -> [status : {"absent", "offered", "deprecated"},
                                 tier : ModelTiers \cup {"none"}]]
    BY <1>1 DEF CatalogInv, ModelsInv
  <2>2. job' \in [Jobs -> [at : Places, pending : SUBSET Sources, provider : Sources \cup {"none"},
                           left : SUBSET Listings, seen : SUBSET Listings]]
    BY <1>1, LeavesRow
  <2> QED BY <1>1, <2>1, <2>2 DEF CatalogInv, ModelsInv
<1>6. WritersInv'
  <2> SUFFICES ASSUME NEW i \in Jobs, job'[i].at = "writing"
               PROVE  /\ job'[i].seen \subseteq RowsOf(job'[i].provider) /\ job'[i].left \subseteq job'[i].seen
                      /\ \A h \in Jobs : h # i /\ job'[h].at = "writing"
                                              /\ job'[h].provider = job'[i].provider
                            => RowsOf(job'[i].provider) \subseteq disputed'
                      /\ \A x \in RowsOf(job'[i].provider) \ disputed' :
                            /\ lastAnswer'[x] = "seen" <=> x \in job'[i].seen
                            /\ x \in job'[i].seen \ job'[i].left => model'[x].status = "offered"
    BY DEF WritersInv, RowsOf
  <2>1. job'[i] = job[i] /\ job[i].at = "writing"
    BY <1>3
  <2>2. \A h \in Jobs : job'[h].at = "writing" => job[h] = job'[h]
    BY <1>3
  <2> QED BY <1>1, <1>3, <2>1, <2>2, RowsOfListed DEF CatalogInv, WritersInv
<1>7. RefreshInv'
  <2> SUFFICES ASSUME NEW i \in Jobs, job'[i].at = "pricing", NEW x \in job'[i].left
               PROVE  model'[x].status = "offered" \/ x \in missedSince'[i]
    BY DEF RefreshInv
  <2>1. x \in job[i].left /\ job[i].at = "pricing" /\ x \in Listings
    BY <1>3 DEF CatalogInv, ModelsInv
  <2>2. model[x].status = "offered" \/ x \in missedSince[i]
    BY <2>1 DEF CatalogInv, RefreshInv
  <2> QED BY <1>1, <1>3, <2>1, <2>2
<1>8. TiersInv'
  <2>1. \A x \in Untiered' : x \in revived' \/ x \in Untiered
    BY <1>2, <1>3, <1>4 DEF Untiered, Offered
  <2> QED BY <1>1, <1>3, <2>1 DEF CatalogInv, TiersInv
<1>9. CatalogFollowsAnswers'
  <2> SUFFICES ASSUME NEW x \in Listings, InPeace(x)'
               PROVE  model'[x].status = "offered" <=> lastAnswer'[x] = "seen"
    BY DEF CatalogFollowsAnswers, Offered
  <2>1. InPeace(x) /\ x \notin revived'
    BY <1>1, <1>3 DEF InPeace, Writing
  <2>2. model'[x].status = model[x].status
    BY <1>2, <1>3, <1>4, <2>1
  <2> QED BY <1>1, <2>1, <2>2 DEF CatalogInv, CatalogFollowsAnswers, Offered
<1>10. FounderTierKept'
  BY <1>1, <1>3 DEF CatalogInv, FounderTierKept
<1> QED BY <1>5, <1>6, <1>7, <1>8, <1>9, <1>10 DEF CatalogInv

LEMMA DiesInv == ASSUME CatalogInv, NEW j \in Jobs, JobDies(j) PROVE CatalogInv'
<1> DEFINE k == [NoJob EXCEPT !.at = "over"]
<1>1. /\ job' = [job EXCEPT ![j] = k]
      /\ jobDeaths' = jobDeaths + 1
      /\ disputed' = IF job[j].at = "writing" THEN disputed \cup RowsOf(job[j].provider) ELSE disputed
      /\ UNCHANGED <<model, lastAnswer, missedSince, revived, chosen>>
  BY DEF JobDies
<1>2. /\ k \in [at : Places, pending : SUBSET Sources, provider : Sources \cup {"none"},
                left : SUBSET Listings, seen : SUBSET Listings]
      /\ k.at = "over"
  BY DEF NoJob, Places
<1> HIDE DEF k
<1>3. job'[j] = k /\ \A i \in Jobs : i # j => job'[i] = job[i]
  BY <1>1 DEF CatalogInv, ModelsInv
<1>4. \A i \in Jobs : job'[i].at \in {"writing", "pricing"} => job'[i] = job[i]
  BY <1>2, <1>3
<1>5. ModelsInv' /\ TiersInv'
  <2>1. job' \in [Jobs -> [at : Places, pending : SUBSET Sources, provider : Sources \cup {"none"},
                           left : SUBSET Listings, seen : SUBSET Listings]]
    BY <1>1, <1>2 DEF CatalogInv, ModelsInv
  <2>2. jobDeaths' \in Nat /\ jobDeaths' > 0
    BY <1>1 DEF CatalogInv, ModelsInv
  <2> QED BY <1>1, <2>1, <2>2 DEF CatalogInv, ModelsInv, TiersInv
<1>6. WritersInv'
  <2> SUFFICES ASSUME NEW i \in Jobs, job'[i].at = "writing"
               PROVE  /\ job'[i].seen \subseteq RowsOf(job'[i].provider) /\ job'[i].left \subseteq job'[i].seen
                      /\ \A h \in Jobs : h # i /\ job'[h].at = "writing"
                                              /\ job'[h].provider = job'[i].provider
                            => RowsOf(job'[i].provider) \subseteq disputed'
                      /\ \A x \in RowsOf(job'[i].provider) \ disputed' :
                            /\ lastAnswer'[x] = "seen" <=> x \in job'[i].seen
                            /\ x \in job'[i].seen \ job'[i].left => model'[x].status = "offered"
    BY DEF WritersInv, RowsOf
  <2>1. job'[i] = job[i] /\ job[i].at = "writing"
    BY <1>4
  <2>2. \A h \in Jobs : job'[h].at = "writing" => job[h] = job'[h]
    BY <1>4
  <2>3. disputed \subseteq disputed'
    BY <1>1
  <2> QED BY <1>1, <2>1, <2>2, <2>3 DEF CatalogInv, WritersInv
<1>7. RefreshInv'
  BY <1>1, <1>4 DEF CatalogInv, RefreshInv
<1>8. CatalogFollowsAnswers'
  <2> SUFFICES ASSUME NEW m \in Listings, InPeace(m)'
               PROVE  model'[m].status = "offered" <=> lastAnswer'[m] = "seen"
    BY DEF CatalogFollowsAnswers, Offered
  <2>1. m \notin disputed' /\ m \notin revived
        /\ \A i \in Jobs : ~(job'[i].at = "writing" /\ job'[i].provider = m[1])
    BY <1>1 DEF InPeace, Writing
  <2>2. ~(job[j].at = "writing" /\ job[j].provider = m[1])
    BY <1>1, <2>1 DEF RowsOf
  <2>3. InPeace(m)
    BY <1>1, <1>3, <2>1, <2>2 DEF InPeace, Writing
  <2> QED BY <1>1, <2>3 DEF CatalogInv, CatalogFollowsAnswers, Offered
<1>9. FounderTierKept'
  BY <1>1 DEF CatalogInv, FounderTierKept
<1> QED BY <1>5, <1>6, <1>7, <1>8, <1>9 DEF CatalogInv

LEMMA SetTierInv ==
  ASSUME CatalogInv, NEW id, NEW tier \in ModelTiers, setTier(id, tier)
  PROVE  CatalogInv'
<1> DEFINE rows == {m \in Listings : m[2] = id /\ model[m].status # "absent"}
<1>1. /\ model' = [m \in Listings |-> IF m \in rows THEN [model[m] EXCEPT !.tier = tier] ELSE model[m]]
      /\ chosen' = [m \in Listings |-> IF m \in rows THEN tier ELSE chosen[m]]
      /\ UNCHANGED <<job, jobDeaths, lastAnswer, disputed, missedSince, revived>>
  BY DEF setTier
<1> HIDE DEF rows
<1>2. \A m \in Listings : /\ model'[m].status = model[m].status
                          /\ m \in rows => model'[m].tier = tier
                          /\ m \notin rows => model'[m].tier = model[m].tier
  BY <1>1 DEF CatalogInv, ModelsInv
<1>3. ModelsInv'
  <2>1. model' \in [Listings -> [status : {"absent", "offered", "deprecated"},
                                 tier : ModelTiers \cup {"none"}]]
    BY <1>1 DEF CatalogInv, ModelsInv
  <2> QED BY <1>1, <2>1 DEF CatalogInv, ModelsInv
<1>4. WritersInv'
  BY <1>1, <1>2, RowsOfListed DEF CatalogInv, WritersInv
<1>5. RefreshInv'
  BY <1>1, <1>2 DEF CatalogInv, ModelsInv, RefreshInv
<1>6. TiersInv'
  <2>1. Untiered' \subseteq Untiered
    BY <1>2 DEF Untiered, Offered, ModelTiers
  <2> QED BY <1>1, <2>1 DEF CatalogInv, TiersInv
<1>7. CatalogFollowsAnswers'
  BY <1>1, <1>2 DEF CatalogInv, CatalogFollowsAnswers, InPeace, Writing, Offered
<1>8. FounderTierKept'
  BY <1>1, <1>2 DEF CatalogInv, FounderTierKept
<1> QED BY <1>3, <1>4, <1>5, <1>6, <1>7, <1>8 DEF CatalogInv

LEMMA CatalogStep == CatalogInv /\ [CatalogNext]_catalogVars => CatalogInv'
<1> SUFFICES ASSUME CatalogInv, [CatalogNext]_catalogVars PROVE CatalogInv'
  OBVIOUS
<1> DEFINE JobRow == [at : Places, pending : SUBSET Sources, provider : Sources \cup {"none"},
                      left : SUBSET Listings, seen : SUBSET Listings]
<1>1. ASSUME NEW j \in Jobs, discoverAllModels(j) PROVE CatalogInv'
  <2> DEFINE k == [NoJob EXCEPT !.at = "asking", !.pending = Sources]
  <2>1. k \in JobRow /\ k.at = "asking"
    BY DEF NoJob, Places
  <2>2. job' = [job EXCEPT ![j] = k] /\ job[j].at = "idle"
    BY <1>1 DEF discoverAllModels, MayBegin
  <2>3. UNCHANGED <<model, jobDeaths, lastAnswer, disputed, missedSince, revived, chosen>>
    BY <1>1 DEF discoverAllModels
  <2> HIDE DEF k
  <2> QED BY <2>1, <2>2, <2>3, JobOnly
<1>2. ASSUME NEW j \in Jobs, NEW p \in Sources, AnswersNothing(j, p) PROVE CatalogInv'
  <2> DEFINE k == [job[j] EXCEPT !.pending = @ \ {p}]
  <2>1. k \in JobRow /\ k.at = job[j].at
    <3> HIDE DEF Places
    <3> QED BY DEF CatalogInv, ModelsInv
  <2>2. job' = [job EXCEPT ![j] = k] /\ job[j].at = "asking"
    BY <1>2 DEF AnswersNothing
  <2>3. UNCHANGED <<model, jobDeaths, lastAnswer, disputed, missedSince, revived, chosen>>
    BY <1>2 DEF AnswersNothing
  <2> HIDE DEF k
  <2> QED BY <2>1, <2>2, <2>3, JobOnly
<1>3. ASSUME NEW j \in Jobs, refreshAllModelPricing(j) PROVE CatalogInv'
  <2> DEFINE k == [NoJob EXCEPT !.at = "pricing", !.left = OnOffer]
  <2>1. /\ k \in JobRow /\ k.at = "pricing"
        /\ \A m \in k.left : model[m].status = "offered"
    <3>1. OnOffer \subseteq Listings /\ \A m \in OnOffer : model[m].status = "offered"
      BY DEF OnOffer, Offered
    <3>2. NoJob \in JobRow /\ "pricing" \in Places
      BY DEF NoJob, Places
    <3>3. k \in JobRow /\ k.at = "pricing" /\ k.left = OnOffer
      <4> HIDE DEF Places
      <4> QED BY <3>1, <3>2
    <3> HIDE DEF k, JobRow
    <3> QED BY <3>1, <3>3
  <2>2. job' = [job EXCEPT ![j] = k] /\ job[j].at = "idle"
    BY <1>3 DEF refreshAllModelPricing, MayBegin
  <2>3. UNCHANGED <<model, jobDeaths, lastAnswer, disputed, missedSince, revived, chosen>>
    BY <1>3 DEF refreshAllModelPricing
  <2> HIDE DEF k
  <2> QED BY <2>1, <2>2, <2>3, JobOnly
<1>4. ASSUME NEW j \in Jobs, NEW m \in Listings, PassOver(j, m) PROVE CatalogInv'
  <2> DEFINE k == [job[j] EXCEPT !.left = @ \ {m}]
  <2>1. k \in JobRow /\ k.at = job[j].at /\ k.left \subseteq job[j].left
    <3> HIDE DEF Places
    <3> QED BY DEF CatalogInv, ModelsInv
  <2>2. job' = [job EXCEPT ![j] = k] /\ job[j].at = "pricing"
    BY <1>4 DEF PassOver
  <2>3. UNCHANGED <<model, jobDeaths, lastAnswer, disputed, missedSince, revived, chosen>>
    BY <1>4 DEF PassOver
  <2>4. \A x \in k.left : model[x].status = "offered" \/ x \in missedSince[j]
    BY <2>1, <2>2 DEF CatalogInv, RefreshInv
  <2> HIDE DEF k
  <2> QED BY <2>1, <2>2, <2>3, <2>4, JobOnly
<1>5. ASSUME NEW j \in Jobs, assignBest(j) PROVE CatalogInv'
  <2> DEFINE rows == {m \in Offered : WindowOf[m] = "large"}
  <2>1. /\ rows \in SUBSET Offered /\ \A m \in rows : WindowOf[m] = "large"
        /\ "best" \in ModelTiers
    BY DEF ModelTiers
  <2>2. /\ job[j].at = "asking" /\ job' = [job EXCEPT ![j].at = "quick"]
        /\ Assign(j, rows, "best")
    BY <1>5 DEF assignBest
  <2> HIDE DEF rows
  <2> QED BY <2>1, <2>2, TiersOnly
<1>6. ASSUME NEW j \in Jobs, assignQuick(j) PROVE CatalogInv'
  <2>1. PICK cheap \in SUBSET Untiered :
               Assign(j, {m \in Untiered : WindowOf[m] = "small"} \cup cheap, "quick")
    BY <1>6 DEF assignQuick
  <2> DEFINE rows == {m \in Untiered : WindowOf[m] = "small"} \cup cheap
  <2>2. rows \in SUBSET Offered /\ rows \subseteq Untiered /\ "quick" \in ModelTiers
    BY DEF ModelTiers, Untiered
  <2>3. job[j].at = "quick" /\ job' = [job EXCEPT ![j].at = "medium"] /\ Assign(j, rows, "quick")
    BY <1>6, <2>1 DEF assignQuick
  <2> HIDE DEF rows
  <2> QED BY <2>2, <2>3, TiersOnly
<1>7. ASSUME NEW j \in Jobs, assignMedium(j) PROVE CatalogInv'
  <2>1. Untiered \in SUBSET Offered /\ "medium" \in ModelTiers
    BY DEF Untiered, ModelTiers
  <2>2. /\ job[j].at = "medium" /\ job' = [job EXCEPT ![j].at = "over"]
        /\ Assign(j, Untiered, "medium")
    BY <1>7 DEF assignMedium
  <2> QED BY <2>1, <2>2, TiersOnly
<1>8. ASSUME NEW j \in Jobs, NEW p \in Sources, NEW answer \in (SUBSET RowsOf(p)) \ {{}},
             Answers(j, p, answer)
      PROVE  CatalogInv'
  BY <1>8, AnswersInv
<1>9. CASE UNCHANGED catalogVars
  BY <1>9 DEF catalogVars, CatalogInv, ModelsInv, WritersInv, RefreshInv, TiersInv, Untiered,
              CatalogFollowsAnswers, InPeace, Writing, Offered, FounderTierKept
<1> QED
  BY <1>1, <1>2, <1>3, <1>4, <1>5, <1>6, <1>7, <1>8, <1>9,
     UpsertInv, DeprecateInv, PriceInv, DiesInv, SetTierInv DEF CatalogNext

\* For any providers, models and number of discoveries and refreshes at once: what the
\* catalogue offers is what each provider last listed, and a tier the founder set stays
\* (model-discovery.mjs:36-63, model-registry.mjs:73-120).
THEOREM CatalogKeepsUp == CatalogSpec => [](CatalogFollowsAnswers /\ FounderTierKept)
<1>1. CatalogInv => CatalogFollowsAnswers /\ FounderTierKept
  BY DEF CatalogInv
<1> QED BY <1>1, CatalogInitInv, CatalogStep, PTL DEF CatalogSpec

\* When no discovery is at work and none was killed, every model on offer has a tier to be
\* routed by (autoAssignTiers, model-registry.mjs:249-275).
THEOREM OfferedGetTiers == CatalogSpec => []OfferedAreTiered
<1>1. CatalogInv => OfferedAreTiered
  BY DEF CatalogInv, ModelsInv, TiersInv, OfferedAreTiered
<1> QED BY <1>1, CatalogInitInv, CatalogStep, PTL DEF CatalogSpec

---------------------------------------------------------------------------
(* The page and its stream.  While the page's cursor is an id of the       *)
(* broker's present life, whatever the page does not know lies ahead of it *)
(* in the buffer, or the buffer no longer holds the cursor and a reset     *)
(* comes; and while its stream is open, on the stream.                     *)

Queued == [id : Nat, ours : BOOLEAN]
SourceStates == {"closed", "connecting", "open", "broken", "refused"}
Timely == lastEventId # NoId /\ cursorLife = brokers
Ahead ==
  \/ \A i \in 1..Len(buffer) : buffer[i].id # lastEventId
  \/ \E i \in 1..Len(buffer) : buffer[i].ours /\ buffer[i].id > lastEventId

PageTypes ==
  /\ sequence \in Nat /\ brokers \in Nat /\ cursorLife \in Nat /\ lastEventId \in Nat
  /\ stale \in BOOLEAN /\ busy \in BOOLEAN /\ dropped \in BOOLEAN
  /\ source \in [state : SourceStates, cursor : Nat, chan : SUBSET Nat]
BufferInv ==
  /\ buffer \in Seq(Queued) /\ Len(buffer) <= maxEvents
  /\ \A i \in 1..Len(buffer) : buffer[i].id \in 1..sequence
  /\ \A i, j \in 1..Len(buffer) : i < j => buffer[i].id < buffer[j].id
ModeInv ==
  /\ mode \in {"polling", "streaming", "paused"} /\ failures \in 0..failureThreshold
  /\ mode # "streaming" => source = NoSource
  /\ mode = "streaming" => source.state # "closed"
  /\ source.state \in {"connecting", "open", "broken"} => failures < failureThreshold
CursorInv ==
  /\ cursorLife <= brokers
  /\ source.state # "open" => source.chan = {}
  /\ source.chan \subseteq 1..sequence
  /\ Timely => /\ lastEventId <= sequence
               /\ source.state # "closed" => source.cursor = lastEventId
               /\ \A id \in source.chan : id > lastEventId
StaleInv == stale /\ ~dropped /\ Timely => Ahead /\ (source.state = "open" => source.chan # {})
PageInv == PageTypes /\ BufferInv /\ ModeInv /\ CursorInv /\ StaleInv

LEMMA PageInvImplies == PageInv => RealtimeTypeOK /\ PageCurrent
<1> SUFFICES ASSUME PageInv PROVE RealtimeTypeOK /\ PageCurrent
  OBVIOUS
<1>1. PageCurrent
  BY DEF PageInv, StaleInv, PageCurrent, Timely
<1>2. source.state \in SourceStates /\ DOMAIN buffer = 1..Len(buffer)
  BY DEF PageInv, PageTypes, BufferInv
<1>3. RealtimeTypeOK
  BY <1>2 DEF PageInv, BufferInv, ModeInv, RealtimeTypeOK, SourceStates
<1> QED
  BY <1>1, <1>3

LEMMA NoSourceIs ==
  /\ NoSource \in [state : SourceStates, cursor : Nat, chan : SUBSET Nat]
  /\ NoSource.state = "closed" /\ NoSource.chan = {} /\ NoSource.cursor = NoId
BY DEF NoSource, SourceStates, NoId

LEMMA PageInitInv == RealtimeInit => PageInv
<1> SUFFICES ASSUME RealtimeInit PROVE PageInv
  OBVIOUS
<1>1. PageTypes
  BY NoSourceIs DEF RealtimeInit, PageTypes, NoId
<1>2. BufferInv
  BY RealtimeAssumption DEF RealtimeInit, BufferInv
<1>3. ModeInv /\ CursorInv /\ StaleInv
  BY RealtimeAssumption, NoSourceIs DEF RealtimeInit, ModeInv, CursorInv, StaleInv, Timely
<1> QED
  BY <1>1, <1>2, <1>3 DEF PageInv

\* What publish leaves of the buffer: the new event, and all the others but one at most.
LEMMA KeptIs ==
  ASSUME BufferInv, NEW event \in Queued
  PROVE  /\ Kept(Append(buffer, event)) \in Seq(Queued)
         /\ Len(Kept(Append(buffer, event))) \in 1..maxEvents
         /\ \E d \in {0, 1} :
              /\ Len(Kept(Append(buffer, event))) = Len(buffer) + 1 - d
              /\ \A i \in 1..Len(Kept(Append(buffer, event))) :
                   Kept(Append(buffer, event))[i] =
                     IF i + d <= Len(buffer) THEN buffer[i + d] ELSE event
<1> DEFINE longer == Append(buffer, event)
<1>1. /\ longer \in Seq(Queued) /\ Len(longer) = Len(buffer) + 1 /\ Len(buffer) \in Nat
      /\ \A i \in 1..Len(longer) : longer[i] = IF i <= Len(buffer) THEN buffer[i] ELSE event
  BY DEF BufferInv
<1> HIDE DEF longer
<1>2. CASE Len(longer) > maxEvents
  <2>1. Kept(longer) = Tail(longer)
    BY <1>2 DEF Kept
  <2>2. /\ Tail(longer) \in Seq(Queued) /\ Len(Tail(longer)) = Len(buffer)
        /\ \A i \in 1..Len(buffer) : Tail(longer)[i] = longer[i + 1]
    BY <1>1
  <2>3. Len(buffer) = maxEvents /\ maxEvents \in Nat \ {0}
    BY <1>1, <1>2, RealtimeAssumption DEF BufferInv
  <2> DEFINE kept == Kept(longer)
  <2>4. /\ kept \in Seq(Queued) /\ Len(kept) \in 1..maxEvents /\ Len(kept) = Len(buffer) + 1 - 1
        /\ \A i \in 1..Len(kept) : kept[i] = IF i + 1 <= Len(buffer) THEN buffer[i + 1] ELSE event
    BY <1>1, <2>1, <2>2, <2>3
  <2> QED
    BY <2>4 DEF longer
<1>3. CASE ~(Len(longer) > maxEvents)
  <2>1. Kept(longer) = longer
    BY <1>3 DEF Kept
  <2>2. Len(longer) \in 1..maxEvents
    BY <1>1, <1>3, RealtimeAssumption
  <2> DEFINE kept == Kept(longer)
  <2>3. /\ kept \in Seq(Queued) /\ Len(kept) \in 1..maxEvents /\ Len(kept) = Len(buffer) + 1 - 0
        /\ \A i \in 1..Len(kept) : kept[i] = IF i + 0 <= Len(buffer) THEN buffer[i + 0] ELSE event
    BY <1>1, <2>1, <2>2
  <2> QED
    BY <2>3 DEF longer
<1> QED
  BY <1>2, <1>3

LEMMA PublishInv ==
  ASSUME PageInv, NEW ours \in BOOLEAN, publish(ours)
  PROVE  PageInv'
<1> DEFINE event == [id |-> sequence + 1, ours |-> ours]
<1>a. /\ sequence \in Nat /\ BufferInv /\ PageTypes /\ ModeInv /\ CursorInv /\ StaleInv
      /\ source.state \in SourceStates /\ source.cursor \in Nat /\ source.chan \in SUBSET Nat
  BY DEF PageInv, PageTypes
<1>1. /\ sequence' = sequence + 1 /\ stale' = (stale \/ ours)
      /\ buffer' = Kept(Append(buffer, event)) /\ event \in Queued /\ event.id = sequence + 1
      /\ event.ours = ours
      /\ UNCHANGED <<brokers, lastEventId, cursorLife, failures, mode, busy, dropped>>
  BY <1>a DEF publish, ServerSide, Queued
<1>2. /\ source'.state = source.state /\ source'.cursor = source.cursor
      /\ source'.chan = (IF ours /\ source.state = "open" THEN source.chan \cup {sequence + 1} ELSE source.chan)
      /\ source' \in [state : SourceStates, cursor : Nat, chan : SUBSET Nat]
  <2>1. CASE ours /\ source.state = "open"
    <3>1. source' = [source EXCEPT !.chan = @ \cup {sequence + 1}]
      BY <2>1 DEF publish
    <3> QED
      BY <1>a, <2>1, <3>1 DEF PageTypes
  <2>2. CASE ~(ours /\ source.state = "open")
    BY <1>a, <2>2 DEF publish, PageTypes
  <2> QED
    BY <2>1, <2>2
<1> HIDE DEF event
<1>3. PICK d \in {0, 1} :
        /\ Len(buffer') = Len(buffer) + 1 - d
        /\ \A i \in 1..Len(buffer') : buffer'[i] = IF i + d <= Len(buffer) THEN buffer[i + d] ELSE event
  BY <1>a, <1>1, KeptIs
<1>4. buffer' \in Seq(Queued) /\ Len(buffer') \in 1..maxEvents /\ Len(buffer) \in Nat /\ maxEvents \in Nat
  BY <1>a, <1>1, KeptIs, RealtimeAssumption DEF BufferInv
<1>5. BufferInv'
  <2>1. \A i \in 1..Len(buffer) : buffer[i].id \in 1..sequence
    BY <1>a DEF BufferInv
  <2>2. \A i \in 1..Len(buffer') : buffer'[i].id \in 1..(sequence + 1)
    BY <1>a, <1>1, <1>3, <1>4, <2>1
  <2>3. \A i, j \in 1..Len(buffer') : i < j => buffer'[i].id < buffer'[j].id
    <3> SUFFICES ASSUME NEW i \in 1..Len(buffer'), NEW j \in 1..Len(buffer'), i < j
                 PROVE  buffer'[i].id < buffer'[j].id
      OBVIOUS
    <3>1. i + d <= Len(buffer) /\ i + d \in 1..Len(buffer) /\ buffer'[i] = buffer[i + d]
      BY <1>3, <1>4
    <3>2. CASE j + d <= Len(buffer)
      <4>1. j + d \in 1..Len(buffer) /\ buffer'[j] = buffer[j + d] /\ i + d < j + d
        BY <1>3, <1>4, <3>2
      <4> QED
        BY <1>a, <3>1, <4>1 DEF BufferInv
    <3>3. CASE ~(j + d <= Len(buffer))
      <4>1. buffer'[j] = event
        BY <1>3, <3>3
      <4>2. buffer[i + d].id \in 1..sequence
        BY <2>1, <3>1
      <4> QED
        BY <1>a, <1>1, <3>1, <4>1, <4>2
    <3> QED
      BY <3>2, <3>3
  <2> QED
    BY <1>1, <1>4, <2>2, <2>3 DEF BufferInv
<1>6. PageTypes'
  BY <1>a, <1>1, <1>2 DEF PageTypes
<1>7. ModeInv'
  <2>1. mode # "streaming" => source' = NoSource
    BY <1>a, NoSourceIs DEF ModeInv, publish
  <2> QED
    BY <1>a, <1>1, <1>2, <2>1 DEF ModeInv
<1>8. CursorInv'
  BY <1>a, <1>1, <1>2 DEF CursorInv, PageTypes, Timely
<1>9. StaleInv'
  <2> SUFFICES ASSUME stale', ~dropped, Timely
               PROVE  Ahead' /\ (source'.state = "open" => source'.chan # {})
    BY <1>1 DEF StaleInv, Timely
  <2>0. lastEventId \in Nat /\ lastEventId <= sequence
    BY <1>a DEF CursorInv, PageTypes
  <2>1. CASE ours
    <3>1. Len(buffer') \in 1..Len(buffer') /\ buffer'[Len(buffer')] = event
      BY <1>3, <1>4
    <3>2. event.ours
      BY <1>1, <2>1
    <3>a. event.id > lastEventId
      BY <1>a, <1>1, <2>0
    <3>b. buffer'[Len(buffer')].ours /\ buffer'[Len(buffer')].id > lastEventId
      BY <3>1, <3>2, <3>a, Zenon
    <3>c. \E i \in 1..Len(buffer') : buffer'[i].ours /\ buffer'[i].id > lastEventId
      BY <3>1, <3>b, Zenon
    <3>3. Ahead'
      BY <1>1, <3>c DEF Ahead
    <3> QED
      BY <1>2, <2>1, <3>3
  <2>2. CASE ~ours
    <3>1. Ahead /\ (source.state = "open" => source.chan # {})
      BY <1>a, <1>1, <2>2 DEF StaleInv
    <3>2. CASE \A i \in 1..Len(buffer) : buffer[i].id # lastEventId
      <4>1. \A i \in 1..Len(buffer') : buffer'[i].id # lastEventId
        BY <1>a, <1>1, <1>3, <1>4, <2>0, <3>2
      <4> QED
        BY <1>1, <1>2, <2>2, <3>1, <4>1 DEF Ahead
    <3>3. ASSUME NEW k \in 1..Len(buffer), buffer[k].ours, buffer[k].id > lastEventId
          PROVE  Ahead'
      <4>1. CASE k - d \in 1..Len(buffer')
        <5>1. buffer'[k - d] = buffer[k]
          BY <1>3, <1>4, <4>1
        <5> QED
          BY <1>1, <3>3, <4>1, <5>1 DEF Ahead
      \* The event went, and with it every older one.
      <4>2. CASE k - d \notin 1..Len(buffer')
        <5>1. k = 1 /\ d = 1
          BY <1>3, <1>4, <4>2
        <5>2. \A i \in 1..Len(buffer) : buffer[i].id \in Nat /\ buffer[i].id > lastEventId
          BY <1>a, <2>0, <3>3, <5>1 DEF BufferInv
        <5>3. ASSUME NEW i \in 1..Len(buffer') PROVE buffer'[i].id # lastEventId
          <6>1. CASE i + d <= Len(buffer)
            <7>1. i + d \in 1..Len(buffer) /\ buffer'[i] = buffer[i + d]
              BY <1>3, <1>4, <6>1
            <7> QED
              BY <2>0, <5>2, <7>1
          <6>2. CASE ~(i + d <= Len(buffer))
            <7>1. buffer'[i] = event
              BY <1>3, <6>2
            <7> QED
              BY <1>a, <1>1, <2>0, <7>1
          <6> QED
            BY <6>1, <6>2
        <5> QED
          BY <1>1, <5>3 DEF Ahead
      <4> QED
        BY <4>1, <4>2
    <3> QED
      BY <1>2, <2>2, <3>1, <3>2, <3>3 DEF Ahead
  <2> QED
    BY <2>1, <2>2
<1> QED
  BY <1>5, <1>6, <1>7, <1>8, <1>9 DEF PageInv

\* A stream that opens is sent what lies ahead of its cursor, or a reset.
LEMMA SubscribeInv ==
  ASSUME PageInv, subscribe
  PROVE  PageInv'
<1> DEFINE missed == Missed(source.cursor)
<1>a. /\ sequence \in Nat /\ BufferInv /\ PageTypes /\ ModeInv /\ CursorInv /\ StaleInv
      /\ source.cursor \in Nat /\ source.state = "connecting"
      /\ DOMAIN buffer = 1..Len(buffer)
  BY DEF PageInv, PageTypes, BufferInv, subscribe
<1>1. /\ source' = [source EXCEPT !.state = "open", !.chan = missed]
      /\ sequence' = (IF missed = {Reset} THEN Reset ELSE sequence) /\ failures' = 0
      /\ UNCHANGED <<stale, brokers, buffer, lastEventId, cursorLife, mode, busy, dropped>>
  BY DEF subscribe
<1>2. After(source.cursor) \in SUBSET (1..sequence) /\ \A id \in After(source.cursor) : id > source.cursor
  BY <1>a DEF After, BufferInv
<1>3. \/ missed = {} /\ source.cursor = NoId
      \/ /\ missed = After(source.cursor)
         /\ \E i \in 1..Len(buffer) : buffer[i].id = source.cursor
      \/ missed = {Reset}
  BY <1>a DEF Missed
<1>4. \A id \in After(source.cursor) : id \in 1..sequence /\ id > source.cursor
  BY <1>2
<1>5. /\ sequence' \in Nat /\ sequence <= sequence' /\ missed \subseteq 1..sequence'
  BY <1>a, <1>1, <1>3, <1>4 DEF Reset
<1>6. /\ source'.state = "open" /\ source'.cursor = source.cursor /\ source'.chan = missed
      /\ source' \in [state : SourceStates, cursor : Nat, chan : SUBSET Nat]
  <2>1. missed \in SUBSET Nat
    BY <1>5
  <2> HIDE DEF missed
  <2> QED
    BY <1>a, <1>1, <2>1 DEF PageTypes, SourceStates
<1>7. PageTypes'
  BY <1>a, <1>1, <1>5, <1>6 DEF PageTypes
<1>8. BufferInv'
  BY <1>a, <1>1, <1>5 DEF BufferInv
<1>9. ModeInv'
  BY <1>a, <1>1, <1>6, NoSourceIs, RealtimeAssumption DEF ModeInv
<1>10. Timely => source.cursor = lastEventId /\ lastEventId <= sequence /\ lastEventId # NoId
  BY <1>a DEF CursorInv, Timely
<1>11. CursorInv'
  <2>1. Timely => \A id \in missed : id > lastEventId
    BY <1>a, <1>3, <1>4, <1>10 DEF Reset
  <2> HIDE DEF missed
  <2>2. (Timely' <=> Timely) /\ lastEventId' = lastEventId
    BY <1>1 DEF Timely
  <2>3. Timely => lastEventId <= sequence'
    BY <1>a, <1>5, <1>10 DEF PageTypes
  <2>4. cursorLife' <= brokers'
    BY <1>a, <1>1 DEF CursorInv
  <2> QED
    BY <1>1, <1>5, <1>6, <1>10, <2>1, <2>2, <2>3, <2>4 DEF CursorInv
<1>12. StaleInv'
  <2> SUFFICES ASSUME stale, ~dropped, Timely
               PROVE  Ahead /\ missed # {}
    BY <1>1, <1>6 DEF StaleInv, Timely, Ahead
  <2>1. Ahead
    BY <1>a DEF StaleInv
  <2>2. After(source.cursor) # {} \/ missed = {Reset}
    BY <1>a, <1>3, <1>10, <2>1 DEF Ahead, After
  <2> QED
    BY <1>3, <1>10, <2>1, <2>2
<1> QED
  BY <1>7, <1>8, <1>9, <1>11, <1>12 DEF PageInv

LEMMA DashboardDiesInv ==
  ASSUME PageInv, DashboardDies
  PROVE  PageInv'
<1>1. /\ brokers' = brokers + 1 /\ sequence' = 0 /\ buffer' = <<>>
      /\ UNCHANGED <<stale, lastEventId, cursorLife, failures, mode, busy, dropped>>
  BY DEF DashboardDies, ServerSide
<1>2. /\ source'.chan = {} /\ (source.state = "open" => source'.state = "broken")
      /\ source.state # "open" => source' = source
      /\ source' \in [state : SourceStates, cursor : Nat, chan : SUBSET Nat]
  <2>1. CASE source.state = "open"
    <3>1. source' = [source EXCEPT !.state = "broken", !.chan = {}]
      BY <2>1 DEF DashboardDies
    <3> QED
      BY <2>1, <3>1 DEF PageInv, PageTypes, SourceStates
  <2>2. CASE source.state # "open"
    BY <2>2 DEF DashboardDies, PageInv, PageTypes, CursorInv
  <2> QED
    BY <2>1, <2>2
<1>3. PageTypes'
  BY <1>1, <1>2 DEF PageInv, PageTypes
<1>4. BufferInv'
  BY <1>1, RealtimeAssumption DEF BufferInv
<1>5. ModeInv'
  BY <1>1, <1>2, NoSourceIs DEF PageInv, ModeInv
<1>6. CursorInv' /\ StaleInv'
  <2>1. cursorLife' <= brokers' /\ cursorLife' # brokers'
    BY <1>1 DEF PageInv, PageTypes, CursorInv
  <2> QED
    BY <1>1, <1>2, <2>1 DEF CursorInv, StaleInv, Timely
<1> QED
  BY <1>3, <1>4, <1>5, <1>6 DEF PageInv

\* The page changes how it follows, and what it does not know stays where it is.
LEMMA SourceChanged ==
  ASSUME PageInv, NEW s \in [state : SourceStates, cursor : Nat, chan : SUBSET Nat],
         source' = s, s.chan = {}, s.state # "open",
         s.state # "closed" => s.cursor = lastEventId \/ (source.state # "closed" /\ s.cursor = source.cursor),
         UNCHANGED <<brokers, sequence, buffer, lastEventId, cursorLife, busy>>,
         stale' /\ ~dropped' => stale /\ ~dropped, stale' \in BOOLEAN, dropped' \in BOOLEAN, ModeInv'
  PROVE  PageInv'
<1>1. PageTypes'
  BY DEF PageInv, PageTypes
<1>2. BufferInv'
  BY DEF PageInv, BufferInv
<1>3. CursorInv'
  BY DEF PageInv, CursorInv, Timely
<1>4. StaleInv'
  BY DEF PageInv, PageTypes, StaleInv, Timely, Ahead
<1> QED
  BY <1>1, <1>2, <1>3, <1>4 DEF PageInv

LEMMA Followed ==
  ASSUME PageInv, startStream \/ startPolling,
         UNCHANGED <<brokers, sequence, buffer, lastEventId, cursorLife, busy>>,
         stale' /\ ~dropped' => stale /\ ~dropped, stale' \in BOOLEAN, dropped' \in BOOLEAN
  PROVE  PageInv'
<1>1. CASE startStream
  <2>1. /\ source' = [state |-> "connecting", cursor |-> lastEventId, chan |-> {}]
        /\ mode' = "streaming" /\ failures' = 0
    BY <1>1 DEF startStream
  <2>2. /\ source' \in [state : SourceStates, cursor : Nat, chan : SUBSET Nat] /\ source'.chan = {}
        /\ source'.state = "connecting" /\ source'.cursor = lastEventId
    BY <2>1 DEF PageInv, PageTypes, SourceStates
  <2>3. ModeInv'
    BY <2>1, <2>2, RealtimeAssumption DEF ModeInv
  <2>4. PICK s : s = source'
    OBVIOUS
  <2> QED
    BY <2>2, <2>3, <2>4, SourceChanged
<1>2. CASE startPolling
  <2>1. mode' = "polling" /\ source' = NoSource /\ UNCHANGED failures
    BY <1>2 DEF startPolling
  <2>2. ModeInv'
    BY <2>1, NoSourceIs DEF PageInv, ModeInv
  <2> QED
    BY <2>1, <2>2, NoSourceIs, SourceChanged
<1> QED
  BY <1>1, <1>2

LEMMA ReceiveInv ==
  ASSUME PageInv, Receive
  PROVE  PageInv'
<1>a. /\ sequence \in Nat /\ BufferInv /\ PageTypes /\ ModeInv /\ CursorInv /\ StaleInv
      /\ source.state = "open" /\ source.chan \in SUBSET Nat
  BY DEF PageInv, PageTypes, Receive
<1>1. PICK id \in source.chan :
        /\ \A later \in source.chan : id <= later
        /\ source' = [source EXCEPT !.chan = @ \ {id}, !.cursor = id]
        /\ IF Passed(id) THEN UNCHANGED <<lastEventId, cursorLife, stale, dropped>>
           ELSE lastEventId' = id /\ cursorLife' = brokers /\ refreshScoped(TRUE)
  BY Zenon DEF Receive
<1>b. UNCHANGED <<failures, mode, busy, brokers, sequence, buffer>>
  BY DEF Receive, PageSide
<1>2. id \in 1..sequence /\ id \in Nat
  BY <1>a DEF CursorInv
<1>3. /\ source'.state = "open" /\ source'.cursor = id /\ source'.chan = source.chan \ {id}
      /\ source' \in [state : SourceStates, cursor : Nat, chan : SUBSET Nat]
  BY <1>a, <1>b, <1>1, <1>2 DEF PageTypes
<1>4. BufferInv'
  BY <1>a, <1>b, <1>1 DEF BufferInv
<1>5. ModeInv'
  BY <1>a, <1>b, <1>1, <1>3, NoSourceIs DEF ModeInv
\* An id that is passed over is not of the life the cursor is of.
<1>6. CASE Passed(id)
  <2>1. ~Timely /\ UNCHANGED <<lastEventId, cursorLife, stale, dropped, brokers>>
    BY <1>a, <1>b, <1>1, <1>2, <1>6 DEF Passed, CursorInv, Timely, PageTypes
  <2>2. PageTypes'
    BY <1>a, <1>b, <1>1, <1>3, <2>1 DEF PageTypes
  <2>3. CursorInv' /\ StaleInv'
    BY <1>a, <1>b, <1>1, <1>3, <2>1 DEF CursorInv, StaleInv, Timely
  <2> QED
    BY <1>4, <1>5, <2>2, <2>3 DEF PageInv
<1>7. CASE ~Passed(id)
  <2>1. /\ lastEventId' = id /\ cursorLife' = brokers
        /\ stale' = (stale /\ busy) /\ dropped' = (IF ~busy THEN FALSE ELSE TRUE)
    BY <1>1, <1>7 DEF refreshScoped
  <2>2. PageTypes'
    BY <1>a, <1>b, <1>1, <1>2, <1>3, <2>1 DEF PageTypes
  <2>3. CursorInv'
    BY <1>a, <1>b, <1>1, <1>2, <1>3, <2>1 DEF CursorInv, PageTypes
  <2>4. StaleInv'
    BY <1>a, <2>1 DEF StaleInv, PageTypes
  <2> QED
    BY <1>4, <1>5, <2>2, <2>3, <2>4 DEF PageInv
<1> QED
  BY <1>6, <1>7

LEMMA StreamFails ==
  ASSUME PageInv, Break \/ Refuse503
  PROVE  PageInv'
<1>a. PageTypes /\ ModeInv /\ CursorInv
  BY DEF PageInv
<1>1. /\ source.state \in {"connecting", "open", "broken"} /\ failures' = failures + 1
      /\ UNCHANGED <<lastEventId, cursorLife, busy, stale, dropped, brokers, sequence, buffer>>
      /\ dropped' \in BOOLEAN /\ stale' \in BOOLEAN
  BY <1>a DEF Break, Refuse503, PageSide, PageTypes
<1>2. CASE failures + 1 >= failureThreshold
  <2>1. mode' = "polling" /\ source' = NoSource
    BY <1>2 DEF Break, Refuse503
  <2>2. ModeInv'
    BY <1>a, <1>1, <2>1, NoSourceIs, RealtimeAssumption DEF ModeInv
  <2> QED
    BY <1>1, <2>1, <2>2, NoSourceIs, SourceChanged
<1>3. CASE ~(failures + 1 >= failureThreshold)
  <2>1. mode' = mode /\ \E state \in {"connecting", "refused"} :
          source' = [source EXCEPT !.state = state, !.chan = {}]
    <3>1. CASE Break
      BY <1>3, <3>1 DEF Break
    <3>2. CASE Refuse503
      <4>1. source.chan = {} /\ source' = [source EXCEPT !.state = "refused"]
        BY <1>a, <1>3, <3>2 DEF Refuse503, CursorInv
      <4>2. [source EXCEPT !.state = "refused"] = [source EXCEPT !.state = "refused", !.chan = {}]
        BY <1>a, <4>1 DEF PageTypes
      <4> QED
        BY <1>3, <3>2, <4>1, <4>2 DEF Refuse503
    <3> QED
      BY <3>1, <3>2
  <2>2. PICK s : s = source'
    OBVIOUS
  <2>3. /\ s.state \in {"connecting", "refused"} /\ s.chan = {} /\ s.cursor = source.cursor
        /\ s \in [state : SourceStates, cursor : Nat, chan : SUBSET Nat]
    BY <1>a, <2>1, <2>2 DEF PageTypes, SourceStates
  <2>4. ModeInv'
    BY <1>a, <1>1, <1>3, <2>1, <2>2, <2>3, NoSourceIs, RealtimeAssumption DEF ModeInv
  <2> QED
    BY <1>1, <2>2, <2>3, <2>4, SourceChanged
<1> QED
  BY <1>2, <1>3

\* The page asks for its data, or a mutation begins or ends.
LEMMA DataAsked ==
  ASSUME PageInv, UNCHANGED <<source, brokers, sequence, buffer, lastEventId, cursorLife, failures, mode>>,
         stale' /\ ~dropped' => stale /\ ~dropped, stale' \in BOOLEAN, dropped' \in BOOLEAN, busy' \in BOOLEAN
  PROVE  PageInv'
<1>1. PageTypes'
  BY DEF PageInv, PageTypes
<1>2. BufferInv' /\ ModeInv'
  BY DEF PageInv, BufferInv, ModeInv
<1>3. CursorInv'
  BY DEF PageInv, CursorInv, Timely
<1>4. StaleInv'
  BY DEF PageInv, PageTypes, StaleInv, Timely, Ahead
<1> QED
  BY <1>1, <1>2, <1>3, <1>4 DEF PageInv

LEMMA Refreshed ==
  ASSUME stale \in BOOLEAN, busy \in BOOLEAN, dropped \in BOOLEAN, refreshScoped(FALSE)
  PROVE  (stale' /\ ~dropped' => stale /\ ~dropped) /\ stale' \in BOOLEAN /\ dropped' \in BOOLEAN
<1>1. CASE busy = TRUE
  BY <1>1 DEF refreshScoped
<1>2. CASE busy = FALSE
  BY <1>2 DEF refreshScoped
<1> QED
  BY <1>1, <1>2

LEMMA PageStep == PageInv /\ [RealtimeNext]_realtimeVars => PageInv'
<1> SUFFICES ASSUME PageInv, [RealtimeNext]_realtimeVars PROVE PageInv'
  OBVIOUS
<1>a. dropped \in BOOLEAN /\ busy \in BOOLEAN /\ stale \in BOOLEAN
  BY DEF PageInv, PageTypes
<1>1. ASSUME NEW ours \in BOOLEAN, publish(ours) PROVE PageInv'
  BY <1>1, PublishInv
<1>2. CASE subscribe
  BY <1>2, SubscribeInv
<1>3. CASE DashboardDies
  BY <1>3, DashboardDiesInv
<1>4. CASE setRealtime
  BY <1>a, <1>4, Followed DEF setRealtime, PageSide
<1>5. CASE Hide
  <2>1. /\ mode' = "paused" /\ source' = NoSource
        /\ UNCHANGED <<lastEventId, cursorLife, failures, busy, stale, dropped, brokers, sequence, buffer>>
    BY <1>5 DEF Hide, PageSide
  <2>2. ModeInv'
    BY <2>1, NoSourceIs DEF PageInv, ModeInv
  <2> QED
    BY <1>a, <2>1, <2>2, NoSourceIs, SourceChanged
<1>6. CASE Show
  <2>1. (stale' /\ ~dropped' => stale /\ ~dropped) /\ stale' \in BOOLEAN /\ dropped' \in BOOLEAN
    BY <1>a, <1>6, Refreshed DEF Show
  <2> QED
    BY <1>6, <2>1, Followed DEF Show, PageSide
<1>7. CASE Poll
  <2>1. (stale' /\ ~dropped' => stale /\ ~dropped) /\ stale' \in BOOLEAN /\ dropped' \in BOOLEAN
        /\ busy' = busy
    BY <1>a, <1>7, Refreshed DEF Poll
  <2> QED
    BY <1>a, <1>7, <2>1, DataAsked DEF Poll, PageSide
<1>8. CASE Receive
  BY <1>8, ReceiveInv
<1>9. CASE Break \/ Refuse503
  BY <1>9, StreamFails
<1>10. CASE Mutate
  BY <1>a, <1>10, DataAsked DEF Mutate, PageSide
<1>11. CASE UNCHANGED realtimeVars
  BY <1>a, <1>11, DataAsked DEF realtimeVars
<1> QED
  BY <1>1, <1>2, <1>3, <1>4, <1>5, <1>6, <1>7, <1>8, <1>9, <1>10, <1>11 DEF RealtimeNext

LEMMA PageInvariant == RealtimeSpec => []PageInv
BY PageInitInv, PageStep, PTL DEF RealtimeSpec

\* A page whose stream has delivered everything has asked for its data since the last
\* change, unless its cursor is older than the dashboard's process or a mutation was
\* pending (dashboard/operational-events.mjs:51-59, realtime-coordinator.mjs:34-41).
THEOREM PagesCurrent == RealtimeSpec => []PageCurrent
BY PageInvariant, PageInvImplies, PTL

-----------------------------------------------------------------------------
\* A set of numbers has a least one: of the intervals 0..x for x in the set
\* one has no other inside it.
LEMMA LeastIs ==
  ASSUME NEW S \in SUBSET Nat, S # {}
  PROVE  \E x \in S : \A y \in S : x <= y
<1> DEFINE Below == {0..x : x \in S}
           R == StrictSubsetOrdering(Nat)
<1>1. Below \subseteq FiniteSubsetsOf(Nat) /\ Below # {}
  <2>1. ASSUME NEW x \in S
        PROVE  0..x \in FiniteSubsetsOf(Nat)
    <3>1. x \in Int /\ 0..x \subseteq Nat
      OBVIOUS
    <3>2. IsFiniteSet(0..x)
      BY <3>1, FS_Interval
    <3> QED
      BY <3>1, <3>2 DEF FiniteSubsetsOf
  <2> QED
    BY <2>1
<1>2. IsWellFoundedOn(R, FiniteSubsetsOf(Nat))
  BY FS_StrictSubsetOrderingWellFounded
<1>3. PICK T \in Below : \A U \in Below : <<U, T>> \notin R
  <2> HIDE DEF Below, R
  <2> QED
    BY <1>1, <1>2, WFMin
<1>4. PICK x \in S : T = 0..x
  BY <1>3
<1>5. ASSUME NEW y \in S
      PROVE  x <= y
  <2>1. CASE y < x
    <3>1. 0..y \subseteq 0..x /\ 0..y # 0..x
      BY <2>1
    <3>2. <<0..y, T>> \in R
      BY <1>4, <3>1 DEF StrictSubsetOrdering
    <3> QED
      BY <1>3, <3>2
  <2> QED
    BY <2>1
<1> QED
  BY <1>5

---------------------------------------------------------------------------
(* The rate limiter.  The log of a key is the end of what was let through, *)
(* and what is before it is out of the window.                             *)

Instants == 0..RateTime
Sorted(log) == \A i, j \in 1..Len(log) : i <= j => log[i] <= log[j]
Missing(k) == Len(admitted[k]) - Len(requestLog[k])

KeyLogs(k) ==
  /\ Sorted(requestLog[k]) /\ \A i \in 1..Len(requestLog[k]) : requestLog[k][i] <= rateNow
  /\ Len(requestLog[k]) <= RequestLimit /\ Missing(k) >= 0
  /\ \A j \in 1..Len(requestLog[k]) : requestLog[k][j] = admitted[k][Missing(k) + j]
  /\ \A i \in 1..Missing(k) : admitted[k][i] <= rateNow - WindowLength
  /\ \A i \in 1..(Len(admitted[k]) - RequestLimit) :
       admitted[k][i + RequestLimit] >= admitted[k][i] + WindowLength
KeyPromise(k) ==
  promised[k] # NoPromise =>
    requestLog[k] # <<>> /\ promised[k] >= requestLog[k][1] + WindowLength
RateInv == RateTypeOK /\ \A k \in LimitedKeys : KeyLogs(k) /\ KeyPromise(k)

LEMMA LogInts ==
  ASSUME NEW log \in Seq(Instants)
  PROVE  Len(log) \in Nat /\ DOMAIN log = 1..Len(log) /\ \A i \in 1..Len(log) : log[i] \in Int
<1>1. Len(log) \in Nat /\ DOMAIN log = 1..Len(log) /\ \A i \in 1..Len(log) : log[i] \in Instants
  OBVIOUS
<1>2. \A x \in Instants : x \in Int
  BY DEF Instants
<1> QED
  BY <1>1, <1>2

\* What the filter leaves of a log in order is its end.
LEMMA SinceIs ==
  ASSUME NEW log \in Seq(Instants), Sorted(log), NEW windowStart \in Int
  PROVE  \E n \in 0..Len(log) :
           /\ \A i \in 1..Len(log) : log[i] > windowStart <=> i > n
           /\ Since(log, windowStart) = SubSeq(log, n + 1, Len(log))
<1> DEFINE Fits(n) == \A i \in DOMAIN log : log[i] > windowStart <=> i > n
           Later == {i \in 1..Len(log) : log[i] > windowStart} \cup {Len(log) + 1}
           n == CHOOSE x \in 0..Len(log) : Fits(x)
<1>1. Len(log) \in Nat /\ DOMAIN log = 1..Len(log) /\ \A i \in 1..Len(log) : log[i] \in Int
  BY LogInts
<1>2. PICK first \in Later : \A i \in Later : first <= i
  <2>1. Later \in SUBSET Nat /\ Later # {}
    BY <1>1
  <2> QED
    BY <2>1, LeastIs
<1>3. first - 1 \in 0..Len(log)
  BY <1>1, <1>2
<1>4. ASSUME NEW i \in 1..Len(log)
      PROVE  log[i] > windowStart <=> i > first - 1
  <2>1. CASE i < first
    BY <1>1, <1>2, <2>1
  <2>2. CASE ~(i < first)
    <3>1. first \in 1..Len(log) /\ log[first] > windowStart
      BY <1>1, <1>2, <2>2
    <3>2. log[first] <= log[i]
      BY <1>1, <2>2, <3>1 DEF Sorted
    <3> QED
      BY <1>1, <2>2, <3>1, <3>2
  <2> QED
    BY <2>1, <2>2
<1>5. Fits(first - 1)
  BY <1>1, <1>4
<1>6. n \in 0..Len(log) /\ Fits(n)
  BY <1>3, <1>5
<1> HIDE DEF n
<1>7. Since(log, windowStart) = SubSeq(log, n + 1, Len(log))
  BY DEF Since, n
<1> QED
  BY <1>1, <1>6, <1>7

\* An end of a log in order.
LEMMA EndOfLog ==
  ASSUME NEW log \in Seq(Instants), Sorted(log), NEW n \in 0..Len(log)
  PROVE  /\ SubSeq(log, n + 1, Len(log)) \in Seq(Instants)
         /\ Len(SubSeq(log, n + 1, Len(log))) = Len(log) - n
         /\ \A j \in 1..(Len(log) - n) : SubSeq(log, n + 1, Len(log))[j] = log[n + j]
         /\ Sorted(SubSeq(log, n + 1, Len(log)))
<1> DEFINE end == SubSeq(log, n + 1, Len(log))
<1>1. Len(log) \in Nat
  OBVIOUS
<1>2. end \in Seq(Instants) /\ Len(end) = Len(log) - n
      /\ \A j \in 1..(Len(log) - n) : end[j] = log[n + j]
  BY <1>1
<1> HIDE DEF end
<1>3. Sorted(end)
  BY <1>1, <1>2 DEF Sorted
<1> QED
  BY <1>2, <1>3 DEF end

LEMMA RateInitInv == RateInit => RateInv
<1> SUFFICES ASSUME RateInit PROVE RateInv
  OBVIOUS
<1>1. <<>> \in Seq(0..RateTime) /\ Len(<<>>) = 0
  OBVIOUS
<1>2. RateTypeOK
  BY <1>1, RateAssumption DEF RateInit, RateTypeOK
<1>3. ASSUME NEW k \in LimitedKeys PROVE KeyLogs(k) /\ KeyPromise(k)
  <2>1. requestLog[k] = <<>> /\ admitted[k] = <<>> /\ promised[k] = NoPromise
    BY DEF RateInit
  <2> QED
    BY <1>1, <2>1, RateAssumption DEF KeyLogs, KeyPromise, Sorted, Missing
<1> QED
  BY <1>2, <1>3 DEF RateInv

\* One key asks; the others' logs stay.
LEMMA OtherKeys ==
  ASSUME RateInv, NEW k \in LimitedKeys, NEW q \in LimitedKeys \ {k},
         NEW log, requestLog' = [requestLog EXCEPT ![k] = log],
         NEW ins, admitted' = [admitted EXCEPT ![k] = ins],
         NEW until, promised' = [promised EXCEPT ![k] = until],
         rateNow' = rateNow
  PROVE  KeyLogs(q)' /\ KeyPromise(q)'
<1>1. requestLog'[q] = requestLog[q] /\ admitted'[q] = admitted[q] /\ promised'[q] = promised[q]
  BY DEF RateInv, RateTypeOK
<1>2. KeyLogs(q) /\ KeyPromise(q)
  BY DEF RateInv
<1> QED
  BY <1>1, <1>2 DEF KeyLogs, KeyPromise, Missing

LEMMA Ceiling ==
  ASSUME NEW a \in Int, NEW b \in Nat \ {0}
  PROVE  CeilDiv(a, b) \in Int /\ CeilDiv(a, b) * b >= a /\ CeilDiv(a, b) * b <= a + b - 1
<1> DEFINE c == a + b - 1
           q == c \div b
<1>1. c \in Int /\ b \in Int /\ b > 0
  OBVIOUS
<1>2. q \in Int /\ b * q <= c /\ c < b * (q + 1)
  BY <1>1, Z3
<1>3. b * (q + 1) = b * q + b /\ q * b = b * q
  BY <1>1, <1>2
<1> QED
  BY <1>1, <1>2, <1>3 DEF CeilDiv

\* What check keeps of a key's log.
LEMMA WithinIs ==
  ASSUME RateInv, NEW k \in LimitedKeys
  PROVE  \E n \in 0..Len(requestLog[k]) :
           /\ \A i \in 1..Len(requestLog[k]) : requestLog[k][i] > rateNow - WindowLength <=> i > n
           /\ withinWindow(k) \in Seq(Instants) /\ Sorted(withinWindow(k))
           /\ Len(withinWindow(k)) = Len(requestLog[k]) - n
           /\ \A j \in 1..Len(withinWindow(k)) : withinWindow(k)[j] = requestLog[k][n + j]
<1>1. /\ requestLog[k] \in Seq(Instants) /\ Sorted(requestLog[k]) /\ rateNow - WindowLength \in Int
  BY RateAssumption DEF RateInv, RateTypeOK, KeyLogs, Instants
<1>2. PICK n \in 0..Len(requestLog[k]) :
        /\ \A i \in 1..Len(requestLog[k]) : requestLog[k][i] > rateNow - WindowLength <=> i > n
        /\ withinWindow(k) = SubSeq(requestLog[k], n + 1, Len(requestLog[k]))
  BY <1>1, SinceIs DEF withinWindow
<1>3. /\ withinWindow(k) \in Seq(Instants) /\ Sorted(withinWindow(k))
      /\ Len(withinWindow(k)) = Len(requestLog[k]) - n
      /\ \A j \in 1..(Len(requestLog[k]) - n) : withinWindow(k)[j] = requestLog[k][n + j]
  BY <1>1, <1>2, EndOfLog
<1> QED
  BY <1>2, <1>3

LEMMA RateInvImplies == RateInv => RateKept /\ RetryHonoured
<1> SUFFICES ASSUME RateInv PROVE RateKept /\ RetryHonoured
  OBVIOUS
<1>1. RateKept
  BY DEF RateInv, KeyLogs, RateKept
<1>2. ASSUME NEW k \in LimitedKeys, promised[k] # NoPromise, rateNow >= promised[k]
      PROVE  Len(withinWindow(k)) < RequestLimit
  <2>1. /\ requestLog[k] # <<>> /\ promised[k] >= requestLog[k][1] + WindowLength
        /\ Len(requestLog[k]) <= RequestLimit /\ requestLog[k] \in Seq(Instants)
        /\ rateNow \in Int /\ promised[k] \in Int
    BY <1>2 DEF RateInv, RateTypeOK, KeyLogs, KeyPromise, Instants, NoPromise
  <2>2. 1 \in 1..Len(requestLog[k]) /\ requestLog[k][1] \in Int /\ Len(requestLog[k]) \in Nat
    BY <2>1, LogInts
  <2>3. ~(requestLog[k][1] > rateNow - WindowLength)
    BY <1>2, <2>1, <2>2, RateAssumption
  <2>4. PICK n \in 0..Len(requestLog[k]) :
          /\ \A i \in 1..Len(requestLog[k]) : requestLog[k][i] > rateNow - WindowLength <=> i > n
          /\ Len(withinWindow(k)) = Len(requestLog[k]) - n
    BY WithinIs
  <2>5. n >= 1
    BY <2>2, <2>3, <2>4
  <2> QED
    BY <2>1, <2>2, <2>4, <2>5, RateAssumption
<1> QED
  BY <1>1, <1>2 DEF RetryHonoured

LEMMA RoundedWait ==
  ASSUME NEW first \in Nat, NEW now \in Nat, NEW end \in Nat, first <= now, now <= end,
         NEW length \in Nat, NEW unit \in Nat \ {0}, NEW c \in Int, NEW product \in Int, product = c * unit,
         product >= first + length - now, product <= first + length - now + unit - 1
  PROVE  /\ now + AtLeastOne(c) * unit >= first + length
         /\ now + AtLeastOne(c) * unit \in 0..(end + length + unit)
<1>1. CASE c < 1
  <2>1. AtLeastOne(c) * unit = unit
    BY <1>1 DEF AtLeastOne
  <2>2. product <= 0
    BY <1>1
  <2>3. now + unit >= first + length /\ now + unit \in 0..(end + length + unit)
    BY <2>2
  <2> QED
    BY <2>1, <2>3
<1>2. CASE ~(c < 1)
  <2>1. AtLeastOne(c) * unit = product
    BY <1>2 DEF AtLeastOne
  <2>2. product >= 0
    BY <1>2
  <2>3. now + product >= first + length /\ now + product \in 0..(end + length + unit)
    BY <2>2
  <2> QED
    BY <2>1, <2>3
<1> QED
  BY <1>1, <1>2

\* A refused caller is told to come back when the oldest instant is out of the window.
LEMMA Told ==
  ASSUME NEW within \in Seq(Instants), Len(within) >= 1, rateNow \in 0..RateTime, within[1] <= rateNow
  PROVE  /\ rateNow + retryAfter(within) * PerSecond >= within[1] + WindowLength
         /\ rateNow + retryAfter(within) * PerSecond \in 0..(RateTime + WindowLength + PerSecond)
<1>1. PICK first \in Nat : first = within[1]
  <2>1. within[1] \in Instants
    OBVIOUS
  <2> QED
    BY <2>1 DEF Instants
<1>2. PICK now \in Nat : now = rateNow /\ first <= now /\ now <= RateTime
  BY <1>1, RateAssumption
<1>a. first + WindowLength - now \in Int
  BY RateAssumption
<1>3. PICK c \in Int : /\ c = CeilDiv(first + WindowLength - now, PerSecond)
                       /\ c * PerSecond >= first + WindowLength - now
                       /\ c * PerSecond <= first + WindowLength - now + PerSecond - 1
  BY <1>a, RateAssumption, Ceiling
<1>4. PICK product \in Int : product = c * PerSecond
  BY RateAssumption
<1>5. /\ now + AtLeastOne(c) * PerSecond >= first + WindowLength
      /\ now + AtLeastOne(c) * PerSecond \in 0..(RateTime + WindowLength + PerSecond)
  BY <1>2, <1>3, <1>4, RoundedWait, RateAssumption
<1>6. retryAfter(within) = AtLeastOne(c)
  <2>1. retryAfter(within) = AtLeastOne(CeilDiv(within[1] + WindowLength - rateNow, PerSecond))
    BY DEF retryAfter
  <2> QED
    BY ONLY <1>1, <1>2, <1>3, <2>1
<1> QED
  BY <1>1, <1>2, <1>5, <1>6

LEMMA DropsAdd ==
  ASSUME NEW a \in Nat, NEW b \in Nat, NEW c \in Nat, NEW n \in Nat, NEW m \in Nat,
         m = a - b, c = b - n
  PROVE  a - c = m + n /\ m + n \in Nat
OBVIOUS

LEMMA CheckInv ==
  ASSUME RateInv, NEW k \in LimitedKeys, check(k)
  PROVE  RateInv'
<1> DEFINE within == withinWindow(k)
           m == Missing(k)
<1>a. /\ rateNow \in 0..RateTime /\ rateNow \in Int /\ rateNow' = rateNow /\ RequestLimit \in Nat \ {0}
      /\ WindowLength \in Nat \ {0} /\ PerSecond \in Nat \ {0} /\ RateTime \in Nat
      /\ requestLog \in [LimitedKeys -> Seq(Instants)] /\ admitted \in [LimitedKeys -> Seq(Instants)]
      /\ promised \in [LimitedKeys -> {NoPromise} \cup (0..(RateTime + WindowLength + PerSecond))]
      /\ requestLog[k] \in Seq(Instants) /\ admitted[k] \in Seq(Instants)
      /\ Len(requestLog[k]) \in Nat /\ Len(admitted[k]) \in Nat
      /\ KeyLogs(k) /\ KeyPromise(k)
  <2>1. /\ rateNow \in 0..RateTime /\ rateNow' = rateNow
        /\ requestLog \in [LimitedKeys -> Seq(Instants)] /\ admitted \in [LimitedKeys -> Seq(Instants)]
        /\ promised \in [LimitedKeys -> {NoPromise} \cup (0..(RateTime + WindowLength + PerSecond))]
        /\ KeyLogs(k) /\ KeyPromise(k)
    BY DEF RateInv, RateTypeOK, check, Instants
  <2>2. requestLog[k] \in Seq(Instants) /\ admitted[k] \in Seq(Instants)
    BY <2>1
  <2> QED
    BY <2>1, <2>2, RateAssumption
<1>b. PICK n \in 0..Len(requestLog[k]) :
           /\ \A i \in 1..Len(requestLog[k]) : requestLog[k][i] > rateNow - WindowLength <=> i > n
           /\ within \in Seq(Instants) /\ Sorted(within)
           /\ Len(within) = Len(requestLog[k]) - n
           /\ \A j \in 1..Len(within) : within[j] = requestLog[k][n + j]
  BY WithinIs
<1>c. IF Len(within) >= RequestLimit
      THEN /\ requestLog' = [requestLog EXCEPT ![k] = within]
           /\ promised' = [promised EXCEPT ![k] = rateNow + retryAfter(within) * PerSecond]
           /\ UNCHANGED admitted
      ELSE /\ requestLog' = [requestLog EXCEPT ![k] = Append(within, rateNow)]
           /\ admitted' = [admitted EXCEPT ![k] = Append(@, rateNow)]
           /\ promised' = [promised EXCEPT ![k] = NoPromise]
  BY DEF check
<1> HIDE DEF within
<1>1. /\ m = Len(admitted[k]) - Len(requestLog[k]) /\ m \in Nat /\ Len(requestLog[k]) <= RequestLimit
      /\ \A j \in 1..Len(requestLog[k]) : requestLog[k][j] = admitted[k][m + j]
      /\ \A i \in 1..m : admitted[k][i] <= rateNow - WindowLength
      /\ \A i \in 1..(Len(admitted[k]) - RequestLimit) :
           admitted[k][i + RequestLimit] >= admitted[k][i] + WindowLength
      /\ \A i \in 1..Len(requestLog[k]) : requestLog[k][i] <= rateNow
  BY <1>a DEF KeyLogs, Missing
<1> HIDE DEF m
\* What falls out of the log is out of the window, like what fell out before.
<1>2. \A i \in 1..(m + n) : admitted[k][i] <= rateNow - WindowLength
  <2> SUFFICES ASSUME NEW i \in 1..(m + n) PROVE admitted[k][i] <= rateNow - WindowLength
    OBVIOUS
  <2>1. CASE i <= m
    BY <1>1, <2>1
  <2>2. CASE ~(i <= m)
    <3>1. i - m \in 1..Len(requestLog[k]) /\ ~(i - m > n)
      BY <1>1, <1>b, <1>a, <2>2
    <3>2. ~(requestLog[k][i - m] > rateNow - WindowLength) /\ requestLog[k][i - m] = admitted[k][m + (i - m)]
      BY <1>1, <1>b, <3>1
    <3>3. m + (i - m) = i
      <4>1. m \in Int /\ i \in Int
        BY <1>1, <1>a, <1>b
      <4> QED
        BY ONLY <4>1
    <3>4. requestLog[k][i - m] \in Int
      BY <1>a, <3>1, LogInts
    <3> QED
      BY <1>a, <3>2, <3>3, <3>4
  <2> QED
    BY <2>1, <2>2
<1>3. \A j \in 1..Len(within) : within[j] = admitted[k][m + n + j] /\ within[j] <= rateNow
  <2> SUFFICES ASSUME NEW j \in 1..Len(within)
               PROVE  within[j] = admitted[k][m + n + j] /\ within[j] <= rateNow
    OBVIOUS
  <2>1. n + j \in 1..Len(requestLog[k]) /\ within[j] = requestLog[k][n + j]
    BY <1>a, <1>b
  <2>2. m + (n + j) = m + n + j
    BY <1>1, <1>a, <1>b
  <2> QED
    BY <1>1, <2>1, <2>2
<1>4. /\ \E log : requestLog' = [requestLog EXCEPT ![k] = log]
      /\ \E ins : admitted' = [admitted EXCEPT ![k] = ins]
      /\ \E until : promised' = [promised EXCEPT ![k] = until]
  <2>1. admitted = [admitted EXCEPT ![k] = admitted[k]]
    BY <1>a
  <2> QED
    BY <1>c, <2>1
<1>5. ASSUME NEW q \in LimitedKeys \ {k} PROVE KeyLogs(q)' /\ KeyPromise(q)'
  BY <1>a, <1>4, OtherKeys
<1>6. CASE Len(within) >= RequestLimit
  <2>1. /\ requestLog'[k] = within /\ admitted' = admitted
        /\ promised'[k] = rateNow + retryAfter(within) * PerSecond
    BY <1>6, <1>a, <1>c
  <2>2. Len(within) >= 1 /\ within[1] <= rateNow
    BY <1>3, <1>6, <1>a, <1>b
  <2>3. /\ promised'[k] >= within[1] + WindowLength
        /\ promised'[k] \in 0..(RateTime + WindowLength + PerSecond)
    BY <1>a, <1>b, <2>1, <2>2, Told
  <2>4. RateTypeOK'
    <3>1. requestLog' = [requestLog EXCEPT ![k] = within]
          /\ promised' = [promised EXCEPT ![k] = promised'[k]]
      BY <1>6, <1>a, <1>c, <2>1
    <3> QED
      BY <1>a, <1>b, <2>1, <2>3, <3>1 DEF RateTypeOK, Instants
  <2>5. Missing(k)' = m + n /\ m + n \in Nat
    <3>1. Missing(k)' = Len(admitted[k]) - Len(within)
      BY <2>1 DEF Missing
    <3>2. /\ m = Len(admitted[k]) - Len(requestLog[k]) /\ Len(within) = Len(requestLog[k]) - n
          /\ m \in Nat /\ n \in Nat /\ Len(requestLog[k]) \in Nat /\ Len(admitted[k]) \in Nat
      BY <1>1, <1>a, <1>b
    <3>3. Len(within) \in Nat
      BY <1>b
    <3>4. Len(admitted[k]) - Len(within) = m + n /\ m + n \in Nat
      BY <3>2, <3>3, DropsAdd
    <3> QED
      BY ONLY <3>1, <3>4
  <2>6. KeyLogs(k)'
    <3>1. Len(within) <= RequestLimit
      BY <1>1, <1>a, <1>b
    <3>2. Sorted(within) /\ \A j \in 1..Len(within) : within[j] <= rateNow
      BY <1>3, <1>b
    <3>3. Sorted(requestLog[k])' /\ rateNow' = rateNow
      BY <1>a, <2>1, <3>2 DEF Sorted
    <3>4. /\ \A j \in 1..Len(within) : within[j] = admitted[k][m + n + j]
          /\ \A i \in 1..(Len(admitted[k]) - RequestLimit) :
               admitted[k][i + RequestLimit] >= admitted[k][i] + WindowLength
      BY <1>1, <1>3
    <3> QED
      BY <1>2, <2>1, <2>5, <3>1, <3>2, <3>3, <3>4 DEF KeyLogs
  <2>7. KeyPromise(k)'
    BY <1>b, <2>1, <2>2, <2>3 DEF KeyPromise
  <2> QED
    BY <1>5, <2>4, <2>6, <2>7 DEF RateInv
<1>7. CASE ~(Len(within) >= RequestLimit)
  <2> DEFINE log == Append(within, rateNow)
             ins == Append(admitted[k], rateNow)
  <2>1. /\ requestLog'[k] = log /\ admitted'[k] = ins /\ promised'[k] = NoPromise
        /\ requestLog' = [requestLog EXCEPT ![k] = log] /\ admitted' = [admitted EXCEPT ![k] = ins]
        /\ promised' = [promised EXCEPT ![k] = NoPromise]
    BY <1>7, <1>a, <1>c
  <2>2. /\ log \in Seq(Instants) /\ ins \in Seq(Instants)
        /\ Len(log) = Len(within) + 1 /\ Len(ins) = Len(admitted[k]) + 1 /\ Len(within) \in Nat
        /\ \A j \in 1..Len(within) : log[j] = within[j]
        /\ \A i \in 1..Len(admitted[k]) : ins[i] = admitted[k][i]
        /\ log[Len(within) + 1] = rateNow /\ ins[Len(admitted[k]) + 1] = rateNow
    <3>1. rateNow \in Instants
      BY <1>a DEF Instants
    <3> QED
      BY <1>a, <1>b, <3>1
  <2> HIDE DEF log, ins
  <2>3. RateTypeOK'
    BY <1>a, <2>1, <2>2 DEF RateTypeOK, Instants
  <2>4. Len(ins) - Len(log) = m + n /\ m + n \in Nat /\ Len(within) = Len(admitted[k]) - (m + n)
    BY <1>1, <1>a, <1>b, <2>2
  <2>5. Sorted(log) /\ \A j \in 1..Len(log) : log[j] <= rateNow
    <3>1. \A j \in 1..Len(log) : log[j] <= rateNow
      <4> SUFFICES ASSUME NEW j \in 1..Len(log) PROVE log[j] <= rateNow
        OBVIOUS
      <4>1. CASE j = Len(within) + 1
        BY <1>a, <2>2, <4>1
      <4>2. CASE j # Len(within) + 1
        <5>1. j \in 1..Len(within)
          BY <2>2, <4>2
        <5> QED
          BY <1>3, <2>2, <5>1
      <4> QED
        BY <4>1, <4>2
    <3>2. Sorted(log)
      <4> SUFFICES ASSUME NEW i \in 1..Len(log), NEW j \in 1..Len(log), i <= j
                   PROVE  log[i] <= log[j]
        BY DEF Sorted
      <4>1. CASE j = Len(within) + 1
        BY <2>2, <3>1, <4>1
      <4>2. CASE j # Len(within) + 1
        <5>1. i \in 1..Len(within) /\ j \in 1..Len(within)
          BY <2>2, <4>2
        <5> QED
          BY <1>b, <2>2, <5>1 DEF Sorted
      <4> QED
        BY <4>1, <4>2
    <3> QED
      BY <3>1, <3>2
  <2>6. \A j \in 1..Len(log) : log[j] = ins[m + n + j]
    <3> SUFFICES ASSUME NEW j \in 1..Len(log) PROVE log[j] = ins[m + n + j]
      OBVIOUS
    <3>1. CASE j = Len(within) + 1
      <4>0. m + n \in Nat /\ Len(within) = Len(admitted[k]) - (m + n) /\ Len(admitted[k]) \in Nat
        BY <1>a, <2>4
      <4>1. m + n + j = Len(admitted[k]) + 1
        BY ONLY <3>1, <4>0
      <4> QED
        BY <2>2, <3>1, <4>1
    <3>2. CASE j # Len(within) + 1
      <4>0. j \in 1..Len(within) /\ j \in Int /\ j >= 1 /\ j <= Len(within)
        BY <2>2, <3>2
      <4>a. m + n \in Nat /\ Len(within) = Len(admitted[k]) - (m + n) /\ Len(admitted[k]) \in Nat
        BY <1>a, <2>4
      <4>b. m + n + j \in 1..Len(admitted[k])
        BY ONLY <4>0, <4>a
      <4>1. j \in 1..Len(within) /\ m + n + j \in 1..Len(admitted[k])
        BY <4>0, <4>b
      <4> QED
        BY <1>3, <2>2, <4>1
    <3> QED
      BY <3>1, <3>2
  <2>7. \A i \in 1..(m + n) : ins[i] <= rateNow - WindowLength
    <3> SUFFICES ASSUME NEW i \in 1..(m + n) PROVE ins[i] <= rateNow - WindowLength
      OBVIOUS
    <3>1. i \in 1..Len(admitted[k])
      BY <1>a, <2>2, <2>4
    <3> QED
      BY <1>2, <2>2, <3>1
  \* The request RequestLimit places back is out of the log, and so out of the window.
  <2>8. \A i \in 1..(Len(ins) - RequestLimit) : ins[i + RequestLimit] >= ins[i] + WindowLength
    <3> SUFFICES ASSUME NEW i \in 1..(Len(ins) - RequestLimit)
                 PROVE  ins[i + RequestLimit] >= ins[i] + WindowLength
      OBVIOUS
    <3>0. i \in 1..Len(admitted[k]) /\ ins[i] = admitted[k][i] /\ admitted[k][i] \in Int
      <4>1. i \in 1..Len(admitted[k])
        BY <1>a, <2>2
      <4>2. admitted[k][i] \in Int
        BY <1>a, <4>1, LogInts
      <4> QED
        BY <2>2, <4>1, <4>2
    <3>1. CASE i = Len(ins) - RequestLimit
      <4>1. i + RequestLimit = Len(admitted[k]) + 1 /\ i \in 1..(m + n)
        BY <1>7, <1>a, <2>2, <2>4, <3>1
      <4>2. ins[i] <= rateNow - WindowLength
        BY <2>7, <4>1
      <4> QED
        BY <1>a, <2>2, <3>0, <4>1, <4>2
    <3>2. CASE i # Len(ins) - RequestLimit
      <4>1. i \in 1..(Len(admitted[k]) - RequestLimit) /\ i + RequestLimit \in 1..Len(admitted[k])
        <5>1. Len(ins) = Len(admitted[k]) + 1 /\ Len(admitted[k]) \in Nat /\ RequestLimit \in Nat \ {0}
          BY <1>a, <2>2
        <5> QED
          BY ONLY <3>2, <5>1, i \in 1..(Len(ins) - RequestLimit)
      <4> QED
        BY <1>1, <2>2, <3>0, <4>1
    <3> QED
      BY <3>1, <3>2
  <2>9. KeyLogs(k)'
    <3>1. Missing(k)' = m + n
      BY <2>1, <2>4 DEF Missing
    <3>2. Len(log) <= RequestLimit
      BY <1>7, <1>a, <2>2
    <3> QED
      BY <1>a, <2>1, <2>4, <2>5, <2>6, <2>7, <2>8, <3>1, <3>2 DEF KeyLogs
  <2>10. KeyPromise(k)'
    BY <2>1 DEF KeyPromise
  <2> QED
    BY <1>5, <2>3, <2>9, <2>10 DEF RateInv
<1> QED
  BY <1>6, <1>7

LEMMA Difference ==
  ASSUME NEW a \in Nat, NEW b \in Nat
  PROVE  a - b <= a /\ a - b \in Int
OBVIOUS

LEMMA RateStep == RateInv /\ [RateNext]_rateVars => RateInv'
<1> SUFFICES ASSUME RateInv, [RateNext]_rateVars PROVE RateInv'
  OBVIOUS
<1>1. ASSUME NEW k \in LimitedKeys, check(k) PROVE RateInv'
  BY <1>1, CheckInv
<1>2. CASE LimiterRestarts
  <2>0. <<>> \in Seq(0..RateTime) /\ Len(<<>>) = 0
    OBVIOUS
  <2>1. RateTypeOK'
    BY <1>2, <2>0 DEF LimiterRestarts, RateInv, RateTypeOK
  <2>2. ASSUME NEW k \in LimitedKeys PROVE KeyLogs(k)' /\ KeyPromise(k)'
    <3>1. requestLog'[k] = <<>> /\ admitted'[k] = <<>> /\ promised'[k] = NoPromise
      BY <1>2 DEF LimiterRestarts
    <3> QED
      BY <2>0, <3>1, RateAssumption DEF KeyLogs, KeyPromise, Sorted, Missing
  <2> QED
    BY <2>1, <2>2 DEF RateInv
<1>3. CASE RateClock
  <2>1. /\ rateNow \in Nat /\ rateNow' = rateNow + 1 /\ rateNow' \in 0..RateTime
        /\ UNCHANGED <<requestLog, admitted, promised>>
    BY <1>3, RateAssumption DEF RateClock, RateInv, RateTypeOK
  <2>2. RateTypeOK'
    BY <2>1 DEF RateInv, RateTypeOK
  <2>3. ASSUME NEW k \in LimitedKeys PROVE KeyLogs(k)' /\ KeyPromise(k)'
    <3>0. /\ requestLog[k] \in Seq(Instants) /\ admitted[k] \in Seq(Instants)
          /\ KeyLogs(k) /\ KeyPromise(k)
      BY DEF RateInv, RateTypeOK, Instants
    <3>a. /\ \A i \in 1..Len(requestLog[k]) : requestLog[k][i] \in Int
          /\ Missing(k) <= Len(admitted[k]) /\ Missing(k) \in Int
          /\ \A i \in 1..Len(admitted[k]) : admitted[k][i] \in Int
      <4>1. Len(requestLog[k]) \in Nat /\ Len(admitted[k]) \in Nat
        BY <3>0, LogInts
      <4>2. Missing(k) <= Len(admitted[k]) /\ Missing(k) \in Int
        BY <4>1, Difference DEF Missing
      <4> QED
        BY <3>0, <4>2, LogInts
    <3>1. \A i \in 1..Len(requestLog[k]) : requestLog[k][i] <= rateNow'
      <4> SUFFICES ASSUME NEW i \in 1..Len(requestLog[k]) PROVE requestLog[k][i] <= rateNow'
        OBVIOUS
      <4>1. requestLog[k][i] \in Int /\ requestLog[k][i] <= rateNow
        BY <3>0, <3>a DEF KeyLogs
      <4> QED
        BY <2>1, <4>1
    <3>2. \A i \in 1..Missing(k) : admitted[k][i] <= rateNow' - WindowLength
      <4> SUFFICES ASSUME NEW i \in 1..Missing(k) PROVE admitted[k][i] <= rateNow' - WindowLength
        OBVIOUS
      <4>1. admitted[k][i] \in Int
        BY <3>0, <3>a
      <4>2. admitted[k][i] <= rateNow - WindowLength
        BY <3>0 DEF KeyLogs
      <4> QED
        BY <2>1, <4>1, <4>2, RateAssumption
    <3> QED
      BY <2>1, <3>0, <3>1, <3>2 DEF KeyLogs, KeyPromise, Missing
  <2> QED
    BY <2>2, <2>3 DEF RateInv
<1>4. CASE UNCHANGED rateVars
  BY <1>4 DEF rateVars, RateInv, RateTypeOK, KeyLogs, KeyPromise, Missing
<1> QED
  BY <1>1, <1>2, <1>3, <1>4 DEF RateNext

LEMMA RateInvariant == RateSpec => []RateInv
BY RateInitInv, RateStep, PTL DEF RateSpec

\* Any RequestLimit + 1 requests of one key that are let through in one life of the
\* process span a window at least (api/rate-limiter.mjs:34-47).
THEOREM RatesKept == RateSpec => []RateKept
BY RateInvariant, RateInvImplies, PTL

\* Who was refused, comes back when told to and alone uses the key is let in: the
\* rounding to seconds sends nobody back too early (api/rate-limiter.mjs:36-46).
THEOREM RetriesHonoured == RateSpec => []RetryHonoured
BY RateInvariant, RateInvImplies, PTL

---------------------------------------------------------------------------
(* The summaries of the ledger.  An hour is settled when its row is what   *)
(* the ledger holds, or is one of those overlooked; before any hour that   *)
(* has a row every hour is settled, whatever pass wrote the row and        *)
(* whichever died.                                                         *)

Counted(h) == IF hourly[h] = NoCount THEN 0 ELSE hourly[h]
Settled(h) == spent[h] = Counted(h) \/ h \in overlooked
IsLast(last) ==
  /\ last \in 0..Hours
  /\ last # NoHour => hourly[last] # NoCount
  /\ \A h \in 1..Hours : hourly[h] # NoCount => h <= last

SummaryTypes ==
  /\ hour \in 1..Hours /\ passFrom \in 0..hour /\ overlooked \subseteq 1..Hours
  /\ spent \in [1..Hours -> Nat] /\ hourly \in [1..Hours -> Int]
  /\ \A h \in 1..Hours : h > hour => spent[h] = 0
  /\ \A h \in 1..Hours : hourly[h] # NoCount => hourly[h] \in 1..spent[h]
  /\ pass \in [step : {"idle", "listing", "hours", "days"}, began : 0..hour, last : Int,
               todo : SUBSET Int, any : BOOLEAN]
PassInv ==
  /\ pass.step = "listing" =>
       IsLast(pass.last) /\ (pass.last # NoHour => Settled(pass.last))
  /\ pass.step = "hours" =>
       /\ \A h \in pass.todo : h \in 1..Hours /\ spent[h] > 0
       /\ \A h \in (1..Hours) \ pass.todo :
            h < pass.began \/ (\E t \in pass.todo : h < t) => Settled(h)
  /\ pass.step = "days" => \A h \in 1..Hours : h < pass.began => Settled(h)
BeforeRows == \A x, h \in 1..Hours : hourly[x] # NoCount /\ h < x => Settled(h)
BeforePass == \A h \in 1..Hours : h < passFrom => Settled(h)
RollupInv == SummaryTypes /\ PassInv /\ BeforeRows /\ BeforePass

LEMMA GreatestIs ==
  ASSUME NEW S \in SUBSET (1..Hours)
  PROVE  Greatest(S) \in S \cup {0} /\ \A y \in S : y <= Greatest(S)
<1> DEFINE Above == {x \in 0..Hours : \A y \in S : y <= x}
<1>1. Hours \in Nat
  BY RollupAssumption
<1>2. Above \in SUBSET Nat /\ Hours \in Above
  BY <1>1
<1>3. PICK x \in Above : \A y \in Above : x <= y
  BY <1>2, LeastIs
<1>4. x \in S \cup {0}
  <2> SUFFICES ASSUME x \notin S, x # 0 PROVE FALSE
    OBVIOUS
  <2>1. x - 1 \in Above
    BY <1>1
  <2> QED
    BY <1>1, <1>3, <2>1
<1> QED
  BY <1>4 DEF Greatest

LEMMA LastIs == ASSUME SummaryTypes PROVE IsLast(getLastAggregatedHour)
<1> DEFINE S == {h \in 1..Hours : hourly[h] # NoCount}
<1>1. Greatest(S) \in S \cup {0} /\ \A y \in S : y <= Greatest(S)
  BY GreatestIs
<1>2. getLastAggregatedHour = Greatest(S)
  BY DEF getLastAggregatedHour
<1> HIDE DEF S
<1>3. S = {h \in 1..Hours : hourly[h] # NoCount}
  BY DEF S
<1> QED
  BY <1>1, <1>2, <1>3, RollupAssumption DEF IsLast, NoHour

LEMMA RollupInitInv == RollupInit => RollupInv
<1> SUFFICES ASSUME RollupInit PROVE RollupInv
  OBVIOUS
<1>1. /\ Hours \in Nat \ {0} /\ hour = 1 /\ passFrom = 0 /\ overlooked = {}
      /\ spent = [h \in 1..Hours |-> 0] /\ hourly = [h \in 1..Hours |-> -1]
      /\ pass = [step |-> "idle", began |-> 0, last |-> 0, todo |-> {}, any |-> FALSE]
  BY RollupAssumption DEF RollupInit, NoPass, NoHour, NoCount
<1>2. SummaryTypes
  BY <1>1 DEF SummaryTypes, NoCount
<1>3. PassInv
  BY <1>1 DEF PassInv
<1> QED
  BY <1>1, <1>2, <1>3 DEF RollupInv, BeforeRows, BeforePass, NoCount

\* Counting an hour again settles it, and unsettles no other.
LEMMA CountedAgain ==
  ASSUME SummaryTypes, NEW g \in 1..Hours, spent[g] > 0, aggregateHour(g), UNCHANGED spent
  PROVE  /\ hourly' = [hourly EXCEPT ![g] = spent[g]] /\ hourly' \in [1..Hours -> Int]
         /\ overlooked' = overlooked \ {g}
         /\ hourly'[g] = spent[g] /\ hourly'[g] # NoCount
         /\ \A h \in 1..Hours : h # g => hourly'[h] = hourly[h]
         /\ \A h \in 1..Hours : hourly'[h] # NoCount => hourly'[h] \in 1..spent'[h]
         /\ \A h \in 1..Hours : h = g \/ Settled(h) => Settled(h)'
<1>1. /\ hourly' = [hourly EXCEPT ![g] = spent[g]] /\ overlooked' = overlooked \ {g}
  BY DEF aggregateHour
<1>2. spent[g] \in Nat /\ spent[g] # NoCount
  BY DEF SummaryTypes, NoCount
<1>3. /\ hourly'[g] = spent[g] /\ \A h \in 1..Hours : h # g => hourly'[h] = hourly[h]
      /\ hourly' \in [1..Hours -> Int]
  BY <1>1, <1>2 DEF SummaryTypes
<1>4. \A h \in 1..Hours : h = g \/ Settled(h) => Settled(h)'
  BY <1>1, <1>2, <1>3 DEF Settled, Counted
<1>5. \A h \in 1..Hours : hourly'[h] # NoCount => hourly'[h] \in 1..spent'[h]
  BY <1>2, <1>3 DEF SummaryTypes
<1> QED
  BY <1>1, <1>2, <1>3, <1>4, <1>5

LEMMA SpendKeeps == RollupInv /\ AppendSpend => RollupInv'
<1> SUFFICES ASSUME RollupInv, AppendSpend PROVE RollupInv'
  OBVIOUS
<1> USE DEF RollupInv
<1>1. /\ spent' = [spent EXCEPT ![hour] = @ + 1]
      /\ overlooked' = IF pass.step = "listing" /\ pass.last = hour
                       THEN overlooked \cup {hour} ELSE overlooked
      /\ UNCHANGED <<hour, hourly, daily, pass, passDeaths, passFrom>>
  BY DEF AppendSpend
<1>2. /\ hour \in 1..Hours /\ Hours \in Nat
      /\ spent'[hour] = spent[hour] + 1 /\ spent[hour] \in Nat
      /\ \A h \in 1..Hours : h # hour => spent'[h] = spent[h]
      /\ spent' \in [1..Hours -> Nat]
  BY <1>1, RollupAssumption DEF SummaryTypes
<1>3. \A h \in 1..Hours : Settled(h) /\ h # hour => Settled(h)'
  BY <1>1, <1>2 DEF Settled, Counted
<1>4. \A h \in 1..Hours : hourly[h] # NoCount => h <= hour
  BY <1>2 DEF SummaryTypes
<1>5. SummaryTypes'
  <2>1. \A h \in 1..Hours : hourly'[h] # NoCount => hourly'[h] \in 1..spent'[h]
    BY <1>1, <1>2 DEF SummaryTypes
  <2>2. overlooked' \subseteq 1..Hours
    BY <1>1, <1>2 DEF SummaryTypes
  <2>3. \A h \in 1..Hours : h > hour' => spent'[h] = 0
    BY <1>1, <1>2 DEF SummaryTypes
  <2> QED
    BY <1>1, <1>2, <2>1, <2>2, <2>3 DEF SummaryTypes
<1>6. BeforeRows'
  BY <1>1, <1>2, <1>3, <1>4 DEF BeforeRows
<1>7. BeforePass'
  BY <1>1, <1>2, <1>3 DEF BeforePass, SummaryTypes
<1>8. PassInv'
  <2>1. CASE pass.step = "listing"
    <3>1. IsLast(pass.last)'
      BY <1>1, <2>1 DEF PassInv, IsLast
    <3>2. pass.last # NoHour => Settled(pass.last)'
      BY <1>1, <1>2, <1>3, <2>1 DEF PassInv, IsLast, Settled, NoHour
    <3> QED
      BY <1>1, <2>1, <3>1, <3>2 DEF PassInv
  <2>2. CASE pass.step = "hours"
    <3>1. \A h \in pass.todo : h \in 1..Hours /\ spent'[h] > 0 /\ h <= hour
      BY <1>1, <1>2, <2>2 DEF PassInv, SummaryTypes
    <3>2. pass.began <= hour /\ pass.began \in Int
      BY DEF SummaryTypes
    <3>3. ASSUME NEW h \in (1..Hours) \ pass.todo,
                 h < pass.began \/ \E t \in pass.todo : h < t
          PROVE  Settled(h)'
      <4>1. Settled(h)
        BY <2>2, <3>3 DEF PassInv
      <4>2. h # hour
        BY <1>2, <3>1, <3>2, <3>3
      <4> QED
        BY <1>3, <4>1, <4>2
    <3> QED
      BY <1>1, <2>2, <3>1, <3>3 DEF PassInv
  <2>3. CASE pass.step = "days"
    <3>1. pass.began <= hour /\ pass.began \in Int
      BY DEF SummaryTypes
    <3>2. ASSUME NEW h \in 1..Hours, h < pass.began
          PROVE  Settled(h)'
      BY <1>2, <1>3, <2>3, <3>1, <3>2 DEF PassInv
    <3> QED
      BY <1>1, <2>3, <3>2 DEF PassInv
  <2>4. CASE pass.step = "idle"
    BY <1>1, <2>4 DEF PassInv
  <2> QED
    BY <2>1, <2>2, <2>3, <2>4 DEF SummaryTypes
<1> QED
  BY <1>5, <1>6, <1>7, <1>8

LEMMA PassBegins == RollupInv /\ aggregatePendingWindows => RollupInv'
<1> SUFFICES ASSUME RollupInv, aggregatePendingWindows PROVE RollupInv'
  OBVIOUS
<1> USE DEF RollupInv
<1>0. PICK last : last = getLastAggregatedHour
  OBVIOUS
<1>1. /\ Recount(last) /\ UNCHANGED <<daily, passFrom, hour, spent, passDeaths>>
      /\ pass' = [NoPass EXCEPT !.step = "listing", !.began = hour, !.last = last]
  BY <1>0 DEF aggregatePendingWindows, Others
<1>2. pass' = [step |-> "listing", began |-> hour, last |-> last, todo |-> {}, any |-> FALSE]
  BY <1>1 DEF NoPass
<1>3. IsLast(last) /\ Hours \in Nat
  BY <1>0, LastIs, RollupAssumption
<1>4. pass' \in [step : {"idle", "listing", "hours", "days"}, began : 0..hour, last : Int,
                 todo : SUBSET Int, any : BOOLEAN]
  BY <1>2, <1>3 DEF IsLast, SummaryTypes
<1>5. CASE last = NoHour
  <2>1. UNCHANGED <<hourly, overlooked>>
    BY <1>1, <1>5 DEF Recount
  <2> QED
    BY <1>1, <1>2, <1>3, <1>4, <1>5, <2>1
       DEF SummaryTypes, PassInv, BeforeRows, BeforePass, IsLast, Settled, Counted
<1>6. CASE last # NoHour
  <2>1. aggregateHour(last) /\ last \in 1..Hours /\ hourly[last] # NoCount
    BY <1>1, <1>3, <1>6 DEF Recount, IsLast, NoHour
  <2>2. spent[last] > 0
    BY <2>1 DEF SummaryTypes
  <2>3. /\ hourly' \in [1..Hours -> Int] /\ overlooked' = overlooked \ {last}
        /\ hourly'[last] # NoCount
        /\ \A h \in 1..Hours : h # last => hourly'[h] = hourly[h]
        /\ \A h \in 1..Hours : hourly'[h] # NoCount => hourly'[h] \in 1..spent'[h]
        /\ \A h \in 1..Hours : h = last \/ Settled(h) => Settled(h)'
    BY <1>1, <2>1, <2>2, CountedAgain
  <2>4. SummaryTypes'
    BY <1>1, <1>4, <2>3 DEF SummaryTypes
  <2>5. IsLast(last)' /\ Settled(last)'
    BY <1>3, <2>1, <2>3 DEF IsLast
  <2>6. PassInv'
    BY <1>2, <2>5 DEF PassInv
  <2>7. BeforeRows' /\ BeforePass'
    BY <1>1, <2>1, <2>3 DEF BeforeRows, BeforePass
  <2> QED
    BY <2>4, <2>6, <2>7
<1> QED
  BY <1>5, <1>6

LEMMA HoursListed == RollupInv /\ ListHours => RollupInv'
<1> SUFFICES ASSUME RollupInv, ListHours PROVE RollupInv'
  OBVIOUS
<1> USE DEF RollupInv
<1>0. PICK pending : pending = {h \in 1..Hours : h > pass.last /\ spent[h] > 0}
  OBVIOUS
<1>a. pass' = [pass EXCEPT !.step = "hours", !.todo = pending, !.any = pending # {}]
  BY <1>0 DEF ListHours
<1>1. /\ pass.step = "listing"
      /\ UNCHANGED <<hourly, daily, passFrom, overlooked, hour, spent, passDeaths>>
  BY <1>0 DEF ListHours, Others
<1>2. /\ pass'.step = "hours" /\ pass'.todo = pending
      /\ pass' \in [step : {"idle", "listing", "hours", "days"}, began : 0..hour, last : Int,
                    todo : SUBSET Int, any : BOOLEAN]
  <2>1. PICK any \in BOOLEAN : any = (pending # {})
    OBVIOUS
  <2>2. pending \in SUBSET Int
    BY <1>0
  <2>3. pass' = [pass EXCEPT !.step = "hours", !.todo = pending, !.any = any]
    BY <1>a, <2>1
  <2>4. pass \in [step : {"idle", "listing", "hours", "days"}, began : 0..hour, last : Int,
                  todo : SUBSET Int, any : BOOLEAN]
    BY DEF SummaryTypes
  <2> QED
    BY <2>2, <2>3, <2>4
<1>3. SummaryTypes'
  BY <1>1, <1>2 DEF SummaryTypes
<1>4. ASSUME NEW h \in (1..Hours) \ pending
      PROVE  Settled(h)
  <2>1. IsLast(pass.last) /\ (pass.last # NoHour => Settled(pass.last))
    BY <1>1 DEF PassInv
  <2>2. CASE h <= pass.last
    BY <2>1, <2>2 DEF IsLast, BeforeRows, NoHour
  <2>3. CASE ~(h <= pass.last)
    <3>1. spent[h] = 0 /\ hourly[h] = NoCount
      BY <1>0, <2>1, <2>3 DEF IsLast, SummaryTypes
    <3> QED
      BY <3>1 DEF Settled, Counted
  <2> QED
    BY <2>2, <2>3
<1>5. PassInv'
  <2>1. \A h \in pass'.todo : h \in 1..Hours /\ spent'[h] > 0
    BY <1>0, <1>1, <1>2
  <2>2. \A h \in (1..Hours) \ pass'.todo : Settled(h)'
    BY <1>1, <1>2, <1>4 DEF Settled, Counted
  <2> QED
    BY <1>2, <2>1, <2>2 DEF PassInv
<1> QED
  BY <1>1, <1>3, <1>5 DEF BeforeRows, BeforePass, Settled, Counted

LEMMA HourCounted == RollupInv /\ AggregateNextHour => RollupInv'
<1> SUFFICES ASSUME RollupInv, AggregateNextHour PROVE RollupInv'
  OBVIOUS
<1> USE DEF RollupInv
<1>1. PICK g \in pass.todo : /\ IsNext(g) /\ aggregateHour(g)
                             /\ pass' = [pass EXCEPT !.todo = @ \ {g}]
  BY DEF AggregateNextHour
<1>2. pass.step = "hours" /\ UNCHANGED <<daily, passFrom, hour, spent, passDeaths>>
  BY DEF AggregateNextHour, Others
<1>3. g \in 1..Hours /\ spent[g] > 0 /\ \A h \in pass.todo : h \in 1..Hours /\ g <= h
  BY <1>1, <1>2 DEF PassInv, IsNext
<1>4. /\ hourly' \in [1..Hours -> Int] /\ overlooked' = overlooked \ {g}
      /\ hourly'[g] # NoCount
      /\ \A h \in 1..Hours : h # g => hourly'[h] = hourly[h]
      /\ \A h \in 1..Hours : hourly'[h] # NoCount => hourly'[h] \in 1..spent'[h]
      /\ \A h \in 1..Hours : h = g \/ Settled(h) => Settled(h)'
  BY <1>1, <1>2, <1>3, CountedAgain
<1>5. /\ pass'.step = "hours" /\ pass'.todo = pass.todo \ {g} /\ pass'.began = pass.began
      /\ pass' \in [step : {"idle", "listing", "hours", "days"}, began : 0..hour, last : Int,
                    todo : SUBSET Int, any : BOOLEAN]
  BY <1>1, <1>2 DEF SummaryTypes
<1>6. SummaryTypes'
  BY <1>2, <1>4, <1>5 DEF SummaryTypes
<1>7. \A h \in 1..Hours : h < g => Settled(h)
  BY <1>1, <1>2, <1>3 DEF PassInv
<1>8. BeforeRows' /\ BeforePass'
  BY <1>2, <1>3, <1>4, <1>7 DEF BeforeRows, BeforePass
<1>9. PassInv'
  <2>1. \A h \in pass'.todo : h \in 1..Hours /\ spent'[h] > 0
    BY <1>2, <1>5 DEF PassInv
  <2>2. ASSUME NEW h \in (1..Hours) \ pass'.todo,
               h < pass'.began \/ \E t \in pass'.todo : h < t
        PROVE  Settled(h)'
    <3>1. h # g => Settled(h)
      BY <1>2, <1>5, <2>2 DEF PassInv
    <3> QED
      BY <1>4, <3>1
  <2> QED
    BY <1>5, <2>1, <2>2 DEF PassInv
<1> QED
  BY <1>6, <1>8, <1>9

LEMMA RollupStep == RollupInv /\ [RollupNext]_rollupVars => RollupInv'
<1> SUFFICES ASSUME RollupInv, [RollupNext]_rollupVars PROVE RollupInv'
  OBVIOUS
<1> USE DEF RollupInv
<1>1. CASE HourPasses
  <2>1. /\ hour < Hours /\ hour' = hour + 1 /\ hour \in 1..Hours
        /\ UNCHANGED <<spent, hourly, daily, pass, passDeaths, passFrom, overlooked>>
    BY <1>1 DEF HourPasses, SummaryTypes
  <2>2. SummaryTypes'
    <3>1. passFrom' \in 0..hour' /\ hour' \in 1..Hours
      BY <2>1, RollupAssumption DEF SummaryTypes
    <3>2. pass'.began \in 0..hour' /\ 0..hour \subseteq 0..hour'
      BY <2>1, RollupAssumption DEF SummaryTypes
    <3>3. pass' \in [step : {"idle", "listing", "hours", "days"}, began : 0..hour', last : Int,
                     todo : SUBSET Int, any : BOOLEAN]
      BY <2>1, <3>2 DEF SummaryTypes
    <3> QED
      BY <2>1, <3>1, <3>3, RollupAssumption DEF SummaryTypes
  <2> QED
    BY <2>1, <2>2 DEF PassInv, BeforeRows, BeforePass, IsLast, Settled, Counted
<1>2. CASE AppendSpend
  BY <1>2, SpendKeeps
<1>3. CASE aggregatePendingWindows
  BY <1>3, PassBegins
<1>4. CASE ListHours
  BY <1>4, HoursListed
<1>5. CASE AggregateNextHour
  BY <1>5, HourCounted
<1>6. CASE ListDays
  <2>0. PICK pending : pending = {Day(h) : h \in {x \in 1..Hours : /\ hourly[x] # NoCount
                                                       /\ Day(x) > getLastAggregatedDay}}
    OBVIOUS
  <2>1. /\ pass.step = "hours" /\ pass.todo = {}
        /\ pass' = [pass EXCEPT !.step = "days", !.todo = pending]
        /\ UNCHANGED <<hourly, daily, passFrom, overlooked, hour, spent, passDeaths>>
    BY <1>6, <2>0 DEF ListDays, Others
  <2>2. pending \in SUBSET Int
    <3>1. \A h \in 1..Hours : Day(h) \in Int
      BY RollupAssumption DEF Day
    <3> QED
      BY <2>0, <3>1
  <2>3. /\ pass'.step = "days" /\ pass'.began = pass.began
        /\ pass' \in [step : {"idle", "listing", "hours", "days"}, began : 0..hour, last : Int,
                      todo : SUBSET Int, any : BOOLEAN]
    BY <2>1, <2>2 DEF SummaryTypes
  <2>4. SummaryTypes'
    BY <2>1, <2>3 DEF SummaryTypes
  <2>5. PassInv'
    BY <2>1, <2>3 DEF PassInv, Settled, Counted
  <2> QED
    BY <2>1, <2>4, <2>5 DEF BeforeRows, BeforePass, Settled, Counted
<1>7. CASE aggregateDay
  <2>1. PICK d \in pass.todo : pass' = [pass EXCEPT !.todo = @ \ {d}]
    BY <1>7 DEF aggregateDay
  <2>2. /\ pass.step = "days"
        /\ UNCHANGED <<hourly, passFrom, overlooked, hour, spent, passDeaths>>
    BY <1>7 DEF aggregateDay, Others
  <2>3. /\ pass'.step = "days" /\ pass'.began = pass.began
        /\ pass' \in [step : {"idle", "listing", "hours", "days"}, began : 0..hour, last : Int,
                      todo : SUBSET Int, any : BOOLEAN]
    BY <2>1, <2>2 DEF SummaryTypes
  <2>4. SummaryTypes'
    BY <2>2, <2>3 DEF SummaryTypes
  <2> QED
    BY <2>2, <2>3, <2>4 DEF PassInv, BeforeRows, BeforePass, Settled, Counted
<1>8. CASE PassEnds
  <2>1. /\ pass.step \in {"hours", "days"} /\ pass.todo = {}
        /\ pass' = [step |-> "idle", began |-> 0, last |-> 0, todo |-> {}, any |-> FALSE]
        /\ passFrom' = pass.began
        /\ UNCHANGED <<hourly, daily, overlooked, hour, spent, passDeaths>>
    BY <1>8 DEF PassEnds, Others, NoPass, NoHour
  <2>2. SummaryTypes'
    BY <2>1 DEF SummaryTypes
  <2>3. PassInv' /\ BeforeRows'
    BY <2>1 DEF PassInv, BeforeRows, Settled, Counted
  <2>4. BeforePass'
    BY <2>1 DEF PassInv, BeforePass, Settled, Counted
  <2> QED
    BY <2>2, <2>3, <2>4
<1>9. CASE PassDies
  <2>1. /\ pass' = [step |-> "idle", began |-> 0, last |-> 0, todo |-> {}, any |-> FALSE]
        /\ UNCHANGED <<hour, spent, hourly, daily, passFrom, overlooked>>
    BY <1>9 DEF PassDies, NoPass, NoHour
  <2>2. SummaryTypes'
    BY <2>1 DEF SummaryTypes
  <2> QED
    BY <2>1, <2>2 DEF PassInv, BeforeRows, BeforePass, Settled, Counted
<1>10. CASE UNCHANGED rollupVars
  BY <1>10 DEF rollupVars, SummaryTypes, PassInv, IsLast, BeforeRows, BeforePass, Settled,
               Counted
<1> QED
  BY <1>1, <1>2, <1>3, <1>4, <1>5, <1>6, <1>7, <1>8, <1>9, <1>10 DEF RollupNext

LEMMA RollupInvImplies == RollupInv => RollupTypeOK /\ HourlyExact
<1> SUFFICES ASSUME RollupInv PROVE RollupTypeOK /\ HourlyExact
  OBVIOUS
<1>1. RollupTypeOK
  BY DEF RollupInv, SummaryTypes, RollupTypeOK
<1>2. HourlyExact
  BY DEF RollupInv, BeforePass, Settled, Counted, HourlyExact
<1> QED
  BY <1>1, <1>2

\* Once a pass has gone through, the summary of every hour that was over when it began is
\* what the ledger holds, for any hours, events, passes and deaths of the daemon.
THEOREM SummariesExact == RollupSpec => []HourlyExact
<1>1. RollupSpec => []RollupInv
  BY RollupInitInv, RollupStep, PTL DEF RollupSpec
<1> QED
  BY <1>1, RollupInvImplies, PTL

-----------------------------------------------------------------------------
(* The types of the routing and of the catalogue of models.                *)

LEMMA MaxAmong ==
  ASSUME NEW i \in Int, NEW j \in Int, NEW k \in Int
  PROVE  Max({i, j, k}) \in {i, j, k}
<1> DEFINE S == {i, j, k}
<1>1. \E x \in S : \A y \in S : x >= y
  OBVIOUS
<1>2. Max(S) \in S
  BY <1>1 DEF Max
<1> QED
  BY <1>2

LEMMA TierInRange == ASSUME NEW ask \in Asks PROVE effectiveTier(ask) \in 1..TopTier
<1>a. TopTier \in Nat /\ TopTier > 0
  BY RoutingAssumption
<1> DEFINE g == ask.signals
           top == complexityTier(g)
<1>1. g \in [explicit : 0..TopTier, inferred : 0..TopTier, numeric : 1..TopTier]
  BY RoutingAssumption DEF Asks
<1>2. g.explicit \in 0..TopTier /\ g.inferred \in 0..TopTier /\ g.numeric \in 1..TopTier
  BY <1>1
<1>3. top \in 1..TopTier
  <2>1. top \in {g.explicit, g.inferred, g.numeric} /\ top >= g.numeric
    <3> DEFINE e == g.explicit
               i == g.inferred
               n == g.numeric
    <3>1. e \in Int /\ i \in Int /\ n \in Int
      BY <1>a, <1>2
    <3>2. top = Max({e, i, n})
      BY DEF complexityTier
    <3> HIDE DEF e, i, n, top
    <3>3. top \in {e, i, n} /\ top >= n
      BY <3>1, <3>2, MaxAmong, MaxOfThree
    <3> QED
      BY <3>3 DEF e, i, n
  <2> HIDE DEF top, g
  <2> QED
    BY <1>a, <1>2, <2>1
<1> HIDE DEF top, g
<1>4. effectiveTier(ask) \in {top, Max({1, top - 1})}
  BY DEF effectiveTier, top, g
<1>5. Max({1, top - 1}) \in 1..TopTier
  <2> DEFINE below == top - 1
  <2>1. below \in Int /\ below < TopTier
    BY <1>a, <1>3
  <2>2. {1, below} = {1, below, below}
    OBVIOUS
  <2> HIDE DEF below
  <2>3. Max({1, below, below}) \in {1, below, below} /\ Max({1, below, below}) >= 1
    BY <2>1, MaxAmong, MaxOfThree
  <2>4. Max({1, below}) \in 1..TopTier
    BY <1>a, <2>1, <2>2, <2>3
  <2> QED
    BY <2>4 DEF below
<1> QED
  BY <1>3, <1>4, <1>5

TurnBounds ==
  plans \in 0..MaxPlans /\ \A a \in RoutedAgents : dispatch[a].tier \in 0..TopTier

LEMMA TurnBoundsStep == ASSUME RoutingInv, TurnBounds, [RoutingNext]_routingVars PROVE TurnBounds'
<1>a. 0 \in 0..TopTier /\ 1..TopTier \subseteq 0..TopTier /\ NoTurn.tier = 0
  BY RoutingAssumption DEF NoTurn
<1>1. CASE planRun
  <2>1. PICK asked \in [RoutedAgents -> Asks] :
           dispatch' = IF \E a \in RoutedAgents : Throws(asked[a])
                       THEN [a \in RoutedAgents |-> [NoTurn EXCEPT !.phase = "thrown"]]
                       ELSE [a \in RoutedAgents |-> decide(asked[a])]
    BY <1>1 DEF planRun
  <2>2. [NoTurn EXCEPT !.phase = "thrown"].tier = 0
    BY DEF NoTurn
  <2>3. \A ask \in Asks : decide(ask).tier \in 0..TopTier
    BY <1>a, DecideFacts, TierInRange
  <2>4. \A a \in RoutedAgents : dispatch'[a].tier \in 0..TopTier
    BY <1>a, <2>1, <2>2, <2>3
  <2>5. plans' \in 0..MaxPlans
    BY <1>1, RoutingAssumption DEF planRun, TurnBounds
  <2> QED
    BY <2>4, <2>5 DEF TurnBounds
<1>2. ASSUME NEW a \in RoutedAgents, launch(a)
      PROVE  TurnBounds'
  <2>1. /\ dispatch[a] \in Turns /\ plans' = plans
        /\ \A b \in RoutedAgents : b # a => dispatch'[b] = dispatch[b]
        /\ \/ dispatch'[a] = [dispatch[a] EXCEPT !.phase = "running", !.found = LookedUp(dispatch[a]),
                                                 !.pays = Pays(dispatch[a])]
           \/ dispatch'[a] = [dispatch[a] EXCEPT !.phase = "failed"]
    BY <1>2 DEF launch, RoutingInv
  <2>2. dispatch'[a].tier = dispatch[a].tier
    BY <2>1 DEF Turns
  <2> QED
    BY <2>1, <2>2 DEF TurnBounds
<1>3. ASSUME NEW a \in RoutedAgents, RunOver(a)
      PROVE  TurnBounds'
  <2>1. /\ dispatch'[a] = NoTurn /\ plans' = plans
        /\ \A b \in RoutedAgents : b # a => dispatch'[b] = dispatch[b]
    BY <1>3 DEF RunOver, RoutingInv
  <2> QED
    BY <1>a, <2>1 DEF TurnBounds
<1>4. ASSUME UNCHANGED <<dispatch, plans>>
      PROVE  TurnBounds'
  BY <1>4 DEF TurnBounds
<1> QED
  BY <1>1, <1>2, <1>3, <1>4 DEF RoutingNext, routingVars, EditProviders

LEMMA RoutingTypes == RoutingSpec => []RoutingTypeOK
<1> DEFINE Inv == RoutingInv /\ TurnBounds
<1>1. RoutingInit => Inv
  <2>1. RoutingInit => TurnBounds
    BY RoutingAssumption DEF RoutingInit, TurnBounds, NoTurn
  <2> QED
    BY <2>1, RoutingInitInv
<1>2. Inv /\ [RoutingNext]_routingVars => Inv'
  BY RoutingStep, TurnBoundsStep
<1>3. Inv => RoutingTypeOK
  <2> SUFFICES ASSUME Inv PROVE RoutingTypeOK
    OBVIOUS
  <2>1. \A a \in RoutedAgents : dispatch[a] \in Turns
    BY DEF RoutingInv
  <2> QED
    BY <2>1 DEF RoutingTypeOK, RoutingInv, TurnBounds, Turns
<1> QED
  BY <1>1, <1>2, <1>3, PTL DEF RoutingSpec

-----------------------------------------------------------------------------
\* What was never listed has no row, and is on no job's list.
AbsentInv ==
  /\ \A m \in Listings : model[m].status = "absent" => model[m].tier = "none"
  /\ \A m \in Listings : lastAnswer[m] = "none" => model[m].status = "absent"
  /\ \A j \in Jobs : \A m \in job[j].left : lastAnswer[m] # "none"

LEMMA AbsentStep == ASSUME CatalogInv, AbsentInv, [CatalogNext]_catalogVars PROVE AbsentInv'
<1>a. /\ model \in [Listings -> [status : {"absent", "offered", "deprecated"},
                                 tier : ModelTiers \cup {"none"}]]
      /\ \A j \in Jobs : job[j].left \subseteq Listings
      /\ DOMAIN job = Jobs /\ job = [j \in Jobs |-> job[j]]
  BY DEF CatalogInv, ModelsInv
<1>1. ASSUME UNCHANGED <<model, lastAnswer>>,
             \A j \in Jobs : \A m \in job'[j].left : m \in job[j].left \/ model[m].status # "absent",
             \A j \in Jobs : job'[j].left \subseteq Listings
      PROVE  AbsentInv'
  BY <1>1 DEF AbsentInv
<1>2. ASSUME NEW rows \in SUBSET Offered, NEW j \in Jobs, NEW tier, Assign(j, rows, tier),
             \A i \in Jobs : job'[i].left = job[i].left
      PROVE  AbsentInv'
  <2>1. /\ \A m \in Listings : model'[m].status = model[m].status
        /\ \A m \in Listings : model[m].status = "absent" => model'[m].tier = model[m].tier
    BY <1>a, <1>2 DEF Assign, Offered
  <2> QED
    BY <1>2, <2>1 DEF AbsentInv, Assign
<1>3. ASSUME NEW j \in Jobs, NEW m \in job[j].left, model' = [model EXCEPT ![m] = Upserted(@)],
             job' = [job EXCEPT ![j].left = @ \ {m}], lastAnswer' = lastAnswer
      PROVE  AbsentInv'
  <2>1. /\ m \in Listings /\ lastAnswer[m] # "none"
        /\ model'[m].status = "offered"
        /\ \A n \in Listings \ {m} : model'[n] = model[n]
    BY <1>a, <1>3 DEF AbsentInv, Upserted
  <2>2. \A i \in Jobs : job'[i].left \subseteq job[i].left
    BY <1>a, <1>3
  <2> QED
    BY <1>3, <2>1, <2>2 DEF AbsentInv
<1>4. ASSUME NEW j \in Jobs, discoverAllModels(j) \/ JobDies(j)
      PROVE  AbsentInv'
  <2>1. \A i \in Jobs : job'[i].left \subseteq job[i].left
    BY <1>a, <1>4 DEF discoverAllModels, JobDies, NoJob
  <2> QED
    BY <1>1, <1>4, <1>a, <2>1 DEF discoverAllModels, JobDies
<1>5. ASSUME NEW j \in Jobs, markUnseenAsDeprecated(j)
      PROVE  AbsentInv'
  <2>1. \A i \in Jobs : job'[i].left \subseteq job[i].left
    BY <1>a, <1>5 DEF markUnseenAsDeprecated, NoJob
  <2>2. /\ \A m \in Listings : model'[m].tier = model[m].tier
        /\ \A m \in Listings : model'[m].status = "absent" <=> model[m].status = "absent"
    <3>1. \A m \in Unseen(job[j].provider, job[j].seen) : model[m].status = "offered"
      BY DEF Unseen, Offered
    <3> QED
      BY <1>a, <1>5, <3>1 DEF markUnseenAsDeprecated
  <2> QED
    BY <1>5, <2>1, <2>2 DEF AbsentInv, markUnseenAsDeprecated
<1>6. ASSUME NEW j \in Jobs, assignBest(j)
      PROVE  AbsentInv'
  <2>1. \A i \in Jobs : job'[i].left = job[i].left
    BY <1>a, <1>6 DEF assignBest, CatalogInv, ModelsInv
  <2> QED
    BY <1>2, <1>6, <2>1 DEF assignBest
<1>7. ASSUME NEW j \in Jobs, assignQuick(j)
      PROVE  AbsentInv'
  <2>1. \A i \in Jobs : job'[i].left = job[i].left
    BY <1>a, <1>7 DEF assignQuick, CatalogInv, ModelsInv
  <2>2. PICK cheap \in SUBSET Untiered :
          Assign(j, {m \in Untiered : WindowOf[m] = "small"} \cup cheap, "quick")
    BY <1>7 DEF assignQuick
  <2>3. {m \in Untiered : WindowOf[m] = "small"} \cup cheap \in SUBSET Offered
    BY DEF Untiered
  <2> QED
    BY <1>2, <2>1, <2>2, <2>3
<1>8. ASSUME NEW j \in Jobs, assignMedium(j)
      PROVE  AbsentInv'
  <2>1. \A i \in Jobs : job'[i].left = job[i].left
    BY <1>a, <1>8 DEF assignMedium, CatalogInv, ModelsInv
  <2>2. Untiered \in SUBSET Offered
    BY DEF Untiered
  <2> QED
    BY <1>2, <1>8, <2>1, <2>2 DEF assignMedium
<1>9. ASSUME NEW j \in Jobs, refreshAllModelPricing(j)
      PROVE  AbsentInv'
  <2>1. job' = [job EXCEPT ![j] = [NoJob EXCEPT !.at = "pricing", !.left = Offered]]
    BY <1>9 DEF refreshAllModelPricing, OnOffer
  <2>2. \A i \in Jobs : job'[i].left = job[i].left \/ job'[i].left = Offered
    BY <1>a, <2>1 DEF NoJob
  <2>3. \A m \in Offered : m \in Listings /\ model[m].status # "absent"
    BY DEF Offered
  <2> QED
    BY <1>1, <1>a, <1>9, <2>2, <2>3 DEF refreshAllModelPricing
<1>10. ASSUME NEW j \in Jobs, NEW p \in Sources, AnswersNothing(j, p)
       PROVE  AbsentInv'
  <2>1. \A i \in Jobs : job'[i].left = job[i].left
    BY <1>a, <1>10 DEF AnswersNothing, CatalogInv, ModelsInv
  <2> QED
    BY <1>1, <1>a, <1>10, <2>1 DEF AnswersNothing
<1>11. ASSUME NEW j \in Jobs, NEW p \in Sources, NEW answer \in (SUBSET RowsOf(p)) \ {{}},
              Answers(j, p, answer)
       PROVE  AbsentInv'
  <2>1. /\ model' = model
        /\ \A m \in Listings : lastAnswer'[m] = "none" => lastAnswer[m] = "none"
        /\ \A m \in answer : m \in Listings /\ lastAnswer'[m] = "seen"
    BY <1>11 DEF Answers, RowsOf
  <2>2. job'[j].left = answer /\ \A i \in Jobs : i # j => job'[i] = job[i]
    BY <1>a, <1>11 DEF Answers
  <2> QED
    BY <1>a, <2>1, <2>2 DEF AbsentInv
<1>12. ASSUME NEW j \in Jobs, NEW m \in Listings, upsertModel(j, m) \/ PriceModel(j, m)
       PROVE  AbsentInv'
  BY <1>3, <1>12 DEF upsertModel, PriceModel
<1>13. ASSUME NEW j \in Jobs, NEW m \in Listings, PassOver(j, m)
       PROVE  AbsentInv'
  <2>1. \A i \in Jobs : job'[i].left \subseteq job[i].left
    BY <1>a, <1>13 DEF PassOver
  <2> QED
    BY <1>1, <1>a, <1>13, <2>1 DEF PassOver
<1>14. ASSUME NEW m \in Listings, NEW tier \in ModelTiers, setTier(m[2], tier)
       PROVE  AbsentInv'
  <2>1. /\ \A n \in Listings : model'[n].status = model[n].status
        /\ \A n \in Listings : model[n].status = "absent" => model'[n] = model[n]
        /\ UNCHANGED <<job, lastAnswer>>
    BY <1>a, <1>14 DEF setTier
  <2> QED
    BY <2>1 DEF AbsentInv
<1>15. CASE UNCHANGED catalogVars
  BY <1>15 DEF catalogVars, AbsentInv
<1> QED
  BY <1>4, <1>5, <1>6, <1>7, <1>8, <1>9, <1>10, <1>11, <1>12, <1>13, <1>14, <1>15 DEF CatalogNext

\* A provider that answered listed something.
SeenInv == \A j \in Jobs : job[j].at = "writing" => job[j].seen # {}

LEMMA SeenStep == ASSUME CatalogInv, SeenInv, [CatalogNext]_catalogVars PROVE SeenInv'
<1>a. job \in [Jobs -> [at : Places,
                        pending : SUBSET Sources, provider : Sources \cup {"none"},
                        left : SUBSET Listings, seen : SUBSET Listings]]
  BY DEF CatalogInv, ModelsInv
<1>1. ASSUME NEW j \in Jobs, \A i \in Jobs \ {j} : job'[i] = job[i],
             \/ job'[j].at # "writing"
             \/ job'[j].at = job[j].at /\ job'[j].seen = job[j].seen
             \/ job'[j].seen # {}
      PROVE  SeenInv'
  BY <1>1 DEF SeenInv
<1>2. ASSUME NEW j \in Jobs, discoverAllModels(j) \/ refreshAllModelPricing(j) \/ JobDies(j)
      PROVE  SeenInv'
  BY <1>a, <1>1, <1>2 DEF discoverAllModels, refreshAllModelPricing, JobDies, NoJob
<1>3. ASSUME NEW j \in Jobs, markUnseenAsDeprecated(j)
      PROVE  SeenInv'
  BY <1>a, <1>1, <1>3 DEF markUnseenAsDeprecated, NoJob
<1>4. ASSUME NEW j \in Jobs, assignBest(j) \/ assignQuick(j) \/ assignMedium(j)
      PROVE  SeenInv'
  <2>1. /\ job'[j].at # "writing"
        /\ \A i \in Jobs \ {j} : job'[i] = job[i]
    BY <1>a, <1>4 DEF assignBest, assignQuick, assignMedium
  <2> QED
    BY <1>1, <2>1
<1>5. ASSUME NEW j \in Jobs, NEW p \in Sources, AnswersNothing(j, p)
      PROVE  SeenInv'
  BY <1>a, <1>1, <1>5 DEF AnswersNothing
<1>6. ASSUME NEW j \in Jobs, NEW p \in Sources, NEW answer \in (SUBSET RowsOf(p)) \ {{}},
             Answers(j, p, answer)
      PROVE  SeenInv'
  <2> DEFINE asked == [at |-> "writing", pending |-> job[j].pending \ {p}, provider |-> p,
                       left |-> answer, seen |-> answer]
  <2>0. job' = [job EXCEPT ![j] = asked] /\ asked.seen = answer
    BY <1>6 DEF Answers
  <2> HIDE DEF asked
  <2>1. /\ job'[j].seen = answer
        /\ \A i \in Jobs \ {j} : job'[i] = job[i]
    BY <1>a, <2>0
  <2>2. answer # {}
    OBVIOUS
  <2> QED
    BY <1>1, <2>1, <2>2
<1>7. ASSUME NEW j \in Jobs, NEW m \in Listings,
             upsertModel(j, m) \/ PriceModel(j, m) \/ PassOver(j, m)
      PROVE  SeenInv'
  BY <1>a, <1>1, <1>7 DEF upsertModel, PriceModel, PassOver
<1>8. CASE UNCHANGED job
  BY <1>8 DEF SeenInv
<1>9. ASSUME NEW m \in Listings, NEW tier \in ModelTiers, setTier(m[2], tier)
      PROVE  SeenInv'
  BY <1>8, <1>9 DEF setTier
<1> QED
  BY <1>2, <1>3, <1>4, <1>5, <1>6, <1>7, <1>8, <1>9 DEF CatalogNext, catalogVars

LEMMA CatalogTypes == CatalogSpec => []CatalogTypeOK
<1> DEFINE Inv == CatalogInv /\ AbsentInv /\ SeenInv
<1>1. CatalogInit => Inv
  <2> SUFFICES ASSUME CatalogInit PROVE Inv
    OBVIOUS
  <2>1. PICK known \in {{}, Listings} :
          /\ model = [m \in Listings |-> IF m \in known THEN Earlier(m) ELSE NoModel]
          /\ lastAnswer = [m \in Listings |-> IF m \in known THEN "seen" ELSE "none"]
    BY DEF CatalogInit
  <2>2. \A j \in Jobs : job[j].left = {}
    BY DEF CatalogInit, NoJob
  <2>3. AbsentInv
    BY <2>1, <2>2 DEF AbsentInv, Earlier, NoModel
  <2>4. SeenInv
    BY DEF CatalogInit, SeenInv, NoJob
  <2> QED
    BY <2>3, <2>4, CatalogInitInv
<1>2. Inv /\ [CatalogNext]_catalogVars => Inv'
  BY CatalogStep, AbsentStep, SeenStep
<1>3. Inv => CatalogTypeOK
  <2> SUFFICES ASSUME Inv PROVE CatalogTypeOK
    OBVIOUS
  <2>1. \A m \in Listings : /\ model[m].status \in {"absent", "offered", "deprecated"}
                            /\ model[m].tier \in ModelTiers \cup {"none"}
    BY DEF CatalogInv, ModelsInv
  <2>2. \A j \in Jobs : job[j].left \subseteq Listings /\ job[j].pending \subseteq Sources
    BY DEF CatalogInv, ModelsInv
  <2>3. \A j \in Jobs : job[j].at = "writing" =>
          /\ job[j].seen \in (SUBSET RowsOf(job[j].provider)) \ {{}}
          /\ job[j].left \subseteq job[j].seen
    <3>1. WritersInv /\ SeenInv
      BY DEF CatalogInv
    <3>2. \A j \in Jobs : job[j].at = "writing" =>
            /\ job[j].seen \subseteq RowsOf(job[j].provider) /\ job[j].seen # {}
            /\ job[j].left \subseteq job[j].seen
      BY <3>1 DEF WritersInv, SeenInv
    <3>3. \A S, T : S \subseteq T /\ S # {} => S \in (SUBSET T) \ {{}}
      OBVIOUS
    <3> QED
      BY <3>2, <3>3
  <2>4. \A m \in Listings : /\ model[m].status = "absent" => model[m].tier = "none"
                            /\ lastAnswer[m] = "none" => model[m].status = "absent"
    BY DEF AbsentInv
  <2> QED
    BY <2>1, <2>2, <2>3, <2>4 DEF CatalogTypeOK
<1> QED
  BY <1>1, <1>2, <1>3, PTL DEF CatalogSpec
=============================================================================

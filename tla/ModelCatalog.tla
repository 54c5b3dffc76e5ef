---------------------------- MODULE ModelCatalog ----------------------------
(***************************************************************************)
(* The catalogue of discovered models (model-registry.mjs) and those who   *)
(* write it: discoveries (model-discovery.mjs), which ask every provider   *)
(* at once and write each answer as it comes; refreshes of the prices      *)
(* (pricing-refresh.mjs), which list the models first and then wait before *)
(* each; and the founder, who sets tiers (api/v1/models.mjs).              *)
(*                                                                         *)
(* A job is a process of its own: a command, or the dashboard serving a    *)
(* request.  Every statement is a transaction of its own.  A row is named  *)
(* by its provider and its model_id.  Of a model's data only its window is *)
(* kept, which the adapters look up; that its price is low is left open.   *)
(***************************************************************************)
EXTENDS Integers, FiniteSets

CONSTANTS
    Listings,      \* <<provider, model_id>>: what providers may ever list
    WindowOf,      \* Listings -> "large", "small", or "other": between, or not known
    MaxJobs,       \* bound: discoveries and refreshes ever begun
    MaxTierSets,   \* bound: requests to set a tier
    MaxJobDeaths   \* bound: processes killed at work

ASSUME CatalogAssumption == MaxJobs \in Nat

Jobs == 1..MaxJobs
Sources == {m[1] : m \in Listings}
RowsOf(p) == {m \in Listings : m[1] = p}
ModelTiers == {"quick", "medium", "best"}

VARIABLES
    model,       \* model_registry: status and tier_assigned
    job,         \* each job: where it is, providers it waits for, the one whose
                 \* answer it writes, the rows left to write, those the answer has
    tierSets, jobDeaths,  \* the counters that are bounded
    lastAnswer,  \* history: whether the last answer of its provider had the model
    disputed,    \* history: rows that two discoveries wrote at once, or one left half-way
    missedSince, \* history: rows marked deprecated since a refresh listed them
    revived,     \* history: rows a refresh brought back that way
    chosen       \* history: the tier the founder set last

catalogVars == <<model, job, tierSets, jobDeaths, lastAnswer, disputed, missedSince, revived, chosen>>

NoJob == [at |-> "idle", pending |-> {}, provider |-> "none", left |-> {}, seen |-> {}]
NoModel == [status |-> "absent", tier |-> "none"]

Offered == {m \in Listings : model[m].status = "offered"}
Untiered == {m \in Offered : model[m].tier = "none"}

\* What the catalogue holds of an earlier discovery, which gave every model a tier.
Earlier(m) ==
    [status |-> "offered",
     tier |-> IF WindowOf[m] = "large" THEN "best"
              ELSE IF WindowOf[m] = "small" THEN "quick" ELSE "medium"]

CatalogInit ==
    /\ \E known \in {{}, Listings} :
          /\ model = [m \in Listings |-> IF m \in known THEN Earlier(m) ELSE NoModel]
          /\ lastAnswer = [m \in Listings |-> IF m \in known THEN "seen" ELSE "none"]
    /\ job = [j \in Jobs |-> NoJob]
    /\ tierSets = 0 /\ jobDeaths = 0
    /\ disputed = {}
    /\ missedSince = [j \in Jobs |-> {}]
    /\ revived = {}
    /\ chosen = [m \in Listings |-> "none"]

\* Jobs are numbered in the order they begin.
MayBegin(j) == job[j].at = "idle" /\ \A i \in 1..j - 1 : job[i].at # "idle"

---------------------------------------------------------------------------
(* A discovery.                                                            *)

discoverAllModels(j) ==
    /\ MayBegin(j)
    /\ job' = [job EXCEPT ![j] = [NoJob EXCEPT !.at = "asking", !.pending = Sources]]
    /\ UNCHANGED <<model, tierSets, jobDeaths, lastAnswer, disputed, missedSince, revived, chosen>>

\* The provider threw, or its adapter had an error or nothing to list: the rows stay.
AnswersNothing(j, p) ==
    /\ job[j].at = "asking" /\ p \in job[j].pending
    /\ job' = [job EXCEPT ![j].pending = @ \ {p}]
    /\ UNCHANGED <<model, tierSets, jobDeaths, lastAnswer, disputed, missedSince, revived, chosen>>

WritesElsewhere(j, p) == \E i \in Jobs \ {j} : job[i].at = "writing" /\ job[i].provider = p

Answers(j, p, answer) ==
    /\ job[j].at = "asking" /\ p \in job[j].pending
    /\ job' = [job EXCEPT ![j] = [at |-> "writing", pending |-> @.pending \ {p}, provider |-> p,
                                  left |-> answer, seen |-> answer]]
    /\ lastAnswer' = [m \in Listings |-> IF m[1] # p THEN lastAnswer[m]
                                         ELSE IF m \in answer THEN "seen" ELSE "missed"]
    /\ disputed' = IF WritesElsewhere(j, p) THEN disputed \cup RowsOf(p) ELSE disputed \ RowsOf(p)
    /\ revived' = revived \ RowsOf(p)
    /\ UNCHANGED <<model, tierSets, jobDeaths, missedSince, chosen>>

\* Its columns are filled in, deprecated is set to 0, tier_assigned stays.
Upserted_replaced(row) == [status |-> "offered", tier |-> "none"]
Upserted(row) == [row EXCEPT !.status = "offered"]

upsertModel(j, m) ==
    /\ job[j].at = "writing" /\ m \in job[j].left
    /\ model' = [model EXCEPT ![m] = Upserted(@)]
    /\ job' = [job EXCEPT ![j].left = @ \ {m}]
    /\ UNCHANGED <<tierSets, jobDeaths, lastAnswer, disputed, missedSince, revived, chosen>>

\* The rows of the provider the answer did not have.
Unseen_everywhere(p, seen) == Offered \ seen
Unseen(p, seen) == {m \in Offered : m[1] = p} \ seen

markUnseenAsDeprecated(j) ==
    LET gone == Unseen(job[j].provider, job[j].seen) IN
    /\ job[j].at = "writing" /\ job[j].left = {}
    /\ model' = [m \in Listings |-> IF m \in gone THEN [model[m] EXCEPT !.status = "deprecated"]
                                    ELSE model[m]]
    /\ job' = [job EXCEPT ![j] = [NoJob EXCEPT !.at = "asking", !.pending = job[j].pending]]
    /\ missedSince' = [i \in Jobs |-> IF job[i].at = "pricing" THEN missedSince[i] \cup gone
                                      ELSE missedSince[i]]
    /\ UNCHANGED <<tierSets, jobDeaths, lastAnswer, disputed, revived, chosen>>

\* autoAssignTiers, once every provider is done with: three statements over all rows.
Assign(j, rows, tier) ==
    /\ model' = [m \in Listings |-> IF m \in rows THEN [model[m] EXCEPT !.tier = tier] ELSE model[m]]
    /\ UNCHANGED <<tierSets, jobDeaths, lastAnswer, disputed, missedSince, revived, chosen>>

assignBest(j) ==
    /\ job[j].at = "asking" /\ job[j].pending = {}
    /\ job' = [job EXCEPT ![j].at = "quick"]
    /\ Assign(j, {m \in Offered : WindowOf[m] = "large"}, "best")

assignQuick_all(j) ==
    /\ job[j].at = "quick"
    /\ job' = [job EXCEPT ![j].at = "medium"]
    /\ Assign(j, {m \in Offered : WindowOf[m] = "small"}, "quick")
assignQuick(j) ==
    /\ job[j].at = "quick"
    /\ job' = [job EXCEPT ![j].at = "medium"]
    /\ \E cheap \in SUBSET Untiered :
          Assign(j, {m \in Untiered : WindowOf[m] = "small"} \cup cheap, "quick")

assignMedium(j) ==
    /\ job[j].at = "medium"
    /\ job' = [job EXCEPT ![j].at = "over"]
    /\ Assign(j, Untiered, "medium")

---------------------------------------------------------------------------
(* A refresh of the prices, and the founder.                               *)

OnOffer_all == {m \in Listings : model[m].status # "absent"}
OnOffer == Offered

refreshAllModelPricing(j) ==
    /\ MayBegin(j)
    /\ job' = [job EXCEPT ![j] = [NoJob EXCEPT !.at = "pricing", !.left = OnOffer]]
    /\ UNCHANGED <<model, tierSets, jobDeaths, lastAnswer, disputed, missedSince, revived, chosen>>

\* The row is upserted with its price, and with it taken for offered.
PriceModel(j, m) ==
    /\ job[j].at = "pricing" /\ m \in job[j].left
    /\ job' = [job EXCEPT ![j].left = @ \ {m}]
    /\ model' = [model EXCEPT ![m] = Upserted(@)]
    /\ revived' = IF m \in missedSince[j] THEN revived \cup {m} ELSE revived
    /\ UNCHANGED <<tierSets, jobDeaths, lastAnswer, disputed, missedSince, chosen>>

\* A provider that is no longer configured.
PassOver(j, m) ==
    /\ job[j].at = "pricing" /\ m \in job[j].left
    /\ job' = [job EXCEPT ![j].left = @ \ {m}]
    /\ UNCHANGED <<model, tierSets, jobDeaths, lastAnswer, disputed, missedSince, revived, chosen>>

\* PUT /models/:id/tier: the rows of every provider that names a model so.
setTier(id, tier) ==
    LET rows == {m \in Listings : m[2] = id /\ model[m].status # "absent"} IN
    /\ tierSets < MaxTierSets /\ rows # {}
    /\ tierSets' = tierSets + 1
    /\ model' = [m \in Listings |-> IF m \in rows THEN [model[m] EXCEPT !.tier = tier] ELSE model[m]]
    /\ chosen' = [m \in Listings |-> IF m \in rows THEN tier ELSE chosen[m]]
    /\ UNCHANGED <<job, jobDeaths, lastAnswer, disputed, missedSince, revived>>

JobDies(j) ==
    /\ jobDeaths < MaxJobDeaths /\ job[j].at \notin {"idle", "over"}
    /\ jobDeaths' = jobDeaths + 1
    /\ job' = [job EXCEPT ![j] = [NoJob EXCEPT !.at = "over"]]
    /\ disputed' = IF job[j].at = "writing" THEN disputed \cup RowsOf(job[j].provider) ELSE disputed
    /\ UNCHANGED <<model, tierSets, lastAnswer, missedSince, revived, chosen>>

CatalogNext ==
    \/ \E j \in Jobs :
          \/ discoverAllModels(j) \/ markUnseenAsDeprecated(j)
          \/ assignBest(j) \/ assignQuick(j) \/ assignMedium(j)
          \/ refreshAllModelPricing(j) \/ JobDies(j)
          \/ \E p \in Sources : \/ AnswersNothing(j, p)
                                \/ \E answer \in (SUBSET RowsOf(p)) \ {{}} : Answers(j, p, answer)
          \/ \E m \in Listings : upsertModel(j, m) \/ PriceModel(j, m) \/ PassOver(j, m)
    \/ \E m \in Listings, tier \in ModelTiers : setTier(m[2], tier)

CatalogSpec == CatalogInit /\ [][CatalogNext]_catalogVars

---------------------------------------------------------------------------
CatalogTypeOK ==
    /\ \A m \in Listings :
          /\ model[m].status \in {"absent", "offered", "deprecated"}
          /\ model[m].tier \in ModelTiers \cup {"none"}
          /\ model[m].status = "absent" => model[m].tier = "none"
          /\ lastAnswer[m] = "none" => model[m].status = "absent"
    /\ \A j \in Jobs :
          /\ job[j].left \subseteq Listings /\ job[j].pending \subseteq Sources
          /\ job[j].at = "writing" => job[j].seen \in (SUBSET RowsOf(job[j].provider)) \ {{}}
          /\ job[j].at = "writing" => job[j].left \subseteq job[j].seen

Writing(p) == \E j \in Jobs : job[j].at = "writing" /\ job[j].provider = p
InPeace(m) == ~Writing(m[1]) /\ m \notin disputed \cup revived

\* What the catalogue offers is what its provider last listed, however discoveries,
\* refreshes of the prices and failed answers fall (model-discovery.mjs:36-63); named
\* exceptions: two discoveries of the provider wrote at once or one died writing, and a
\* refresh of the prices that listed a model before it went writes it back as offered
\* (pricing-refresh.mjs:179-195, model-registry.mjs:117).
CatalogFollowsAnswers ==
    \A m \in Listings : InPeace(m) => (m \in Offered <=> lastAnswer[m] = "seen")

\* The tier the founder set stays, but for a model with a large window, which every
\* discovery puts back to best (model-registry.mjs:252-256).
FounderTierKept ==
    \A m \in Listings :
        chosen[m] # "none" /\ WindowOf[m] # "large" => model[m].tier = chosen[m]

\* Once the jobs have come to their ends, every model on offer has a tier to be routed
\* by; one that a refresh of the prices brought back may lack it.
OfferedAreTiered ==
    (jobDeaths = 0 /\ \A j \in Jobs : job[j].at \in {"idle", "over", "pricing"})
        => Untiered \subseteq revived
=============================================================================

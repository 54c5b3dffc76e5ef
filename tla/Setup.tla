------------------------------- MODULE Setup -------------------------------
(***************************************************************************)
(* A first installation: the sessions of the dashboard's /setup page,      *)
(* which holds a provider's key in memory from its validation to the       *)
(* commit (setup-validation-session.mjs, dashboard/server.mjs), and the    *)
(* files written by whichever process gets there first: the dashboard, the *)
(* command line (gateway/cli.mjs) or the desktop shell, all through        *)
(* setup-wizard-core.mjs:writeSetupPlan.                                   *)
(*                                                                         *)
(* The dashboard writes its plan in one synchronous run, so nothing else   *)
(* of it moves meanwhile; the other processes do.                          *)
(***************************************************************************)
EXTENDS Integers, Sequences, FiniteSets

CONSTANTS
    SetupSessions,   \* ids given to pages
    KeyChoices,         \* provider and model
    Details,         \* what else a review shows: name, agents, budget
    MaxValidations,  \* bound: keys ever validated
    MaxAsks,         \* bound: validations waiting for the provider at once
    MaxInstallDeaths \* bound: processes killed at work

Installers == {"dashboard", "cli", "desktop"}
Targets == <<"tenant.yaml", "policy.yaml", ".env">>
TargetSet == {Targets[i] : i \in DOMAIN Targets}
Absent == "absent"
Outsider == "outsider"

\* The desktop keeps keys in the keychain and writes no .env.
Plan(w) == IF w = "desktop" THEN SubSeq(Targets, 1, 2) ELSE Targets
PlanSet(w) == {Plan(w)[i] : i \in DOMAIN Plan(w)}

NoCommit == [step |-> "idle", created |-> 0, validation |-> 0]

VARIABLES
    setupSession,  \* none, live or ended
    asking,        \* validations at the provider: session, choice, still live?
    validations,   \* id, session, choice; each holds a secret
    validated,     \* how many were ever made
    reviews,       \* the validation and what was shown with it
    file,          \* at each target: absent, or who put it there
    installer,        \* each process: what it does, files created, key used
    installDeaths,
    gone,          \* history: processes that died at work
    late           \* history: sessions that ended while the provider was asked

setupVars == <<setupSession, asking, validations, validated, reviews, file, installer,
               installDeaths, gone, late>>

SetupInit ==
    /\ setupSession = [s \in SetupSessions |-> "none"]
    /\ asking = {} /\ validations = {} /\ validated = 0 /\ reviews = {}
    /\ file = [t \in TargetSet |-> Absent]
    /\ installer = [w \in Installers |-> NoCommit]
    /\ installDeaths = 0 /\ gone = {} /\ late = {}

---------------------------------------------------------------------------
(* Sessions, keys and reviews.                                             *)

Responsive == installer["dashboard"].step = "idle"
Installed == \E t \in TargetSet : file[t] # Absent
OfSession(s) == {v \in validations : v.session = s}

\* Validations and reviews go together, the timers' and the explicit ways.
Revoked(gones) ==
    /\ validations' = validations \ gones
    /\ reviews' = {r \in reviews : \A v \in gones : r.validation # v.id}

DiskSide == UNCHANGED <<file, installer, installDeaths, gone>>

issueSetupSession(s) ==
    /\ Responsive /\ setupSession[s] = "none"
    /\ setupSession' = [setupSession EXCEPT ![s] = "live"]
    /\ UNCHANGED <<asking, validations, validated, reviews, late>> /\ DiskSide

\* After its fifteen minutes, by the timer or when it is next looked at.
revokeSetupSession(s) ==
    /\ Responsive /\ setupSession[s] = "live"
    /\ setupSession' = [setupSession EXCEPT ![s] = "ended"]
    /\ Revoked(OfSession(s))
    /\ late' = IF \E a \in asking : a.session = s THEN late \cup {s} ELSE late
    /\ UNCHANGED <<asking, validated>> /\ DiskSide

\* A key is sent for validation: the provider is asked, and the rest waits.
AskProvider(s, c) ==
    /\ Responsive /\ ~Installed
    /\ setupSession[s] = "live"
    /\ Cardinality(asking) < MaxAsks
    /\ asking' = asking \cup {[session |-> s, choice |-> c]}
    /\ UNCHANGED <<setupSession, validations, validated, reviews, late>> /\ DiskSide

\* The session is not looked at again once the provider has answered.
createValidated_keeps(a) ==
    LET new == [id |-> validated + 1, session |-> a.session, choice |-> a.choice]
    IN validations' = validations \cup {new} /\ UNCHANGED reviews
createValidated(a) ==
    LET replaced == OfSession(a.session)
        new == [id |-> validated + 1, session |-> a.session, choice |-> a.choice] IN
    /\ validations' = (validations \ replaced) \cup {new}
    /\ reviews' = {r \in reviews : \A v \in replaced : r.validation # v.id}

ProviderAnswers(a) ==
    /\ Responsive /\ a \in asking
    /\ asking' = asking \ {a}
    /\ \/ /\ validated < MaxValidations /\ validated' = validated + 1
          /\ createValidated(a)
       \/ UNCHANGED <<validations, validated, reviews>>
    /\ UNCHANGED <<setupSession, late>> /\ DiskSide

\* Five minutes after it was made, or on the page's request.
revokeValidation(v) ==
    /\ Responsive /\ v \in validations
    /\ Revoked({v})
    /\ UNCHANGED <<setupSession, asking, validated, late>> /\ DiskSide

createReviewedSetup(v, d) ==
    /\ Responsive /\ ~Installed
    /\ v \in validations /\ setupSession[v.session] = "live"
    /\ reviews' = reviews \cup {[validation |-> v.id, details |-> d]}
    /\ UNCHANGED <<setupSession, asking, validations, validated, late>> /\ DiskSide

---------------------------------------------------------------------------
(* The files.                                                              *)

SessionSide == UNCHANGED <<setupSession, asking, validations, validated, reviews, late>>

\* writeSetupPlan looks at every target before it creates the first.
Starts(w, id) ==
    /\ installer[w].step = "idle" /\ ~Installed
    /\ installer' = [installer EXCEPT ![w] = [step |-> "writing", created |-> 0, validation |-> id]]
    /\ UNCHANGED <<file, installDeaths, gone>>

\* A commit names a validation, and shows again what was reviewed with it.
CommitSetup(v, d) ==
    /\ v \in validations /\ setupSession[v.session] = "live"
    /\ [validation |-> v.id, details |-> d] \in reviews
    /\ Starts("dashboard", v.id)
    /\ SessionSide

\* The command line, and the desktop with a key that is in its keychain.
CommandSetup(w) ==
    /\ w # "dashboard"
    /\ Starts(w, 0)
    /\ SessionSide

NextTarget(w) == Plan(w)[installer[w].created + 1]

\* open(..., 'wx'): created here, or there already.
Exclusive_overwrites(t) == TRUE
Exclusive(t) == file[t] = Absent

CreateTarget(w) ==
    /\ installer[w].step = "writing" /\ installer[w].created < Len(Plan(w))
    /\ Exclusive(NextTarget(w))
    /\ file' = [file EXCEPT ![NextTarget(w)] = w]
    \* the content may still fail to be written
    /\ \E step \in {"writing", "failed"} :
          installer' = [installer EXCEPT ![w] = [step |-> step, created |-> @.created + 1,
                                                 validation |-> @.validation]]
    /\ UNCHANGED <<installDeaths, gone>> /\ SessionSide

CreateFails(w) ==
    /\ installer[w].step = "writing" /\ installer[w].created < Len(Plan(w))
    /\ installer' = [installer EXCEPT ![w].step = "failed"]
    /\ UNCHANGED <<file, installDeaths, gone>> /\ SessionSide

\* What was created is removed, the last one first.
CleanUp(w) ==
    /\ installer[w].step = "failed"
    /\ IF installer[w].created = 0
       THEN installer' = [installer EXCEPT ![w] = NoCommit] /\ UNCHANGED file
       ELSE LET t == Plan(w)[installer[w].created] IN
            /\ file' = IF file[t] = w THEN [file EXCEPT ![t] = Absent] ELSE file
            /\ installer' = [installer EXCEPT ![w].created = @ - 1]
    /\ UNCHANGED <<installDeaths, gone>> /\ SessionSide

\* The dashboard then uses the key up, and the review with it.
FinishSetup(w) ==
    /\ installer[w].step = "writing" /\ installer[w].created = Len(Plan(w))
    /\ installer' = [installer EXCEPT ![w] = NoCommit]
    /\ Revoked({v \in validations : v.id = installer[w].validation})
    /\ UNCHANGED <<setupSession, asking, validated, late, file, installDeaths, gone>>

\* A process dies at work; the dashboard's memory goes with it.
InstallerDies(w) ==
    /\ installer[w].step # "idle"
    /\ installDeaths < MaxInstallDeaths /\ installDeaths' = installDeaths + 1
    /\ gone' = gone \cup {w}
    /\ installer' = [installer EXCEPT ![w] = NoCommit]
    /\ IF w = "dashboard"
       THEN /\ setupSession' = [s \in SetupSessions |->
                                  IF setupSession[s] = "live" THEN "ended" ELSE setupSession[s]]
            /\ asking' = {} /\ validations' = {} /\ reviews' = {}
            /\ UNCHANGED <<validated, late>>
       ELSE SessionSide
    /\ UNCHANGED file

\* Someone else puts a file where there was none.
OutsiderCreates(t) ==
    /\ file[t] = Absent /\ \A u \in TargetSet : file[u] # Outsider
    /\ file' = [file EXCEPT ![t] = Outsider]
    /\ UNCHANGED <<installer, installDeaths, gone>> /\ SessionSide

SetupNext ==
    \/ \E s \in SetupSessions : issueSetupSession(s) \/ revokeSetupSession(s)
    \/ \E s \in SetupSessions, c \in KeyChoices : AskProvider(s, c)
    \/ \E a \in asking : ProviderAnswers(a)
    \/ \E v \in validations : revokeValidation(v)
    \/ \E v \in validations, d \in Details : createReviewedSetup(v, d) \/ CommitSetup(v, d)
    \/ \E w \in Installers : \/ CommandSetup(w) \/ CreateTarget(w) \/ CreateFails(w)
                          \/ CleanUp(w) \/ FinishSetup(w) \/ InstallerDies(w)
    \/ \E t \in TargetSet : OutsiderCreates(t)

SetupSpec == SetupInit /\ [][SetupNext]_setupVars

---------------------------------------------------------------------------
SetupTypeOK ==
    /\ \A v \in validations : v.id \in 1..validated /\ setupSession[v.session] # "none"
    /\ \A r \in reviews : \E v \in validations : v.id = r.validation
    /\ \A t \in TargetSet : file[t] \in {Absent, Outsider} \cup Installers
    /\ \A w \in Installers : installer[w].created \in 0..Len(Plan(w))
    /\ gone \subseteq Installers /\ late \subseteq SetupSessions

Owned(w) == {t \in TargetSet : file[t] = w}

\* An installation is there whole or not at all, and is one writer's
\* (setup-wizard-core.mjs:406-411): what a writer that has come to an end left is its
\* plan or nothing, two never have files at once, and one that fails removes its own
\* only.  A process killed at work leaves what it had created, which every later
\* setup refuses.
InstallationWhole ==
    /\ \A w \in Installers \ gone : installer[w].step = "idle" => Owned(w) \in {{}, PlanSet(w)}
    /\ \A v, w \in Installers : Owned(v) # {} /\ Owned(w) # {} => v = w

\* A session holds one key at most, and none once it has ended
\* (setup-validation-session.mjs:126-136, dashboard/server.mjs:392-397), except one the
\* provider was still being asked about when it ended.
SecretsEnd ==
    /\ \A u, v \in validations : u.session = v.session => u = v
    /\ \A v \in validations : setupSession[v.session] = "ended" => v.session \in late
=============================================================================

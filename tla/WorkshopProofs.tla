--------------------------- MODULE WorkshopProofs --------------------------
(***************************************************************************)
(* Theorems about those who work beside each other: the tenants of the     *)
(* management contract, the keys of the local API, the agents in their     *)
(* worktrees, the invitations to a project, the installers of one          *)
(* repository, the calls on one project's daemon, the writers of one       *)
(* policy file; for every value of their constants.                        *)
(***************************************************************************)
EXTENDS Management, ApiKeys, Worktrees, Access, Setup, Fleet, PolicyFile,
        FiniteSetTheorems, TLAPS

-----------------------------------------------------------------------------
(* The workflow state of the management contract.                          *)

\* Nobody but the head of the queue has loaded, and what an operation that awaits has in
\* memory is still what it loaded.
HolderAlone ==
  \A r \in MgmtRequests : asked[r].at = "awaits" =>
    /\ queue # <<>> /\ queue[1] = r
    /\ asked[r].kind = "test" /\ maps = durable[TenantOf[r]]
MgmtInv ==
  /\ asked \in [MgmtRequests -> [kind : Kinds \cup {"none"},
                                 at : {"idle", "waits", "awaits", "stuck", "over"}]]
  /\ queue \in Seq(MgmtRequests)
  /\ durable = [t \in MgmtTenants |-> durable[t]]
  /\ \A r \in answered : r \in MgmtRequests /\ asked[r].at = "over"
  /\ HolderAlone
  /\ TenantsApart

\* What a request that ends may leave: its load, with its entry if it has one.
LEMMA FinishStep ==
  ASSUME MgmtInv, NEW r \in MgmtRequests, NEW entries, NEW succeeds \in BOOLEAN,
         Finish(r, entries, succeeds),
         asked[r].at \in {"waits", "awaits"}, queue # <<>>, queue[1] = r,
         \/ asked[r].kind \in {"change", "test"} /\ entries = Loaded(r) \cup {r}
         \/ asked[r].kind \notin {"change", "test"} /\ entries = Loaded(r)
  PROVE  MgmtInv'
<1>1. /\ asked' \in [MgmtRequests -> [kind : Kinds \cup {"none"},
                                     at : {"idle", "waits", "awaits", "stuck", "over"}]]
      /\ asked'[r].at = "over"
      /\ \A q \in MgmtRequests : asked'[q].kind = asked[q].kind
      /\ \A q \in MgmtRequests \ {r} : asked'[q].at = asked[q].at
  BY DEF MgmtInv, Finish
<1>2. queue' \in Seq(MgmtRequests)
  BY DEF MgmtInv, Finish
<1>3. HolderAlone'
  BY <1>1 DEF MgmtInv, HolderAlone
<1>4. \A t \in MgmtTenants : Entered(t)' = Entered(t)
  BY <1>1 DEF Entered
<1>5. /\ durable' = [t \in MgmtTenants |-> durable'[t]]
      /\ \A t \in MgmtTenants \ {TenantOf[r]} : durable'[t] = durable[t]
      /\ \/ durable'[TenantOf[r]] = entries /\ unsaved' = unsaved
         \/ durable' = durable /\ unsaved' = unsaved \cup {r}
  BY DEF MgmtInv, Finish, MgmtTenants
<1>6. answered' \subseteq answered \cup {r}
  BY DEF Finish
<1>7. TenantsApart'
  <2> SUFFICES ASSUME NEW t \in MgmtTenants
               PROVE  /\ durable'[t] \subseteq Entered(t)
                      /\ (Entered(t) \cap answered') \ unsaved' \subseteq durable'[t]
    BY <1>4 DEF TenantsApart, MgmtTenants
  <2>1. CASE t # TenantOf[r]
    <3>1. r \notin Entered(t)
      BY <2>1 DEF Entered
    <3> QED
      BY <2>1, <3>1, <1>5, <1>6 DEF MgmtInv, TenantsApart
  <2>2. CASE t = TenantOf[r]
    <3>1. r \in Entered(t) <=> asked[r].kind \in {"change", "test"}
      BY <2>2 DEF Entered
    <3> QED
      BY <2>2, <3>1, <1>5, <1>6 DEF MgmtInv, TenantsApart, Loaded
  <2> QED
    BY <2>1, <2>2
<1> QED
  BY <1>1, <1>2, <1>3, <1>5, <1>6, <1>7 DEF MgmtInv

\* Every step that ends no request moves only where requests are.
LEMMA MgmtStep == MgmtInv /\ [ManagementNext]_mgmtVars => MgmtInv'
<1> SUFFICES ASSUME MgmtInv, [ManagementNext]_mgmtVars
             PROVE  MgmtInv'
  OBVIOUS
<1>a. ASSUME UNCHANGED <<durable, answered, unsaved>>,
             \A t \in MgmtTenants : Entered(t) \subseteq Entered(t)',
             \A t \in MgmtTenants : Entered(t)' \cap answered \subseteq Entered(t)
      PROVE  TenantsApart' /\ durable' = [t \in MgmtTenants |-> durable'[t]]
  BY <1>a DEF MgmtInv, TenantsApart
<1>1. ASSUME NEW r \in MgmtRequests, NEW kind \in Kinds, acquireManagementStateLock(r, kind)
      PROVE  MgmtInv'
  <2>1. /\ asked' \in [MgmtRequests -> [kind : Kinds \cup {"none"},
                                       at : {"idle", "waits", "awaits", "stuck", "over"}]]
        /\ asked'[r].at = "waits" /\ asked[r].at = "idle" /\ asked[r].kind = "none"
        /\ \A q \in MgmtRequests \ {r} : asked'[q] = asked[q]
    BY <1>1 DEF MgmtInv, acquireManagementStateLock, NotSent
  <2>2. r \notin answered
    BY <2>1 DEF MgmtInv
  <2>3. queue' \in Seq(MgmtRequests) /\ (queue # <<>> => queue' # <<>> /\ queue'[1] = queue[1])
    BY <1>1 DEF MgmtInv, acquireManagementStateLock
  <2>4. HolderAlone'
    BY <1>1, <2>1, <2>3 DEF MgmtInv, HolderAlone, acquireManagementStateLock
  <2>5. TenantsApart' /\ durable' = [t \in MgmtTenants |-> durable'[t]]
    <3>1. \A t \in MgmtTenants : Entered(t) \subseteq Entered(t)' /\ Entered(t)' \subseteq Entered(t) \cup {r}
      BY <2>1 DEF Entered
    <3> QED
      BY <3>1, <2>2, <1>a, <1>1 DEF acquireManagementStateLock
  <2> QED
    BY <1>1, <2>1, <2>2, <2>3, <2>4, <2>5 DEF MgmtInv, acquireManagementStateLock
<1>2. ASSUME NEW r \in MgmtRequests, ServeAtOnce(r)
      PROVE  MgmtInv'
  <2>1. PICK succeeds \in BOOLEAN :
          Finish(r, IF asked[r].kind = "change" THEN Loaded(r) \cup {r} ELSE Loaded(r), succeeds)
    BY <1>2 DEF ServeAtOnce
  <2>2. queue # <<>> /\ queue[1] = r /\ asked[r].at = "waits" /\ asked[r].kind # "test"
    BY <1>2 DEF ServeAtOnce, Turn, MyTurn
  <2>3. CASE asked[r].kind = "change"
    BY <2>1, <2>2, <2>3, FinishStep
  <2>4. CASE asked[r].kind # "change"
    BY <2>1, <2>2, <2>4, FinishStep
  <2> QED
    BY <2>3, <2>4
<1>3. ASSUME NEW r \in MgmtRequests, TestEnds(r)
      PROVE  MgmtInv'
  <2>1. PICK succeeds \in BOOLEAN : Finish(r, maps \cup {r}, succeeds)
    BY <1>3 DEF TestEnds
  <2>2. /\ asked[r].at = "awaits" /\ queue # <<>> /\ queue[1] = r
        /\ asked[r].kind = "test" /\ maps = Loaded(r)
    BY <1>3 DEF TestEnds, MgmtInv, HolderAlone, Loaded
  <2> QED
    BY <2>1, <2>2, FinishStep
<1>b. ASSUME NEW r \in MgmtRequests, NEW where \in {"awaits", "over", "stuck"}, Turn(r),
             asked' = [asked EXCEPT ![r].at = where]
      PROVE  /\ queue # <<>> /\ queue[1] = r /\ asked[r].at = "waits"
             /\ asked' \in [MgmtRequests -> [kind : Kinds \cup {"none"},
                                             at : {"idle", "waits", "awaits", "stuck", "over"}]]
             /\ asked'[r].at = where
             /\ \A q \in MgmtRequests : asked'[q].kind = asked[q].kind
             /\ \A q \in MgmtRequests \ {r} : asked'[q].at = asked[q].at
             /\ \A q \in MgmtRequests : asked[q].at # "awaits"
             /\ \A t \in MgmtTenants : Entered(t)' = Entered(t)
  <2>1. queue # <<>> /\ queue[1] = r /\ asked[r].at = "waits"
    BY <1>b DEF Turn, MyTurn
  <2>2. /\ asked' \in [MgmtRequests -> [kind : Kinds \cup {"none"},
                                       at : {"idle", "waits", "awaits", "stuck", "over"}]]
        /\ asked'[r].at = where
        /\ \A q \in MgmtRequests : asked'[q].kind = asked[q].kind
        /\ \A q \in MgmtRequests \ {r} : asked'[q].at = asked[q].at
    BY <1>b DEF MgmtInv
  <2> QED
    BY <2>1, <2>2 DEF MgmtInv, HolderAlone, Entered
<1>4. ASSUME NEW r \in MgmtRequests, testIntegration(r)
      PROVE  MgmtInv'
  <2>1. Turn(r) /\ asked' = [asked EXCEPT ![r].at = "awaits"] /\ asked[r].kind = "test"
    BY <1>4 DEF testIntegration
  <2>2. HolderAlone'
    BY <2>1, <1>b, <1>4 DEF HolderAlone, testIntegration, Loaded
  <2> QED
    BY <2>1, <2>2, <1>a, <1>b, <1>4 DEF MgmtInv, testIntegration
<1>5. ASSUME NEW r \in MgmtRequests, LoadFails(r) \/ PruneFails(r)
      PROVE  MgmtInv'
  <2>1. PICK where \in {"over", "stuck"} : Turn(r) /\ asked' = [asked EXCEPT ![r].at = where]
    BY <1>5 DEF LoadFails, PruneFails
  <2>2. HolderAlone'
    BY <2>1, <1>b DEF HolderAlone
  <2>3. queue' \in Seq(MgmtRequests)
    <3>1. queue # <<>>
      BY <2>1, <1>b
    <3>2. queue' = Tail(queue) \/ queue' = queue
      BY <1>5 DEF LoadFails, PruneFails
    <3>3. queue \in Seq(MgmtRequests)
      BY DEF MgmtInv
    <3>4. Tail(queue) \in Seq(MgmtRequests)
      BY <3>1, <3>3
    <3> QED
      BY <3>2, <3>3, <3>4
  <2>4. UNCHANGED <<maps, durable, answered, unsaved>>
    BY <1>5 DEF LoadFails, PruneFails
  <2>5. /\ asked' \in [MgmtRequests -> [kind : Kinds \cup {"none"},
                                       at : {"idle", "waits", "awaits", "stuck", "over"}]]
        /\ \A q \in MgmtRequests : asked'[q].kind = asked[q].kind
        /\ \A q \in MgmtRequests \ {r} : asked'[q] = asked[q]
    BY <2>1 DEF MgmtInv
  <2>6. r \notin answered
    BY <2>1 DEF MgmtInv, Turn
  <2>7. \A q \in answered' : q \in MgmtRequests /\ asked'[q].at = "over"
    BY <2>4, <2>5, <2>6 DEF MgmtInv
  <2>8. TenantsApart' /\ durable' = [t \in MgmtTenants |-> durable'[t]]
    <3>1. \A t \in MgmtTenants : Entered(t)' = Entered(t)
      BY <2>5 DEF Entered
    <3> QED
      BY <1>a, <2>4, <3>1
  <2> QED
    BY <2>2, <2>3, <2>5, <2>7, <2>8 DEF MgmtInv
<1>6. CASE DashboardRestarts
  <2>1. /\ asked' \in [MgmtRequests -> [kind : Kinds \cup {"none"},
                                       at : {"idle", "waits", "awaits", "stuck", "over"}]]
        /\ \A q \in MgmtRequests : asked'[q].kind = asked[q].kind /\ asked'[q].at # "awaits"
        /\ \A q \in MgmtRequests : asked[q].at = "over" => asked'[q].at = "over"
    BY <1>6 DEF MgmtInv, DashboardRestarts
  <2>2. HolderAlone' /\ \A t \in MgmtTenants : Entered(t)' = Entered(t)
    BY <2>1 DEF HolderAlone, Entered
  <2> QED
    BY <2>1, <2>2, <1>a, <1>6 DEF MgmtInv, DashboardRestarts
<1>7. CASE UNCHANGED mgmtVars
  BY <1>7 DEF mgmtVars, MgmtInv, HolderAlone, TenantsApart, Entered
<1> QED
  BY <1>1, <1>2, <1>3, <1>4, <1>5, <1>6, <1>7 DEF ManagementNext

\* A tenant's durable workflow state is made of its own requests and misses none that was
\* answered and saved, although one set of maps serves all tenants and operations await in
\* the middle (dashboard/management-router.mjs:15-18, 39-43, 82).
THEOREM TenantsStayApart == ManagementSpec => []TenantsApart
<1>1. ManagementInit => MgmtInv
  BY DEF ManagementInit, MgmtInv, HolderAlone, TenantsApart, Entered, NotSent, Kinds
<1> QED
  BY <1>1, MgmtStep, PTL DEF ManagementSpec, MgmtInv

-----------------------------------------------------------------------------
(* The keys of the local API.                                              *)

\* A rotation with an overlap that has yet to date the old key: an old key that is
\* ended already is inactive as well, because the list deactivated it.
DatedLater ==
  \A p \in KeyServers : server[p].at = "minted" =>
    LET k == replacementOf[server[p].key] IN
      /\ server[p].key \in 1..keyCount /\ k \in 1..keyCount
      /\ server[p].until \in Int
      /\ k \in ended => k \notin active
Rotations == [KeyServers -> [at : {"idle", "found", "minted", "dated"}, key : Int, until : Int]]
KeysInv ==
  /\ keyNow \in 0..KeyTime /\ keyCount \in 0..MaxApiKeys
  /\ active \subseteq 1..keyCount /\ managed \subseteq 1..keyCount /\ ended \subseteq 1..keyCount
  /\ overlapUntil \in [ApiKeys -> Int] /\ replacementOf \in [ApiKeys -> Int]
  /\ \A k \in ApiKeys : k > keyCount => overlapUntil[k] = NoOverlap
  /\ server \in Rotations
  /\ \A p \in KeyServers : server[p].at # "idle" => server[p].key \in 1..keyCount
  /\ DatedLater
  /\ EndedKeysStayOut

\* A new key is none of those there are, and moves nothing of theirs.
LEMMA KeyMinted ==
  ASSUME KeysInv, NEW k, k \in 0..keyCount, generateApiKey(k)
  PROVE  /\ keyCount' = keyCount + 1 /\ keyCount' \in 0..MaxApiKeys
         /\ keyCount' \notin active /\ keyCount' \notin managed /\ keyCount' \notin ended
         /\ 1..keyCount \subseteq 1..keyCount' /\ keyCount' \in 1..keyCount'
         /\ keyCount' \in ApiKeys
         /\ replacementOf' \in [ApiKeys -> Int] /\ replacementOf'[keyCount'] = k
         /\ \A n \in 1..keyCount : replacementOf'[n] = replacementOf[n]
         /\ \A n \in ApiKeys : n > keyCount' => n > keyCount
  BY ApiKeysAssumption DEF KeysInv, generateApiKey, ApiKeys

\* A step that mints no key and dates none keeps the invariant if what it ends is
\* inactive and it starts no rotation with an overlap.
LEMMA NothingDated ==
  ASSUME KeysInv, UNCHANGED <<keyNow, keyCount, overlapUntil, replacementOf>>,
         active' \subseteq active, managed' \subseteq 1..keyCount,
         ended' \subseteq 1..keyCount,
         \A k \in ended' : k \in ended \/ k \notin active',
         server' \in Rotations,
         \A p \in KeyServers :
           \/ server'[p] = server[p]
           \/ server'[p].at = "found" /\ server'[p].key \in 1..keyCount
           \/ server'[p].at = "idle"
  PROVE  KeysInv'
<1>1. DatedLater'
  BY DEF KeysInv, DatedLater
<1>2. EndedKeysStayOut'
  BY DEF KeysInv, EndedKeysStayOut, Passes, Elapsed
<1>3. \A p \in KeyServers : server'[p].at # "idle" => server'[p].key \in 1..keyCount
  BY DEF KeysInv
<1> QED
  BY <1>1, <1>2, <1>3 DEF KeysInv, NoOverlap

LEMMA KeysStep == KeysInv /\ [ApiKeysNext]_keyVars => KeysInv'
<1> SUFFICES ASSUME KeysInv, [ApiKeysNext]_keyVars
             PROVE  KeysInv'
  OBVIOUS
<1>a. keyCount \in Int /\ NoOverlap' = NoOverlap
  BY DEF KeysInv, NoOverlap
<1>b. IdleServer \in [at : {"idle"}, key : Int, until : Int] /\ NoOverlap \in Int
  BY ApiKeysAssumption DEF IdleServer, NoOverlap
<1>1. ASSUME NEW p \in KeyServers, createUnmanaged(p) \/ createManaged(p)
      PROVE  KeysInv'
  <2>1. generateApiKey(0) /\ 0 \in 0..keyCount
    BY <1>1 DEF createUnmanaged, createManaged, KeysInv
  <2>2. /\ active' = active \cup {keyCount'}
        /\ managed' \subseteq managed \cup {keyCount'}
        /\ UNCHANGED <<keyNow, overlapUntil, server, ended>>
    BY <1>1, <2>1, KeyMinted DEF createUnmanaged, createManaged
  <2>3. DatedLater'
    BY <2>1, <2>2, KeyMinted DEF KeysInv, DatedLater
  <2>4. EndedKeysStayOut'
    BY <2>1, <2>2, KeyMinted DEF KeysInv, EndedKeysStayOut, Passes, Elapsed
  <2> QED
    BY <1>a, <2>1, <2>2, <2>3, <2>4, KeyMinted DEF KeysInv
<1>2. ASSUME NEW k \in ApiKeys, validateApiKey(k)
      PROVE  KeysInv'
  BY <1>2, NothingDated DEF validateApiKey, KeysInv
<1>3. ASSUME NEW k \in ApiKeys, revokeApiKey(k)
      PROVE  KeysInv'
  <2>1. k \in 1..keyCount
    BY <1>3, ApiKeysAssumption DEF revokeApiKey, KeysInv, ApiKeys
  <2> QED
    BY <1>3, <2>1, NothingDated DEF revokeApiKey, KeysInv
<1>4. ASSUME NEW p \in KeyServers, NEW k \in ApiKeys, rotateChecks(p, k)
      PROVE  KeysInv'
  <2>1. /\ server'[p].at = "found" /\ server'[p].key = k /\ k \in 1..keyCount
        /\ \A q \in KeyServers \ {p} : server'[q] = server[q]
        /\ server' \in Rotations
    <3>1. k \in 1..keyCount /\ k \in Int
      BY <1>4, <1>a DEF rotateChecks, KeysInv
    <3>2. server' = [server EXCEPT ![p] = [at |-> "found", key |-> k, until |-> NoOverlap]]
      BY <1>4 DEF rotateChecks
    <3> QED
      BY <3>1, <3>2, <1>b DEF KeysInv, Rotations
  <2> QED
    BY <1>4, <2>1, NothingDated DEF rotateChecks, KeysInv
<1>5. ASSUME NEW p \in KeyServers, rotateFails(p) \/ registerSuccessor(p) \/ ServerDies(p)
      PROVE  KeysInv'
  <2>1. /\ server'[p].at = "idle"
        /\ \A q \in KeyServers \ {p} : server'[q] = server[q]
        /\ server' \in Rotations
        /\ active' = active /\ managed' \subseteq 1..keyCount
    <3>1. server' = [server EXCEPT ![p] = IdleServer]
      BY <1>5 DEF rotateFails, registerSuccessor, ServerDies
    <3>2. server'[p].at = "idle" /\ server' \in Rotations
      BY <3>1, <1>b DEF KeysInv, Rotations
    <3>3. active' = active /\ managed' \subseteq 1..keyCount
      BY <1>5 DEF rotateFails, Undone, registerSuccessor, ServerDies, KeysInv
    <3> QED
      BY <3>1, <3>2, <3>3 DEF KeysInv, Rotations
  <2> QED
    BY <1>5, <2>1, NothingDated DEF rotateFails, registerSuccessor, ServerDies, KeysInv
<1>6. ASSUME NEW p \in KeyServers, rotateCommits(p)
      PROVE  KeysInv'
  <2> DEFINE k == server[p].key
  <2>1. k \in 1..keyCount /\ k \in 0..keyCount /\ generateApiKey(k)
    BY <1>6, <1>a DEF rotateCommits, KeysInv
  <2> HIDE DEF k
  <2>2. /\ active' = (active \ {k}) \cup {keyCount'} /\ ended' = ended \cup {k}
        /\ UNCHANGED <<keyNow, managed, overlapUntil>>
    BY <1>6, <2>1, KeyMinted DEF rotateCommits, k
  <2>3. /\ server'[p].at = "idle" /\ \A q \in KeyServers \ {p} : server'[q] = server[q]
        /\ server' \in Rotations
    BY <1>6, ApiKeysAssumption DEF rotateCommits, KeysInv, IdleServer, Rotations, NoOverlap
  <2>4. DatedLater'
    BY <2>1, <2>2, <2>3, <1>a, KeyMinted DEF KeysInv, DatedLater
  <2>5. EndedKeysStayOut'
    BY <2>1, <2>2, <1>a, KeyMinted DEF KeysInv, EndedKeysStayOut, Passes, Elapsed
  <2>6. \A q \in KeyServers : server'[q].at # "idle" => server'[q].key \in 1..keyCount'
    BY <2>1, <2>3, KeyMinted DEF KeysInv
  <2> QED
    BY <1>a, <2>1, <2>2, <2>3, <2>4, <2>5, <2>6, KeyMinted DEF KeysInv
<1>7. ASSUME NEW p \in KeyServers, NEW k \in ApiKeys, rotateManaged(p, k)
      PROVE  KeysInv'
  <2>1. k \in 1..keyCount /\ k \in 0..keyCount /\ generateApiKey(k) /\ k \in managed
    BY <1>7, <1>a DEF rotateManaged, KeysInv
  <2>2. /\ active' = Listed \cup {keyCount'} /\ UNCHANGED <<keyNow, managed, overlapUntil, ended>>
    BY <1>7, <2>1, KeyMinted DEF rotateManaged
  <2>3. PICK overlap \in 0..Overlap :
          server' = [server EXCEPT ![p] = [at |-> "minted", key |-> keyCount + 1,
                                           until |-> keyNow + overlap]]
    BY <1>7 DEF rotateManaged
  <2>4. /\ server'[p].at = "minted" /\ server'[p].key = keyCount' /\ server'[p].until \in Int
        /\ \A q \in KeyServers \ {p} : server'[q] = server[q]
        /\ server' \in Rotations
    BY <2>1, <2>3, KeyMinted, ApiKeysAssumption DEF KeysInv, Rotations
  <2>5. k \in ended => k \notin active'
    BY <2>1, <2>2, <1>a, KeyMinted DEF KeysInv, EndedKeysStayOut, Passes, Listed
  <2>6. DatedLater'
    <3> SUFFICES ASSUME NEW q \in KeyServers, server'[q].at = "minted"
                 PROVE  /\ server'[q].key \in 1..keyCount'
                        /\ replacementOf'[server'[q].key] \in 1..keyCount'
                        /\ server'[q].until \in Int
                        /\ replacementOf'[server'[q].key] \in ended
                             => replacementOf'[server'[q].key] \notin active'
      BY <2>2 DEF DatedLater
    <3>1. CASE q = p
      BY <3>1, <2>1, <2>2, <2>4, <2>5, KeyMinted
    <3>2. CASE q # p
      BY <3>2, <2>1, <2>2, <2>4, <1>a, KeyMinted DEF KeysInv, DatedLater, Listed
    <3> QED
      BY <3>1, <3>2
  <2>7. EndedKeysStayOut'
    BY <2>1, <2>2, <1>a, KeyMinted DEF KeysInv, EndedKeysStayOut, Passes, Elapsed, Listed
  <2>8. \A q \in KeyServers : server'[q].at # "idle" => server'[q].key \in 1..keyCount'
    BY <2>1, <2>4, KeyMinted DEF KeysInv
  <2>9. active' \subseteq 1..keyCount' /\ managed' \subseteq 1..keyCount' /\ ended' \subseteq 1..keyCount'
    BY <2>1, <2>2, KeyMinted DEF KeysInv, Listed
  <2> QED
    BY <1>a, <2>1, <2>2, <2>4, <2>6, <2>7, <2>8, <2>9, KeyMinted DEF KeysInv
<1>8. ASSUME NEW p \in KeyServers, setDeadline(p)
      PROVE  KeysInv'
  <2> DEFINE k == replacementOf[server[p].key]
             tardy == server[p].until <= keyNow /\ k \notin PutOffBy(KeyServers \ {p})
  <2>1. /\ k \in 1..keyCount
        /\ server[p].until \in Int
        /\ k \in ended => k \notin active
        /\ server[p].key \in 1..keyCount
    BY <1>8 DEF setDeadline, KeysInv, DatedLater
  <2>2. /\ overlapUntil' = [overlapUntil EXCEPT ![k] = server[p].until]
        /\ ended' = IF tardy THEN ended \cup {k} ELSE ended
        /\ UNCHANGED <<keyNow, keyCount, active, managed, replacementOf>>
        /\ server' = [server EXCEPT ![p].at = "dated"]
    BY <1>8 DEF setDeadline
  <2>3. k \in ApiKeys
    BY <2>1, ApiKeysAssumption DEF KeysInv, ApiKeys
  <2>4. /\ server'[p].at = "dated" /\ server'[p].key = server[p].key
        /\ \A q \in KeyServers \ {p} : server'[q] = server[q]
        /\ server' \in Rotations
    BY <2>2 DEF KeysInv, Rotations
  <2>5. \A q \in KeyServers \ {p} : server[q].at = "minted" /\ tardy => replacementOf[server[q].key] # k
    BY DEF PutOffBy
  <2>6. /\ overlapUntil' \in [ApiKeys -> Int] /\ overlapUntil'[k] = server[p].until
        /\ \A n \in ApiKeys \ {k} : overlapUntil'[n] = overlapUntil[n]
    BY <2>1, <2>2, <2>3 DEF KeysInv
  <2>7. tardy => server[p].until <= keyNow
    OBVIOUS
  <2> HIDE DEF k, tardy
  <2>8. ended' \subseteq ended \cup {k} /\ (k \in ended' => k \in ended \/ tardy)
    BY <2>2
  <2>9. DatedLater'
    <3> SUFFICES ASSUME NEW q \in KeyServers, server'[q].at = "minted"
                 PROVE  /\ server'[q].key \in 1..keyCount
                        /\ replacementOf[server'[q].key] \in 1..keyCount
                        /\ server'[q].until \in Int
                        /\ replacementOf[server'[q].key] \in ended'
                             => replacementOf[server'[q].key] \notin active
      BY <2>2 DEF DatedLater
    <3>1. q # p /\ server'[q] = server[q]
      BY <2>4
    <3>2. replacementOf[server[q].key] \in ended' => replacementOf[server[q].key] \in ended
      BY <2>5, <2>8, <3>1
    <3> QED
      BY <3>1, <3>2 DEF KeysInv, DatedLater
  <2>10. EndedKeysStayOut'
    <3> SUFFICES ASSUME NEW n \in ended', n \in active, ~(overlapUntil'[n] <= keyNow)
                 PROVE  FALSE
      BY <2>2 DEF EndedKeysStayOut, Passes, Elapsed
    <3>1. CASE n = k
      BY <3>1, <2>1, <2>6, <2>7, <2>8 DEF KeysInv
    <3>2. CASE n # k
      <4>1. n \in ended /\ n \in ApiKeys
        BY <3>2, <2>8, ApiKeysAssumption DEF KeysInv, ApiKeys
      <4> QED
        BY <3>2, <4>1, <2>6 DEF KeysInv, EndedKeysStayOut, Passes, Elapsed
    <3> QED
      BY <3>1, <3>2
  <2> QED
    BY <1>a, <2>1, <2>2, <2>4, <2>6, <2>8, <2>9, <2>10 DEF KeysInv
<1>9. CASE KeyClock
  <2>1. /\ keyNow' \in 0..KeyTime /\ keyNow < keyNow'
        /\ UNCHANGED <<keyCount, active, managed, overlapUntil, replacementOf, server>>
    BY <1>9, ApiKeysAssumption DEF KeyClock, KeysInv
  <2>2. \A n \in ended' : n \in ended \/ (n \in ApiKeys \ PutOffBy(KeyServers) /\ overlapUntil[n] <= keyNow')
    BY <1>9 DEF KeyClock
  <2>3. ended' \subseteq 1..keyCount
    <3> SUFFICES ASSUME NEW n \in ApiKeys, overlapUntil[n] <= keyNow'
                 PROVE  n \in 1..keyCount
      BY <2>2 DEF KeysInv
    <3>1. overlapUntil[n] # NoOverlap
      BY <2>1, ApiKeysAssumption DEF NoOverlap
    <3> QED
      BY <3>1, <1>a, ApiKeysAssumption DEF KeysInv, ApiKeys
  <2>4. DatedLater'
    BY <2>1, <2>2 DEF KeysInv, DatedLater, PutOffBy
  <2>5. EndedKeysStayOut'
    <3> SUFFICES ASSUME NEW n \in ended'
                 PROVE  n \notin active \/ overlapUntil[n] <= keyNow'
      BY <2>1 DEF EndedKeysStayOut, Passes, Elapsed
    <3>1. n \in ApiKeys /\ overlapUntil[n] \in Int /\ keyNow \in Int /\ keyNow' \in Int
      BY <2>1, <2>3, ApiKeysAssumption DEF KeysInv, ApiKeys
    <3>2. n \in ended => n \notin active \/ overlapUntil[n] <= keyNow
      BY DEF KeysInv, EndedKeysStayOut, Passes, Elapsed
    <3>3. n \in ended \/ overlapUntil[n] <= keyNow'
      BY <2>2
    <3>4. keyNow < keyNow'
      BY <2>1
    <3> QED
      BY <3>1, <3>2, <3>3, <3>4
  <2> QED
    BY <1>a, <2>1, <2>3, <2>4, <2>5 DEF KeysInv
<1>10. CASE UNCHANGED keyVars
  BY <1>10 DEF keyVars, KeysInv, DatedLater, EndedKeysStayOut, Passes, Elapsed, NoOverlap
<1> QED
  BY <1>1, <1>2, <1>3, <1>4, <1>5, <1>6, <1>7, <1>8, <1>9, <1>10 DEF ApiKeysNext

\* A key of the local API that was revoked, rotated out or past its overlap never passes
\* again, whatever both administrations go on to do to it (auth/api-tokens.mjs:211-253,
\* dashboard/management-router.mjs:59-62).
THEOREM EndedKeysNeverPass == ApiKeysSpec => []EndedKeysStayOut
<1>1. ApiKeysInit => KeysInv
  BY ApiKeysAssumption DEF ApiKeysInit, KeysInv, DatedLater, EndedKeysStayOut, IdleServer, NoOverlap, ApiKeys, Rotations
<1> QED
  BY <1>1, KeysStep, PTL DEF ApiKeysSpec, KeysInv

\* A key nobody revoked stops passing because it was replaced, and its successor comes
\* first: a deadline is only ever written for a key that has one.
HasSuccessor(k) == \E n \in 1..keyCount : replacementOf[n] = k
SuccessorInv ==
  /\ overlapUntil \in [ApiKeys -> 0..NoOverlap] /\ replacementOf \in [ApiKeys -> 0..keyCount]
  /\ \A p \in KeyServers : server[p].key \in 0..keyCount /\ server[p].until \in 0..NoOverlap
  /\ \A k \in 1..keyCount : overlapUntil[k] # NoOverlap => HasSuccessor(k)
  /\ \A k \in 1..keyCount \ revoked : k \notin active => HasSuccessor(k)

LEMMA ElapsedReplaced ==
  ASSUME KeysInv, SuccessorInv, NEW k \in 1..keyCount, Elapsed(k)
  PROVE  HasSuccessor(k)
<1>1. overlapUntil[k] # NoOverlap
  BY ApiKeysAssumption DEF KeysInv, Elapsed, NoOverlap
<1> QED
  BY <1>1 DEF SuccessorInv

LEMMA KeysInvImplies == KeysInv /\ SuccessorInv => ApiKeysTypeOK /\ RotationWhole
<1> SUFFICES ASSUME KeysInv, SuccessorInv PROVE ApiKeysTypeOK /\ RotationWhole
  OBVIOUS
<1>1. ApiKeysTypeOK
  BY DEF ApiKeysTypeOK, KeysInv, SuccessorInv
<1>2. RotationWhole
  BY ElapsedReplaced DEF RotationWhole, Passes, SuccessorInv, HasSuccessor
<1> QED
  BY <1>1, <1>2

\* A step that mints no key and dates none: who stops being active was revoked or replaced.
LEMMA SuccessorsStand ==
  ASSUME KeysInv, SuccessorInv, UNCHANGED <<keyCount, overlapUntil, replacementOf>>,
         revoked \subseteq revoked',
         \A k \in 1..keyCount : k \in active \ active' => k \in revoked' \/ HasSuccessor(k),
         \A p \in KeyServers : server'[p].key \in 0..keyCount /\ server'[p].until \in 0..NoOverlap
  PROVE  SuccessorInv'
  BY DEF SuccessorInv, HasSuccessor, NoOverlap

\* A step that mints a key, perhaps in the place of one that is then deactivated.
LEMMA SuccessorMinted ==
  ASSUME KeysInv, SuccessorInv, NEW replaced \in 0..keyCount, generateApiKey(replaced),
         UNCHANGED <<overlapUntil, revoked>>,
         keyCount' \in active',
         \A k \in 1..keyCount : k \in active \ active' => k = replaced \/ HasSuccessor(k),
         \A p \in KeyServers : server'[p].key \in 0..keyCount' /\ server'[p].until \in 0..NoOverlap
  PROVE  SuccessorInv'
<1>1. /\ keyCount \in Nat /\ keyCount' = keyCount + 1 /\ keyCount' \in ApiKeys
      /\ NoOverlap' = NoOverlap
      /\ replacementOf' = [replacementOf EXCEPT ![keyCount'] = replaced]
  <2>1. keyCount \in Nat /\ replaced \in 0..keyCount
    BY DEF KeysInv
  <2>2. keyCount' = keyCount + 1 /\ keyCount' \in ApiKeys
    BY <2>1, KeyMinted
  <2> QED
    BY <2>1, <2>2 DEF NoOverlap, generateApiKey
<1>2. \A k : HasSuccessor(k) => HasSuccessor(k)'
  BY <1>1, KeyMinted DEF HasSuccessor
<1>3. HasSuccessor(replaced)'
  BY <1>1, KeyMinted DEF HasSuccessor
<1>4. \A k \in 1..keyCount' : k = keyCount' \/ k \in 1..keyCount
  BY <1>1
<1>5. replacementOf' \in [ApiKeys -> 0..keyCount']
  BY <1>1 DEF SuccessorInv
<1>6. overlapUntil[keyCount'] = NoOverlap
  BY <1>1 DEF KeysInv
<1>7. \A k \in 1..keyCount' : overlapUntil'[k] # NoOverlap => HasSuccessor(k)'
  BY <1>2, <1>4, <1>6 DEF SuccessorInv
<1>8. \A k \in 1..keyCount' \ revoked' : k \notin active' => HasSuccessor(k)'
  BY <1>2, <1>3, <1>4 DEF SuccessorInv
<1> QED
  BY <1>1, <1>5, <1>7, <1>8 DEF SuccessorInv

LEMMA SuccessorStep == KeysInv /\ SuccessorInv /\ [ApiKeysNext]_keyVars => SuccessorInv'
<1> SUFFICES ASSUME KeysInv, SuccessorInv, [ApiKeysNext]_keyVars
             PROVE  SuccessorInv'
  OBVIOUS
<1>a. keyCount \in Nat /\ keyNow \in 0..KeyTime
  BY DEF KeysInv
<1>b. \A k \in ApiKeys : k <= keyCount => k \in 1..keyCount
  BY <1>a, ApiKeysAssumption DEF ApiKeys
<1>c. IdleServer.key \in 0..keyCount /\ IdleServer.until \in 0..NoOverlap /\ NoOverlap \in 0..NoOverlap
  BY <1>a, ApiKeysAssumption DEF IdleServer, NoOverlap
<1>1. ASSUME NEW p \in KeyServers, createUnmanaged(p) \/ createManaged(p)
      PROVE  SuccessorInv'
  BY <1>1, <1>a, SuccessorMinted DEF createUnmanaged, createManaged, SuccessorInv, generateApiKey
<1>2. ASSUME NEW k \in ApiKeys, validateApiKey(k)
      PROVE  SuccessorInv'
  BY <1>2, <1>b, ElapsedReplaced, SuccessorsStand DEF validateApiKey, SuccessorInv
<1>3. ASSUME NEW k \in ApiKeys, revokeApiKey(k)
      PROVE  SuccessorInv'
  BY <1>3, SuccessorsStand DEF revokeApiKey, SuccessorInv
<1>4. ASSUME NEW p \in KeyServers, NEW k \in ApiKeys, rotateChecks(p, k)
      PROVE  SuccessorInv'
  <2>1. server' = [server EXCEPT ![p] = [at |-> "found", key |-> k, until |-> NoOverlap]] /\ k \in 0..keyCount
    BY <1>4, <1>a DEF rotateChecks, KeysInv
  <2>2. \A q \in KeyServers : server'[q].key \in 0..keyCount /\ server'[q].until \in 0..NoOverlap
    BY <2>1, <1>c DEF KeysInv, Rotations, SuccessorInv
  <2> QED
    BY <1>4, <2>2, SuccessorsStand DEF rotateChecks
<1>5. ASSUME NEW p \in KeyServers, rotateFails(p) \/ registerSuccessor(p) \/ ServerDies(p)
      PROVE  SuccessorInv'
  <2>1. server' = [server EXCEPT ![p] = IdleServer]
    BY <1>5 DEF rotateFails, registerSuccessor, ServerDies
  <2>2. \A q \in KeyServers : server'[q].key \in 0..keyCount /\ server'[q].until \in 0..NoOverlap
    BY <2>1, <1>c DEF KeysInv, Rotations, SuccessorInv
  <2> QED
    BY <1>5, <2>2, SuccessorsStand DEF rotateFails, Undone, registerSuccessor, ServerDies
<1>6. ASSUME NEW p \in KeyServers, rotateCommits(p)
      PROVE  SuccessorInv'
  <2>1. server' = [server EXCEPT ![p] = IdleServer] /\ server[p].key \in 0..keyCount
    BY <1>6 DEF rotateCommits, SuccessorInv
  <2>2. generateApiKey(server[p].key) /\ active' = (active \ {server[p].key}) \cup {keyCount + 1}
        /\ UNCHANGED <<overlapUntil, revoked>>
    BY <1>6 DEF rotateCommits
  <2>3. \A q \in KeyServers : server'[q].key \in 0..keyCount /\ server'[q].until \in 0..NoOverlap
    BY <2>1, <1>c DEF KeysInv, Rotations, SuccessorInv
  <2>4. keyCount' = keyCount + 1 /\ \A q \in KeyServers : server'[q].key \in 0..keyCount'
    BY <2>2, <2>3, <1>a DEF generateApiKey
  <2> QED
    BY <2>1, <2>2, <2>3, <2>4, SuccessorMinted
<1>7. ASSUME NEW p \in KeyServers, NEW k \in ApiKeys, rotateManaged(p, k)
      PROVE  SuccessorInv'
  <2>1. PICK overlap \in 0..Overlap :
          server' = [server EXCEPT ![p] = [at |-> "minted", key |-> keyCount + 1,
                                           until |-> keyNow + overlap]]
    BY <1>7 DEF rotateManaged
  <2>2. /\ generateApiKey(k) /\ active' = Listed \cup {keyCount + 1} /\ k \in 0..keyCount
        /\ UNCHANGED <<overlapUntil, revoked>> /\ keyCount' = keyCount + 1
    BY <1>7, <1>a DEF rotateManaged, KeysInv, generateApiKey
  <2>3. keyNow + overlap \in 0..NoOverlap
    BY <1>a, ApiKeysAssumption DEF NoOverlap
  <2>4. \A q \in KeyServers : server'[q].key \in 0..keyCount' /\ server'[q].until \in 0..NoOverlap
    BY <2>1, <2>2, <2>3, <1>a DEF KeysInv, Rotations, SuccessorInv
  <2>5. \A n \in 1..keyCount : n \in active \ active' => HasSuccessor(n)
    BY <2>2, ElapsedReplaced DEF Listed
  <2> QED
    BY <2>2, <2>4, <2>5, SuccessorMinted
<1>8. ASSUME NEW p \in KeyServers, setDeadline(p)
      PROVE  SuccessorInv'
  <2> DEFINE k == replacementOf[server[p].key]
  <2>1. k \in 1..keyCount /\ HasSuccessor(k)
    BY <1>8 DEF setDeadline, KeysInv, DatedLater, HasSuccessor
  <2>2. /\ overlapUntil' = [overlapUntil EXCEPT ![k] = server[p].until]
        /\ server' = [server EXCEPT ![p].at = "dated"]
        /\ UNCHANGED <<keyCount, active, replacementOf, revoked>>
    BY <1>8 DEF setDeadline
  <2>3. \A q \in KeyServers : server'[q].key = server[q].key /\ server'[q].until = server[q].until
    BY <2>2 DEF KeysInv, Rotations
  <2>4. overlapUntil' \in [ApiKeys -> 0..NoOverlap]
    BY <2>2 DEF SuccessorInv
  <2> HIDE DEF k
  <2>5. \A n \in 1..keyCount : overlapUntil'[n] # NoOverlap => n = k \/ overlapUntil[n] # NoOverlap
    BY <2>2, ApiKeysAssumption DEF SuccessorInv, ApiKeys, KeysInv
  <2> QED
    BY <2>1, <2>2, <2>3, <2>4, <2>5 DEF SuccessorInv, HasSuccessor, NoOverlap
<1>9. CASE KeyClock
  BY <1>9, SuccessorsStand DEF KeyClock, SuccessorInv
<1>10. CASE UNCHANGED keyVars
  BY <1>10, SuccessorsStand DEF keyVars, SuccessorInv
<1> QED
  BY <1>1, <1>2, <1>3, <1>4, <1>5, <1>6, <1>7, <1>8, <1>9, <1>10 DEF ApiKeysNext

LEMMA KeysInvariant == ApiKeysSpec => [](KeysInv /\ SuccessorInv)
<1>1. ApiKeysInit => KeysInv
  BY ApiKeysAssumption DEF ApiKeysInit, KeysInv, DatedLater, EndedKeysStayOut, IdleServer, NoOverlap, ApiKeys, Rotations
<1>2. ApiKeysInit => SuccessorInv
  BY ApiKeysAssumption DEF ApiKeysInit, SuccessorInv, IdleServer, NoOverlap, ApiKeys
<1> QED
  BY <1>1, <1>2, KeysStep, SuccessorStep, PTL DEF ApiKeysSpec

\* RotationWhole (ApiKeys.tla; auth/api-tokens.mjs:257-259): wherever a rotation of either
\* administration is cut short, a key that stopped passing unrevoked has a successor.
THEOREM RotationsWhole == ApiKeysSpec => []RotationWhole
  BY KeysInvariant, KeysInvImplies, PTL

-----------------------------------------------------------------------------
(* The agents in their worktrees.                                          *)

Counts == Nat \cup {NoBranch}

\* A branch that was never pushed has every commit made on it, or none were made.
NeverLess ==
  \A b \in Branches : pushed[b] = NoBranch =>
    local[b] = made[b] \/ (local[b] = NoBranch /\ made[b] = 0)
\* A worktree has its branch; a run that waits has left neither behind, one that the
\* daemon awaits has both.
TreesOfRuns ==
  /\ \A b \in Branches : tree[b] = "there" => local[b] # NoBranch
  /\ \A r \in Runs : run[r] = "waiting" =>
       local[branchName(r)] = NoBranch /\ tree[branchName(r)] = "none"
  /\ \A r \in Runs : run[r] = "awaited" => daemonUp /\ tree[branchName(r)] = "there"
TreeInv ==
  /\ local \in [Branches -> Counts] /\ made \in [Branches -> Nat] /\ pushed \in [Branches -> Counts]
  /\ tree \in [Branches -> {"none", "there", "left"}]
  /\ run \in [Runs -> {"waiting", "awaited", "loose", "over"}]
  /\ refused = {}
  /\ NeverLess
  /\ TreesOfRuns

LEMMA BranchPerRun ==
  /\ \A r \in Runs : branchName(r) \in Branches
  /\ \A r, q \in Runs : r # q => branchName(r) # branchName(q)
  BY DEF branchName, Branches

LEMMA TreesKeptApart == TreeInv => TreesApart
  BY BranchPerRun DEF TreeInv, TreesOfRuns, TreesApart, Works

\* What a removal does to a branch and its directory, and to no other.
LEMMA Removal ==
  ASSUME NEW b \in Branches, NEW branches \in [Branches -> Counts],
         NEW trees \in [Branches -> {"none", "there", "left"}], NEW locked \in BOOLEAN,
         NEW removed, removed = removeWorktree(b, branches, trees, locked)
  PROVE  /\ removed.trees \in [Branches -> {"none", "there", "left"}]
         /\ removed.branches \in [Branches -> Counts]
         /\ removed.trees[b] # "there"
         /\ trees[b] = "none" => removed.trees[b] = "none"
         /\ pushed[b] = NoBranch => removed.branches[b] = branches[b]
         /\ removed.branches[b] \in {branches[b], NoBranch}
         /\ \A c \in Branches \ {b} : /\ removed.trees[c] = trees[c]
                                      /\ removed.branches[c] = branches[c]
  BY DEF removeWorktree, OnOrigin, NoBranch, Counts

\* The removal at the end of a run keeps the invariant, whether the process ended or not.
LEMMA RemovalAtEnd ==
  ASSUME TreeInv, NEW r \in Runs, NEW where \in {"over", "loose"}, NEW removed,
         NEW locked \in BOOLEAN,
         removed = removeWorktree(branchName(r), local, tree, locked),
         local' = removed.branches, tree' = removed.trees,
         run' = [run EXCEPT ![r] = where],
         UNCHANGED <<pushed, made, refused, daemonUp>>
  PROVE  TreeInv'
<1> DEFINE b == branchName(r)
<1>1. b \in Branches /\ \A q \in Runs \ {r} : branchName(q) \in Branches \ {b}
  BY BranchPerRun
<1>2. /\ tree' \in [Branches -> {"none", "there", "left"}] /\ local' \in [Branches -> Counts]
      /\ tree'[b] # "there"
      /\ pushed[b] = NoBranch => local'[b] = local[b]
      /\ \A c \in Branches \ {b} : tree'[c] = tree[c] /\ local'[c] = local[c]
  BY <1>1, Removal DEF TreeInv
<1>3. /\ run'[r] = where /\ \A q \in Runs \ {r} : run'[q] = run[q]
      /\ run' \in [Runs -> {"waiting", "awaited", "loose", "over"}]
  BY DEF TreeInv
<1>4. branchName(r)' = b /\ \A q \in Runs : branchName(q)' = branchName(q)
  BY DEF branchName
<1> HIDE DEF b
<1>5. NeverLess'
  BY <1>1, <1>2 DEF TreeInv, NeverLess
<1>6. TreesOfRuns'
  BY <1>1, <1>2, <1>3, <1>4 DEF TreeInv, TreesOfRuns
<1> QED
  BY <1>2, <1>3, <1>5, <1>6 DEF TreeInv

LEMMA TreeStep == TreeInv /\ [WorktreesNext]_treeVars => TreeInv'
<1> SUFFICES ASSUME TreeInv, [WorktreesNext]_treeVars
             PROVE  TreeInv'
  OBVIOUS
<1>a. \A q \in Runs : branchName(q)' = branchName(q)
  BY DEF branchName
<1>1. ASSUME NEW r \in Runs, createWorktree(r)
      PROVE  TreeInv'
  <2> DEFINE b == branchName(r)
  <2>1. PICK locked \in BOOLEAN, gitFails \in BOOLEAN :
          LET cleared == removeWorktree(b, local, tree, locked)
              blocked == cleared.branches[b] # NoBranch \/ cleared.trees[b] # "none"
              again == removeWorktree(b, cleared.branches, cleared.trees, locked)
          IN \/ /\ ~blocked /\ ~gitFails
                /\ local' = [cleared.branches EXCEPT ![b] = 0]
                /\ tree' = [cleared.trees EXCEPT ![b] = "there"]
                /\ run' = [run EXCEPT ![r] = "awaited"]
                /\ UNCHANGED refused
             \/ /\ blocked \/ gitFails
                /\ local' = again.branches /\ tree' = again.trees
                /\ run' = [run EXCEPT ![r] = "over"]
                /\ refused' = IF gitFails THEN refused ELSE refused \cup {r}
    BY <1>1 DEF createWorktree
  <2>2. /\ run[r] = "waiting" /\ daemonUp /\ UNCHANGED <<pushed, made, daemonUp>>
    BY <1>1 DEF createWorktree, Daemon
  <2>3. b \in Branches /\ \A q \in Runs \ {r} : branchName(q) \in Branches \ {b}
    BY BranchPerRun
  <2>4. local[b] = NoBranch /\ tree[b] = "none"
    BY <2>2 DEF TreeInv, TreesOfRuns
  <2> DEFINE cleared == removeWorktree(b, local, tree, locked)
             again == removeWorktree(b, cleared.branches, cleared.trees, locked)
  <2>5. /\ cleared.trees \in [Branches -> {"none", "there", "left"}]
        /\ cleared.branches \in [Branches -> Counts]
        /\ cleared.trees[b] = "none" /\ cleared.branches[b] = NoBranch
        /\ \A c \in Branches \ {b} : cleared.trees[c] = tree[c] /\ cleared.branches[c] = local[c]
    BY <2>3, <2>4, Removal DEF TreeInv
  <2>6. /\ again.trees \in [Branches -> {"none", "there", "left"}]
        /\ again.branches \in [Branches -> Counts]
        /\ again.trees[b] = "none" /\ again.branches[b] = NoBranch
        /\ \A c \in Branches \ {b} : again.trees[c] = tree[c] /\ again.branches[c] = local[c]
    BY <2>3, <2>5, Removal
  <2> HIDE DEF cleared, again
  <2>7. \/ /\ local' = [cleared.branches EXCEPT ![b] = 0]
           /\ tree' = [cleared.trees EXCEPT ![b] = "there"]
           /\ run' = [run EXCEPT ![r] = "awaited"]
        \/ /\ local' = again.branches /\ tree' = again.trees
           /\ run' = [run EXCEPT ![r] = "over"]
    BY <2>1 DEF cleared, again
  <2>8. refused' = refused
    BY <2>1, <2>5 DEF cleared
  <2> HIDE DEF b
  <2>9. /\ local' \in [Branches -> Counts] /\ tree' \in [Branches -> {"none", "there", "left"}]
        /\ run' \in [Runs -> {"waiting", "awaited", "loose", "over"}]
        /\ \A c \in Branches \ {b} : tree'[c] = tree[c] /\ local'[c] = local[c]
        /\ \A q \in Runs \ {r} : run'[q] = run[q]
        /\ \/ local'[b] = 0 /\ tree'[b] = "there" /\ run'[r] = "awaited"
           \/ local'[b] = NoBranch /\ tree'[b] = "none" /\ run'[r] = "over"
    BY <2>3, <2>5, <2>6, <2>7 DEF TreeInv, Counts
  <2>10. NeverLess'
    BY <2>2, <2>3, <2>4, <2>9 DEF TreeInv, NeverLess, NoBranch
  <2>11. TreesOfRuns'
    BY <1>a, <2>2, <2>3, <2>9 DEF TreeInv, TreesOfRuns, NoBranch, b
  <2> QED
    BY <2>2, <2>8, <2>9, <2>10, <2>11 DEF TreeInv
<1>2. ASSUME NEW r \in Runs, RunEnds(r)
      PROVE  TreeInv'
  <2>1. PICK locked \in BOOLEAN :
          LET removed == removeWorktree(branchName(r), local, tree, locked)
          IN local' = removed.branches /\ tree' = removed.trees
    BY <1>2 DEF RunEnds
  <2>2. PICK where \in {"over", "loose"} : run' = [run EXCEPT ![r] = where]
    BY <1>2 DEF RunEnds
  <2> QED
    BY <1>2, <2>1, <2>2, RemovalAtEnd DEF RunEnds, Daemon
<1>3. ASSUME NEW r \in Runs, AgentCommits(r)
      PROVE  TreeInv'
  <2> DEFINE b == branchName(r)
  <2>1. /\ b \in Branches /\ tree[b] = "there"
        /\ local' = [local EXCEPT ![b] = @ + 1] /\ made' = [made EXCEPT ![b] = @ + 1]
        /\ UNCHANGED <<pushed, tree, run, refused, daemonUp>>
    BY <1>3, BranchPerRun DEF AgentCommits, Works, Daemon
  <2> HIDE DEF b
  <2>2. local[b] \in Nat
    BY <2>1 DEF TreeInv, TreesOfRuns, Counts
  <2>3. /\ local' \in [Branches -> Counts] /\ made' \in [Branches -> Nat]
        /\ local'[b] = local[b] + 1 /\ made'[b] = made[b] + 1
        /\ \A c \in Branches \ {b} : local'[c] = local[c] /\ made'[c] = made[c]
    BY <2>1, <2>2 DEF TreeInv, Counts
  <2>4. NeverLess'
    BY <2>1, <2>2, <2>3 DEF TreeInv, NeverLess, NoBranch
  <2>5. TreesOfRuns'
    BY <1>a, <2>1, <2>2, <2>3, BranchPerRun DEF TreeInv, TreesOfRuns, NoBranch
  <2> QED
    BY <2>1, <2>3, <2>4, <2>5 DEF TreeInv
<1>4. ASSUME NEW r \in Runs, AgentPushes(r)
      PROVE  TreeInv'
  <2>1. /\ branchName(r) \in Branches /\ local[branchName(r)] > 0
        /\ pushed' = [pushed EXCEPT ![branchName(r)] = local[branchName(r)]]
        /\ UNCHANGED <<local, tree, run, made, refused, daemonUp>>
    BY <1>4, BranchPerRun DEF AgentPushes, Daemon
  <2>2. pushed' \in [Branches -> Counts]
    BY <2>1 DEF TreeInv
  <2>3. NeverLess'
    BY <2>1 DEF TreeInv, NeverLess, NoBranch, Counts
  <2>4. TreesOfRuns'
    BY <1>a, <2>1, BranchPerRun DEF TreeInv, TreesOfRuns
  <2> QED
    BY <2>1, <2>2, <2>3, <2>4 DEF TreeInv
<1>5. ASSUME NEW r \in Runs, LooseEnds(r)
      PROVE  TreeInv'
  <2>1. /\ run' = [run EXCEPT ![r] = "over"]
        /\ UNCHANGED <<local, pushed, tree, made, refused, daemonUp>>
    BY <1>5 DEF LooseEnds, Daemon
  <2>2. TreesOfRuns'
    BY <1>a, <2>1, BranchPerRun DEF TreeInv, TreesOfRuns
  <2> QED
    BY <2>1, <2>2 DEF TreeInv, NeverLess
<1>6. ASSUME NEW b \in Branches, mergePr(b)
      PROVE  TreeInv'
  <2>1. /\ pushed[b] # NoBranch /\ UNCHANGED <<pushed, tree, run, made, refused, daemonUp>>
        /\ local' = IF tree[b] = "there" THEN local ELSE [local EXCEPT ![b] = NoBranch]
    BY <1>6 DEF mergePr, OnOrigin, Daemon
  <2>2. /\ local' \in [Branches -> Counts]
        /\ local'[b] = IF tree[b] = "there" THEN local[b] ELSE NoBranch
        /\ \A c \in Branches \ {b} : local'[c] = local[c]
    BY <2>1 DEF TreeInv, Counts
  <2>3. NeverLess'
    BY <2>1, <2>2 DEF TreeInv, NeverLess
  <2>4. TreesOfRuns'
    <3>1. \A c \in Branches : local[c] = NoBranch => local'[c] = NoBranch
      BY <2>2
    <3>2. \A c \in Branches : tree'[c] = "there" => local'[c] # NoBranch
      BY <2>1, <2>2 DEF TreeInv, TreesOfRuns
    <3> QED
      BY <1>a, <2>1, <3>1, <3>2, BranchPerRun DEF TreeInv, TreesOfRuns
  <2> QED
    BY <2>1, <2>2, <2>3, <2>4 DEF TreeInv
<1>7. CASE DaemonStops
  <2>1. /\ UNCHANGED <<local, pushed, tree, made, refused>>
        /\ run' = [r \in Runs |-> IF run[r] = "awaited" THEN "loose" ELSE run[r]]
    BY <1>7 DEF DaemonStops
  <2>2. TreesOfRuns'
    BY <1>a, <2>1 DEF TreeInv, TreesOfRuns
  <2> QED
    BY <2>1, <2>2 DEF TreeInv, NeverLess
<1>8. CASE Boot
  <2>1. /\ ~daemonUp /\ UNCHANGED <<local, pushed, run, made, refused>>
        /\ tree' \in [Branches -> {"none", "left"}]
        /\ \A b \in Branches : tree[b] = "none" => tree'[b] = "none"
    BY <1>8 DEF Boot, pruneAllWorktrees
  <2>2. TreesOfRuns'
    BY <1>a, <2>1, BranchPerRun DEF TreeInv, TreesOfRuns
  <2> QED
    BY <2>1, <2>2 DEF TreeInv, NeverLess
<1>9. ASSUME UNCHANGED <<local, pushed, tree, run, made, refused, daemonUp>>
      PROVE  TreeInv'
  BY <1>9, <1>a DEF TreeInv, NeverLess, TreesOfRuns
<1>10. ASSUME NEW b \in Branches, StrayCheckout(b)
       PROVE  TreeInv'
  BY <1>9, <1>10 DEF StrayCheckout, Daemon
<1>11. CASE RenderBoard \/ FounderEdits \/ FounderPutsAway \/ UNCHANGED treeVars
  BY <1>9, <1>11 DEF RenderBoard, FounderEdits, FounderPutsAway, treeVars, Daemon
<1> QED
  BY <1>1, <1>2, <1>3, <1>4, <1>5, <1>6, <1>7, <1>8, <1>10, <1>11 DEF WorktreesNext

LEMMA TreeInit == WorktreesInit => TreeInv
  BY BranchPerRun DEF WorktreesInit, TreeInv, NeverLess, TreesOfRuns, NoBranch, Counts

\* Work that was never pushed is never destroyed, whatever removes the tree it was made
\* in (worktree.mjs:160-163, 172-173, 226-245; verify-loop.mjs:186).
THEOREM UnpushedWorkKept == WorktreesSpec => []UnpushedKept
<1>1. TreeInv => UnpushedKept
  BY DEF TreeInv, NeverLess, UnpushedKept
<1> QED
  BY <1>1, TreeInit, TreeStep, PTL DEF WorktreesSpec

\* An agent the daemon waits for works alone in a tree of its own, and no run is refused
\* a tree for what another left behind (worktree.mjs:9-13, 40-53).
THEOREM AgentsApart == WorktreesSpec => []TreesApart
  BY TreeInit, TreeStep, TreesKeptApart, PTL DEF WorktreesSpec

LEMMA FounderStep == FounderWorkStays /\ [WorktreesNext]_treeVars => FounderWorkStays'
<1> SUFFICES ASSUME FounderWorkStays, [WorktreesNext]_treeVars PROVE FounderWorkStays'
  OBVIOUS
<1>1. ASSUME NEW r \in Runs,
             createWorktree(r) \/ AgentCommits(r) \/ AgentPushes(r) \/ RunEnds(r) \/ LooseEnds(r)
      PROVE  FounderWorkStays'
  <2>1. UNCHANGED <<head, changed, workOn>>
    BY <1>1 DEF createWorktree, AgentCommits, AgentPushes, RunEnds, LooseEnds, Primary
  <2> QED
    BY <2>1 DEF FounderWorkStays
\* gh leaves the branch it merges only where nothing is uncommitted.
<1>2. ASSUME NEW b \in Branches, mergePr(b)
      PROVE  FounderWorkStays'
  BY <1>2 DEF mergePr, FounderWorkStays
<1>3. ASSUME NEW b \in Branches, StrayCheckout(b)
      PROVE  FounderWorkStays'
  BY <1>3 DEF StrayCheckout, FounderWorkStays
<1>4. CASE DaemonStops
  BY <1>4 DEF DaemonStops, Primary, FounderWorkStays
\* A boot leaves a branch only where the generated files are all that changed.
<1>5. CASE Boot
  <2>1. /\ workOn' = workOn
        /\ \/ changed \subseteq {"board"} /\ changed' = changed \ {"board"}
           \/ UNCHANGED <<head, changed>>
    BY <1>5 DEF Boot, restorePrimaryTreeToMain, MayRestore
  <2> QED
    BY <2>1 DEF FounderWorkStays
<1>6. CASE RenderBoard \/ FounderEdits \/ FounderPutsAway
  BY <1>6 DEF RenderBoard, FounderEdits, FounderPutsAway, FounderWorkStays
<1>7. CASE UNCHANGED treeVars
  BY <1>7 DEF treeVars, FounderWorkStays
<1> QED
  BY <1>1, <1>2, <1>3, <1>4, <1>5, <1>6, <1>7 DEF WorktreesNext

\* What the founder has not committed stays on the branch it was made on, whatever
\* strands the primary tree and however often the daemon boots (boot-guard.mjs:18-21).
THEOREM FounderKeepsWork == WorktreesSpec => []FounderWorkStays
<1>1. WorktreesInit => FounderWorkStays
  BY DEF WorktreesInit, FounderWorkStays
<1> QED
  BY <1>1, FounderStep, PTL DEF WorktreesSpec

---------------------------------------------------------------------------
(* Access.  What makes an acceptance whole is that an address can found    *)
(* its account only once: whoever joined has an account, and accept asks   *)
(* for one without.                                                        *)

InvitationStatuses == {"pending", "accepted", "revoked", "cancelled", "superseded"}
InvitationRows == [status : InvitationStatuses, email : Emails, project : Projects,
                   role : Roles, expires : Int]
Given(rows) == {i \in Invitations : rows[i] # NoInvitation}

\* What the rows of the table and those who came in through them keep to.
RowsInv(rows) ==
    /\ rows \in [Invitations -> InvitationRows \cup {NoInvitation}]
    /\ Given(rows) = 1..Cardinality(Given(rows))
    /\ joined \subseteq Given(rows)
    /\ \A i \in Given(rows) : rows[i].status = "accepted" => i \in joined
    /\ \A i \in joined : /\ rows[i].status = "accepted" \/ i \in halfway
                         /\ rows[i].email \in users
    /\ \A i, j \in joined : rows[i].email = rows[j].email => i = j

AccessInv ==
    /\ acNow \in 0..AccessTime /\ users \subseteq Emails
    /\ halfway \subseteq Given(invitation)
    /\ member \in [Emails \X Projects -> Roles \cup {NoMember}]
    /\ \A x \in Emails \X Projects : member[x] # NoMember => x[1] \in users
    /\ RowsInv(invitation)

LEMMA GivenIsInvited == Given(invitation) = Invited
  BY DEF Given, Invited

\* A row that was given has the columns of an invitation, and no other row does.
LEMMA GivenRow ==
  ASSUME NEW rows \in [Invitations -> InvitationRows \cup {NoInvitation}], NEW i \in Invitations
  PROVE  i \in Given(rows) <=> rows[i] \in InvitationRows
<1>1. ASSUME rows[i] \in InvitationRows
      PROVE  rows[i] # NoInvitation
  BY <1>1 DEF InvitationRows, InvitationStatuses, NoInvitation
<1> QED
  BY <1>1 DEF Given

LEMMA AccessInvImplies == AccessInv => AccessTypeOK /\ AcceptanceWhole
<1> SUFFICES ASSUME AccessInv PROVE AccessTypeOK /\ AcceptanceWhole
  OBVIOUS
<1> USE GivenIsInvited DEF AccessInv, RowsInv
<1>1. \A i \in Invited : invitation[i] \in InvitationRows
  BY GivenRow DEF Invited
<1>2. AccessTypeOK
  <2>1. \A i \in Invited :
          /\ invitation[i].status \in InvitationStatuses
          /\ invitation[i].email \in Emails /\ invitation[i].project \in Projects
          /\ invitation[i].role \in Roles
    BY <1>1 DEF InvitationRows
  <2> QED
    BY <2>1 DEF AccessTypeOK, InvitationStatuses
<1>3. AcceptanceWhole
  BY DEF AcceptanceWhole
<1> QED
  BY <1>2, <1>3

LEMMA AccessInitInv == AccessInit => AccessInv
<1> SUFFICES ASSUME AccessInit PROVE AccessInv
  OBVIOUS
<1>1. Given(invitation) = {}
  BY DEF AccessInit, Given
<1>2. 1..Cardinality(Given(invitation)) = {}
  BY <1>1, FS_EmptySet
<1>3. RowsInv(invitation)
  BY <1>1, <1>2 DEF AccessInit, RowsInv
<1>4. acNow \in 0..AccessTime
  BY AccessAssumption DEF AccessInit
<1> QED
  BY <1>3, <1>4 DEF AccessInit, AccessInv

\* Withdrawing rows that are pending costs nobody the invitation that brought him in.
LEMMA PendingWithdrawn ==
  ASSUME AccessInv, NEW S \in SUBSET Invited, \A i \in S : Pending(i),
         NEW st \in {"revoked", "cancelled", "superseded"}
  PROVE  RowsInv(Withdraw(S, st)) /\ Given(Withdraw(S, st)) = Given(invitation)
<1> DEFINE rows == Withdraw(S, st)
<1>1. \A i \in Invitations : rows[i] = IF i \in S THEN [invitation[i] EXCEPT !.status = st]
                                       ELSE invitation[i]
  BY DEF Withdraw
<1>2. \A i \in S : i \in Invitations /\ invitation[i] \in InvitationRows
  BY GivenRow, GivenIsInvited DEF AccessInv, RowsInv, Invited
<1>3. \A i \in S : /\ rows[i] \in InvitationRows /\ rows[i].status = st
                   /\ rows[i].email = invitation[i].email
  BY <1>1, <1>2 DEF InvitationRows, InvitationStatuses
<1>4. rows \in [Invitations -> InvitationRows \cup {NoInvitation}]
  BY <1>1, <1>3 DEF Withdraw, AccessInv, RowsInv
<1>5. Given(rows) = Given(invitation)
  <2>1. \A i \in Invitations : i \in Given(rows) <=> i \in Given(invitation)
    BY <1>1, <1>2, <1>3, <1>4, GivenRow DEF AccessInv, RowsInv
  <2> QED
    BY <2>1 DEF Given
<1> HIDE DEF rows
<1>6. \A i \in Given(rows) : rows[i].status = "accepted" => i \in joined
  BY <1>1, <1>3, <1>5 DEF AccessInv, RowsInv, Given
<1>7. \A i \in joined : rows[i].email = invitation[i].email
  BY <1>1, <1>3 DEF AccessInv, RowsInv, Given
<1>8. \A i \in joined : rows[i].status = "accepted" \/ i \in halfway
  BY <1>1 DEF AccessInv, RowsInv, Given, Pending
<1> QED
  BY <1>4, <1>5, <1>6, <1>7, <1>8 DEF AccessInv, RowsInv, rows

\* A new row is one nobody has come in through.
LEMMA RowCreated ==
  ASSUME AccessInv, NEW rows, RowsInv(rows), Given(rows) = Given(invitation),
         Cardinality(Invited) < MaxInvitations,
         NEW email \in Emails, NEW project \in Projects, NEW role \in Roles
  PROVE  /\ RowsInv(Created(rows, email, project, role))
         /\ Given(invitation) \subseteq Given(Created(rows, email, project, role))
<1> DEFINE n == Cardinality(Invited)
           add == [status |-> "pending", email |-> email, project |-> project, role |-> role,
                   expires |-> acNow + InviteLife]
           new == Created(rows, email, project, role)
<1>1. n \in Nat /\ Given(rows) = 1..n
  <2>1. IsFiniteSet(1..MaxInvitations)
    BY FS_Interval, AccessAssumption
  <2>2. IsFiniteSet(Invited)
    BY <2>1, FS_Subset DEF Invited, Invitations
  <2> QED
    BY <2>2, FS_CardinalityType, GivenIsInvited DEF RowsInv
<1>2. n + 1 \in Invitations
  BY <1>1, AccessAssumption DEF Invitations
<1>3. add \in InvitationRows /\ add.status = "pending"
  BY AccessAssumption DEF InvitationRows, InvitationStatuses, AccessInv
<1>4. new = [rows EXCEPT ![n + 1] = add]
  BY DEF Created
<1> HIDE DEF n, add, new
<1>5. new \in [Invitations -> InvitationRows \cup {NoInvitation}]
  BY <1>2, <1>3, <1>4 DEF RowsInv
<1>6. \A i \in Invitations : new[i] = IF i = n + 1 THEN add ELSE rows[i]
  BY <1>2, <1>4 DEF RowsInv
<1>7. Given(new) = 1..(n + 1)
  <2>1. \A i \in Invitations : i \in Given(new) <=> i = n + 1 \/ i \in Given(rows)
    BY <1>2, <1>3, <1>5, <1>6, GivenRow DEF RowsInv
  <2>2. 1..(n + 1) \subseteq Invitations
    BY <1>1, <1>2, AccessAssumption DEF Invitations
  <2>3. \A i \in 1..(n + 1) : i = n + 1 \/ i \in 1..n
    BY <1>1
  <2> QED
    BY <1>1, <2>1, <2>2, <2>3 DEF Given
<1>8. Cardinality(Given(new)) = n + 1
  BY <1>1, <1>7, FS_Interval
<1>9. n + 1 \notin Given(rows) /\ n + 1 \notin joined
  BY <1>1 DEF RowsInv
<1>10. \A i \in Given(new) : new[i].status = "accepted" => i \in joined
  BY <1>1, <1>3, <1>6, <1>7, <1>2 DEF RowsInv, Given
<1>11. \A i \in joined : new[i] = rows[i]
  BY <1>6, <1>9 DEF RowsInv, Given
<1>12. joined \subseteq Given(new)
  BY <1>1, <1>7 DEF RowsInv
<1>13. \A i \in joined : (new[i].status = "accepted" \/ i \in halfway) /\ new[i].email \in users
  BY <1>11 DEF RowsInv
<1>14. \A i, j \in joined : new[i].email = new[j].email => i = j
  BY <1>11 DEF RowsInv
<1>15. Given(new) = 1..Cardinality(Given(new))
  BY <1>7, <1>8
<1>16. RowsInv(new)
  BY <1>5, <1>10, <1>12, <1>13, <1>14, <1>15 DEF RowsInv
<1>17. Given(invitation) \subseteq Given(new)
  BY <1>1, <1>7
<1> QED
  BY <1>16, <1>17 DEF new

\* Whoever writes rows only, and leaves those he finds, keeps the invariant.
LEMMA RowsOnly ==
  ASSUME AccessInv, RowsInv(invitation'), Given(invitation) \subseteq Given(invitation'),
         UNCHANGED <<acNow, users, member, joined, halfway>>
  PROVE  AccessInv'
<1>1. RowsInv(invitation)'
  BY DEF RowsInv, Given
<1>2. Given(invitation)' = Given(invitation')
  BY DEF Given
<1> QED
  BY <1>1, <1>2 DEF AccessInv

LEMMA InviteInv ==
  ASSUME AccessInv, NEW email \in Emails, NEW project \in Projects, NEW role \in Roles,
         invite(email, project, role)
  PROVE  AccessInv'
<1> DEFINE S == {i \in Of(email, project) : Pending(i)}
           rows == Withdraw(S, "superseded")
<1>1. S \in SUBSET Invited /\ \A i \in S : Pending(i)
  BY DEF Of
<1>2. RowsInv(rows) /\ Given(rows) = Given(invitation)
  BY <1>1, PendingWithdrawn
<1>3. RowsInv(Created(rows, email, project, role)) /\ Given(invitation) \subseteq Given(Created(rows, email, project, role))
  BY <1>2, RowCreated DEF invite
<1>4. RowsInv(invitation') /\ Given(invitation) \subseteq Given(invitation')
  BY <1>2, <1>3 DEF invite
<1> QED
  BY <1>4, RowsOnly DEF invite

LEMMA RowAlone ==
  ASSUME AccessInv, NEW i \in Invited
  PROVE  /\ invitation[i] \in InvitationRows /\ i \in Invitations /\ i \in Given(invitation)
         /\ invitation[i].email \in Emails /\ invitation[i].project \in Projects
         /\ invitation[i].role \in Roles
  BY GivenRow, GivenIsInvited DEF AccessInv, RowsInv, Invited, InvitationRows

\* Whatever part of an acceptance reaches the disk, of an address without an account.
LEMMA AcceptInv ==
  ASSUME AccessInv, NEW i \in Invited, NEW done \in 1..3, Written(i, done),
         invitation[i].email \notin users, acNow' = acNow,
         halfway' = IF done = 3 THEN halfway ELSE halfway \cup {i}
  PROVE  AccessInv'
<1> DEFINE email == invitation[i].email
           x == <<invitation[i].email, invitation[i].project>>
<1>1. i \notin joined
  BY DEF AccessInv, RowsInv
<1>2. users' = users \cup {email}
  BY DEF Written
<1>3. joined' = joined \/ joined' = joined \cup {i}
  BY DEF Written
<1>4. done = 3 => i \in joined'
  BY DEF Written
<1>5. \A j \in Invitations :
        \/ invitation'[j] = invitation[j]
        \/ j = i /\ done = 3 /\ invitation'[j] = [invitation[i] EXCEPT !.status = "accepted"]
  BY DEF Written, Withdraw
<1>6. [invitation[i] EXCEPT !.status = "accepted"] \in InvitationRows
  BY RowAlone DEF InvitationRows, InvitationStatuses
<1>7. invitation' \in [Invitations -> InvitationRows \cup {NoInvitation}]
  <2>1. invitation' = [j \in Invitations |-> invitation'[j]]
    BY DEF Written, Withdraw, AccessInv, RowsInv
  <2>2. \A j \in Invitations : invitation'[j] \in InvitationRows \cup {NoInvitation}
    BY <1>5, <1>6 DEF AccessInv, RowsInv
  <2> QED
    BY <2>1, <2>2
<1>8. Given(invitation') = Given(invitation)
  <2>1. \A j \in Invitations : j \in Given(invitation') <=> j \in Given(invitation)
    BY <1>5, <1>6, <1>7, GivenRow, RowAlone DEF AccessInv, RowsInv
  <2> QED
    BY <2>1 DEF Given
<1>9. \A j \in Given(invitation) : /\ invitation'[j].email = invitation[j].email
                                   /\ \/ invitation'[j].status = invitation[j].status
                                      \/ j = i /\ done = 3 /\ invitation'[j].status = "accepted"
  <2>1. ASSUME NEW j \in Given(invitation)
        PROVE  /\ invitation'[j].email = invitation[j].email
               /\ \/ invitation'[j].status = invitation[j].status
                  \/ j = i /\ done = 3 /\ invitation'[j].status = "accepted"
    <3>1. j \in Invitations
      BY DEF Given
    <3>2. CASE invitation'[j] = invitation[j]
      BY <3>2
    <3>3. CASE j = i /\ done = 3 /\ invitation'[j] = [invitation[i] EXCEPT !.status = "accepted"]
      BY <3>3, RowAlone DEF InvitationRows
    <3> QED
      BY <1>5, <3>1, <3>2, <3>3
  <2> QED
    BY <2>1
<1>10. \A j \in Given(invitation') : invitation'[j].status = "accepted" => j \in joined'
  BY <1>3, <1>4, <1>8, <1>9 DEF AccessInv, RowsInv
<1>11. \A j \in joined' : /\ invitation'[j].status = "accepted" \/ j \in halfway'
                          /\ invitation'[j].email \in users'
  <2>1. ASSUME NEW j \in joined, j # i
        PROVE  /\ invitation'[j].status = "accepted" \/ j \in halfway'
               /\ invitation'[j].email \in users'
    BY <1>2, <1>9, <2>1 DEF AccessInv, RowsInv
  <2>2. invitation'[i].email \in users'
    BY <1>2, <1>9, RowAlone
  <2>3. done = 3 => invitation'[i].status = "accepted"
    BY <1>6, RowAlone DEF Written, Withdraw, InvitationRows
  <2>4. done # 3 => i \in halfway'
    OBVIOUS
  <2> QED
    BY <1>1, <1>3, <2>1, <2>2, <2>3, <2>4
<1>12. \A j, k \in joined' : invitation'[j].email = invitation'[k].email => j = k
  BY <1>1, <1>3, <1>9, RowAlone DEF AccessInv, RowsInv
<1>13. RowsInv(invitation)'
  <2>1. joined' \subseteq Given(invitation')
    BY <1>3, <1>8, RowAlone DEF AccessInv, RowsInv
  <2>2. Given(invitation)' = Given(invitation')
    BY DEF Given
  <2>3. Given(invitation') = 1..Cardinality(Given(invitation'))
    BY <1>8 DEF AccessInv, RowsInv
  <2> HIDE DEF Given
  <2> QED
    BY <1>7, <1>10, <1>11, <1>12, <2>1, <2>2, <2>3 DEF RowsInv
<1>14. member' = member \/ member' = [member EXCEPT ![x] = invitation[i].role]
  BY DEF Written
<1>15. x \in Emails \X Projects /\ invitation[i].role \in Roles /\ x[1] = email
  BY RowAlone
<1>16. member' \in [Emails \X Projects -> Roles \cup {NoMember}]
  BY <1>14, <1>15 DEF AccessInv
<1>17. \A y \in Emails \X Projects : member'[y] # NoMember => y[1] \in users'
  BY <1>2, <1>14, <1>15 DEF AccessInv
<1>18. halfway' \subseteq Given(invitation')
  BY <1>8, RowAlone DEF AccessInv
<1>19. users' \subseteq Emails
  BY <1>2, RowAlone DEF AccessInv
<1>20. Given(invitation)' = Given(invitation')
  BY DEF Given
<1> QED
  BY <1>13, <1>16, <1>17, <1>18, <1>19, <1>20 DEF AccessInv

\* The rest of the table is not looked at by those who write memberships and accounts.
LEMMA MembersOnly ==
  ASSUME AccessInv, UNCHANGED <<acNow, invitation, joined, halfway>>,
         users \subseteq users', users' \subseteq Emails,
         member' \in [Emails \X Projects -> Roles \cup {NoMember}],
         \A x \in Emails \X Projects : member'[x] # NoMember => x[1] \in users'
  PROVE  AccessInv'
<1>1. RowsInv(invitation)'
  BY DEF AccessInv, RowsInv, Given
<1> QED
  BY <1>1 DEF AccessInv, Given

LEMMA AccessStep == AccessInv /\ [AccessNext]_accessVars => AccessInv'
<1> SUFFICES ASSUME AccessInv, [AccessNext]_accessVars PROVE AccessInv'
  OBVIOUS
<1>1. ASSUME NEW email \in Emails, NEW project \in Projects, NEW role \in Roles,
             create(email, project, role)
      PROVE  AccessInv'
  <2>1. RowsInv(invitation') /\ Given(invitation) \subseteq Given(invitation')
    BY <1>1, RowCreated DEF create, AccessInv
  <2> QED
    BY <1>1, <2>1, RowsOnly DEF create
<1>2. ASSUME NEW email \in Emails, NEW project \in Projects, NEW role \in Roles,
             invite(email, project, role)
      PROVE  AccessInv'
  BY <1>2, InviteInv
<1>3. ASSUME NEW email \in Emails, NEW project \in Projects, NEW role \in Roles,
             addMember(email, project, role) \/ changeMembership(email, project, role)
      PROVE  AccessInv'
  <2> DEFINE x == <<email, project>>
  <2>1. email \in users /\ member' = [member EXCEPT ![x] = role] /\ UNCHANGED <<acNow, users, invitation, joined, halfway>>
    <3>1. x \in Emails \X Projects /\ x[1] = email
      OBVIOUS
    <3> QED
      BY <1>3, <3>1 DEF addMember, changeMembership, AccessInv
  <2>2. member' \in [Emails \X Projects -> Roles \cup {NoMember}]
    BY <2>1 DEF AccessInv
  <2>3. \A y \in Emails \X Projects : member'[y] # NoMember => y[1] \in users'
    BY <2>1 DEF AccessInv
  <2> QED
    BY <2>1, <2>2, <2>3, MembersOnly DEF AccessInv
<1>4. ASSUME NEW email \in Emails, NEW project \in Projects, removeMember(email, project)
      PROVE  AccessInv'
  <2>1. member' \in [Emails \X Projects -> Roles \cup {NoMember}]
    BY <1>4 DEF removeMember, AccessInv
  <2>2. \A y \in Emails \X Projects : member'[y] # NoMember => y[1] \in users'
    BY <1>4 DEF removeMember, AccessInv
  <2> QED
    BY <1>4, <2>1, <2>2, MembersOnly DEF removeMember, AccessInv
<1>5. ASSUME NEW email \in Emails, createUser(email)
      PROVE  AccessInv'
  BY <1>5, MembersOnly DEF createUser, AccessInv
<1>6. ASSUME NEW i \in Invitations, resend(i)
      PROVE  AccessInv'
  BY <1>6, RowAlone, InviteInv DEF resend
<1>7. ASSUME NEW i \in Invitations, revoke(i)
      PROVE  AccessInv'
  <2>1. PICK st \in {"revoked", "cancelled"} : invitation' = Withdraw({i}, st)
    BY <1>7 DEF revoke
  <2>2. RowsInv(Withdraw({i}, st)) /\ Given(Withdraw({i}, st)) = Given(invitation)
    BY <1>7, PendingWithdrawn DEF revoke
  <2> QED
    BY <1>7, <2>1, <2>2, RowsOnly DEF revoke
<1>8. ASSUME NEW i \in Invitations, accept(i)
      PROVE  AccessInv'
  <2>1. i \in Invited /\ Written(i, 3) /\ invitation[i].email \notin users /\ UNCHANGED <<acNow, halfway>>
    BY <1>8 DEF accept
  <2> QED
    BY <2>1, AcceptInv
<1>9. ASSUME NEW i \in Invitations, acceptAndDie(i)
      PROVE  AccessInv'
  <2>1. /\ i \in Invited /\ invitation[i].email \notin users
        /\ halfway' = halfway \cup {i} /\ acNow' = acNow
    BY <1>9 DEF acceptAndDie
  <2>2. PICK done \in 1..2 : Written(i, done)
    BY <1>9 DEF acceptAndDie
  <2>3. done \in 1..3 /\ done # 3
    OBVIOUS
  <2> QED
    BY <2>1, <2>2, <2>3, AcceptInv
<1>10. CASE AccessClock
  <2>1. acNow' \in 0..AccessTime /\ UNCHANGED <<users, invitation, member, joined, halfway>>
    BY <1>10, AccessAssumption DEF AccessClock, AccessInv
  <2> QED
    BY <2>1 DEF AccessInv, RowsInv, Given
<1>11. CASE UNCHANGED accessVars
  BY <1>11 DEF accessVars, AccessInv, RowsInv, Given
<1> QED
  BY <1>1, <1>2, <1>3, <1>4, <1>5, <1>6, <1>7, <1>8, <1>9, <1>10, <1>11 DEF AccessNext

\* AcceptanceWhole (Access.tla; user-store.mjs:429-456): whatever invitations are made,
\* superseded and withdrawn, and wherever the process dies in an acceptance, an invitation
\* marked accepted brought a member in, and an address was brought in once.
THEOREM AcceptancesWhole == AccessSpec => []AcceptanceWhole
<1>1. AccessInv => AcceptanceWhole
  BY AccessInvImplies
<1> QED
  BY <1>1, AccessInitInv, AccessStep, PTL DEF AccessSpec

LEMMA AccessTypes == AccessSpec => []AccessTypeOK
<1>1. AccessInv => AccessTypeOK
  BY AccessInvImplies
<1> QED
  BY <1>1, AccessInitInv, AccessStep, PTL DEF AccessSpec

---------------------------------------------------------------------------
(* Setup.  The files: every plan begins with the same target, so whoever   *)
(* has created any has created that one, and is alone.                     *)

First(n) == {Targets[i] : i \in 1..n}

Commits == [step : {"idle", "writing", "failed"}, created : 0..3, validation : Nat]

FilesInv ==
    /\ file \in [TargetSet -> {Absent, Outsider} \cup Installers]
    /\ installer \in [Installers -> Commits]
    /\ gone \subseteq Installers
    /\ \A w \in Installers :
          /\ installer[w].created <= Len(Plan(w))
          /\ installer[w].step # "idle" => Owned(w) = First(installer[w].created)
          /\ installer[w].step = "idle" => installer[w].created = 0
          /\ installer[w].step = "idle" /\ w \notin gone => Owned(w) \in {{}, PlanSet(w)}
          /\ Owned(w) # {} => Targets[1] \in Owned(w)

LEMMA TargetsAre ==
  /\ Targets[1] = "tenant.yaml" /\ Targets[2] = "policy.yaml" /\ Targets[3] = ".env"
  /\ DOMAIN Targets = 1..3 /\ TargetSet = {Targets[1], Targets[2], Targets[3]}
<1>1. /\ Targets[1] = "tenant.yaml" /\ Targets[2] = "policy.yaml" /\ Targets[3] = ".env"
      /\ DOMAIN Targets = 1..3
  BY DEF Targets
<1>2. \A i \in 1..3 : i = 1 \/ i = 2 \/ i = 3
  OBVIOUS
<1>3. TargetSet = {Targets[1], Targets[2], Targets[3]}
  BY <1>1, <1>2 DEF TargetSet
<1> QED
  BY <1>1, <1>3

LEMMA FirstGrows ==
  /\ First(0) = {}
  /\ \A n \in 0..2 : /\ First(n + 1) = First(n) \cup {Targets[n + 1]}
                     /\ Targets[n + 1] \notin First(n) /\ Targets[n + 1] \in TargetSet
  /\ \A n \in 1..3 : Targets[1] \in First(n)
<1>1. First(0) = {}
  BY DEF First
<1>2. ASSUME NEW n \in 0..2
      PROVE  /\ First(n + 1) = First(n) \cup {Targets[n + 1]}
             /\ Targets[n + 1] \notin First(n) /\ Targets[n + 1] \in TargetSet
  <2>1. 1..(n + 1) = (1..n) \cup {n + 1}
    OBVIOUS
  <2>2. First(n + 1) = First(n) \cup {Targets[n + 1]}
    BY <2>1 DEF First
  <2>3. n = 0 \/ n = 1 \/ n = 2
    OBVIOUS
  <2>4. \A i \in 1..n : Targets[i] # Targets[n + 1]
    BY <2>3, TargetsAre
  <2> QED
    BY <2>2, <2>3, <2>4, TargetsAre DEF First
<1>3. \A n \in 1..3 : Targets[1] \in First(n)
  BY DEF First
<1> QED
  BY <1>1, <1>2, <1>3

\* A plan is the first two targets or all three.
LEMMA PlanIs ==
  ASSUME NEW w \in Installers
  PROVE  /\ Len(Plan(w)) \in 2..3 /\ PlanSet(w) = First(Len(Plan(w)))
         /\ \A i \in 1..Len(Plan(w)) : Plan(w)[i] = Targets[i]
<1>1. Targets \in Seq({"tenant.yaml", "policy.yaml", ".env"}) /\ Len(Targets) = 3
  BY DEF Targets
<1>2. Len(Plan(w)) \in 2..3 /\ DOMAIN Plan(w) = 1..Len(Plan(w))
  <2>1. w = "desktop" => Len(Plan(w)) = 2 /\ DOMAIN Plan(w) = 1..2
    BY <1>1 DEF Plan
  <2>2. w # "desktop" => Len(Plan(w)) = 3 /\ DOMAIN Plan(w) = 1..3
    BY <1>1 DEF Plan
  <2> QED
    BY <2>1, <2>2
<1>3. \A i \in 1..Len(Plan(w)) : Plan(w)[i] = Targets[i]
  <2>1. CASE w = "desktop"
    <3>1. Plan(w) = SubSeq(Targets, 1, 2)
      BY <2>1 DEF Plan
    <3>2. Len(SubSeq(Targets, 1, 2)) = 2 /\ \A i \in 1..2 : SubSeq(Targets, 1, 2)[i] = Targets[i]
      BY <1>1
    <3> QED
      BY <3>1, <3>2
  <2>2. CASE w # "desktop"
    BY <2>2 DEF Plan
  <2> QED
    BY <2>1, <2>2
<1>4. PlanSet(w) = First(Len(Plan(w)))
  BY <1>2, <1>3 DEF PlanSet, First
<1> QED
  BY <1>2, <1>3, <1>4

LEMMA FilesOneWriters ==
  ASSUME FilesInv, NEW v \in Installers, NEW w \in Installers, Owned(v) # {}, Owned(w) # {}
  PROVE  v = w
  BY DEF FilesInv, Owned

LEMMA FilesImply == FilesInv => InstallationWhole
  BY FilesOneWriters DEF InstallationWhole, FilesInv

\* One writer's line and files change, and those of no other.
LEMMA OneWriter ==
  ASSUME FilesInv, NEW w \in Installers,
         NEW entry \in Commits, installer' = [installer EXCEPT ![w] = entry],
         file' \in [TargetSet -> {Absent, Outsider} \cup Installers],
         \A v \in Installers \ {w} : Owned(v)' = Owned(v),
         gone \subseteq gone', gone' \subseteq Installers,
         entry.created <= Len(Plan(w)),
         entry.step # "idle" => Owned(w)' = First(entry.created),
         entry.step = "idle" => entry.created = 0,
         entry.step = "idle" /\ w \notin gone' => Owned(w)' \in {{}, PlanSet(w)},
         Owned(w)' # {} => Targets[1] \in Owned(w)'
  PROVE  FilesInv'
<1>1. installer' \in [Installers -> Commits]
  BY DEF FilesInv
<1>2. \A v \in Installers : installer'[v] = IF v = w THEN entry ELSE installer[v]
  BY DEF FilesInv
<1> HIDE DEF Owned
<1>3. ASSUME NEW v \in Installers
      PROVE  /\ installer'[v].created <= Len(Plan(v))
             /\ installer'[v].step # "idle" => Owned(v)' = First(installer'[v].created)
             /\ installer'[v].step = "idle" => installer'[v].created = 0
             /\ installer'[v].step = "idle" /\ v \notin gone' => Owned(v)' \in {{}, PlanSet(v)}
             /\ Owned(v)' # {} => Targets[1] \in Owned(v)'
  <2>1. CASE v = w
    BY <1>2, <2>1
  <2>2. CASE v # w
    BY <1>2, <2>2 DEF FilesInv
  <2> QED
    BY <2>1, <2>2
<1> QED
  BY <1>1, <1>3 DEF FilesInv

LEMMA CreateInv ==
  ASSUME FilesInv, NEW w \in Installers, CreateTarget(w)
  PROVE  FilesInv'
<1> DEFINE n == installer[w].created
           t == Targets[n + 1]
<1>1. n \in 0..2 /\ n < Len(Plan(w)) /\ Owned(w) = First(n) /\ installer[w] \in Commits
  <2>1. installer[w] \in Commits /\ installer[w].step = "writing" /\ n < Len(Plan(w))
    <3>1. installer[w] \in Commits
      BY DEF FilesInv
    <3>2. installer[w].step = "writing" /\ n < Len(Plan(w))
      BY DEF CreateTarget
    <3> QED
      BY <3>1, <3>2
  <2>2. n \in 0..3 /\ Len(Plan(w)) \in 2..3
    BY <2>1, PlanIs DEF Commits
  <2>3. n \in 0..2
    <3>1. \A i \in 0..3, len \in 2..3 : i < len => i \in 0..2
      OBVIOUS
    <3> QED
      BY <2>1, <2>2, <3>1
  <2>4. installer[w].step # "idle"
    BY <2>1
  <2>5. Owned(w) = First(n)
    BY <2>4 DEF FilesInv
  <2> QED
    BY <2>1, <2>3, <2>5
<1>2. NextTarget(w) = t /\ t \in TargetSet
  BY <1>1, PlanIs, FirstGrows DEF NextTarget
<1>3. PICK step \in {"writing", "failed"} :
        installer' = [installer EXCEPT ![w] = [step |-> step, created |-> n + 1,
                                               validation |-> installer[w].validation]]
  BY DEF CreateTarget
<1> DEFINE entry == [step |-> step, created |-> n + 1, validation |-> installer[w].validation]
<1>4. entry \in Commits
  BY <1>1 DEF Commits
<1>5. installer' = [installer EXCEPT ![w] = entry]
  BY <1>3
<1>6. file[t] = Absent /\ file' = [file EXCEPT ![t] = w] /\ gone' = gone
  BY <1>2 DEF CreateTarget, Exclusive
<1>7. Owned(w)' = First(n + 1)
  <2>1. Owned(w)' = Owned(w) \cup {t}
    BY <1>2, <1>6 DEF Owned, FilesInv
  <2> QED
    BY <1>1, <2>1, FirstGrows
<1>8. \A v \in Installers \ {w} : Owned(v)' = Owned(v)
  BY <1>2, <1>6 DEF Owned, FilesInv, Absent, Installers
<1>9. file' \in [TargetSet -> {Absent, Outsider} \cup Installers]
  BY <1>6 DEF FilesInv
<1>10. Targets[1] \in Owned(w)'
  BY <1>1, <1>7, FirstGrows
<1>11. entry.created = n + 1 /\ entry.step = step /\ n + 1 <= Len(Plan(w)) /\ step # "idle"
  BY <1>1, PlanIs
<1> HIDE DEF entry, n, t
<1> QED
  BY <1>4, <1>5, <1>6, <1>7, <1>8, <1>9, <1>10, <1>11, OneWriter DEF FilesInv

LEMMA CleanUpInv ==
  ASSUME FilesInv, NEW w \in Installers, CleanUp(w)
  PROVE  FilesInv'
<1> DEFINE n == installer[w].created
<1>1. /\ n \in 0..3 /\ n <= Len(Plan(w)) /\ Owned(w) = First(n) /\ installer[w] \in Commits
      /\ gone' = gone /\ installer[w].step = "failed"
  BY PlanIs DEF FilesInv, CleanUp, Commits
<1>2. CASE n = 0
  <2>1. installer' = [installer EXCEPT ![w] = NoCommit] /\ file' = file
    BY <1>2 DEF CleanUp
  <2>2. NoCommit \in Commits /\ NoCommit.step = "idle" /\ NoCommit.created = 0
    BY DEF NoCommit, Commits
  <2>3. Owned(w)' = {} /\ \A v \in Installers : Owned(v)' = Owned(v)
    BY <1>1, <1>2, <2>1, FirstGrows DEF Owned
  <2>4. 0 <= Len(Plan(w))
    BY PlanIs
  <2> QED
    BY <1>1, <2>1, <2>2, <2>3, <2>4, OneWriter DEF FilesInv
<1>3. CASE n # 0
  <2> DEFINE t == Targets[n]
             entry == [step |-> "failed", created |-> n - 1, validation |-> installer[w].validation]
  <2>1. n - 1 \in 0..2 /\ (n - 1) + 1 = n
    BY <1>1, <1>3
  <2>2. First(n) = First(n - 1) \cup {t} /\ t \notin First(n - 1) /\ t \in TargetSet
    BY <2>1, FirstGrows
  <2>3. Plan(w)[n] = t
    BY <1>1, <1>3, PlanIs
  <2>4. file[t] = w
    BY <1>1, <2>2 DEF Owned
  <2>5. file' = [file EXCEPT ![t] = Absent] /\ installer' = [installer EXCEPT ![w].created = @ - 1]
    BY <1>3, <2>3, <2>4 DEF CleanUp
  <2>6. entry \in Commits /\ installer' = [installer EXCEPT ![w] = entry]
    <3>1. [installer[w] EXCEPT !.created = @ - 1] = entry /\ entry \in Commits
      BY <1>1, <2>1 DEF Commits
    <3>2. installer' = [installer EXCEPT ![w] = [installer[w] EXCEPT !.created = @ - 1]]
      BY <2>5
    <3> QED
      BY <3>1, <3>2
  <2>7. Owned(w)' = Owned(w) \ {t}
    BY <2>2, <2>5 DEF Owned, FilesInv, Absent, Installers
  <2>8. Owned(w)' = First(n - 1)
    BY <1>1, <2>2, <2>7
  <2>9. \A v \in Installers \ {w} : Owned(v)' = Owned(v)
    BY <2>2, <2>4, <2>5 DEF Owned, FilesInv, Absent, Installers
  <2>10. file' \in [TargetSet -> {Absent, Outsider} \cup Installers]
    BY <2>5 DEF FilesInv
  <2>11. Owned(w)' # {} => Targets[1] \in Owned(w)'
    <3>1. CASE n = 1
      BY <3>1, <2>8, FirstGrows
    <3>2. CASE n # 1
      BY <1>3, <3>2, <2>1, <2>8, FirstGrows
    <3> QED
      BY <3>1, <3>2
  <2>12. entry.step = "failed" /\ entry.created = n - 1 /\ n - 1 <= Len(Plan(w))
    BY <1>1, PlanIs
  <2> HIDE DEF entry, t, n
  <2> QED
    BY <1>1, <2>6, <2>8, <2>9, <2>10, <2>11, <2>12, OneWriter DEF FilesInv
<1> QED
  BY <1>2, <1>3

LEMMA FilesInitInv == SetupInit => FilesInv
<1> SUFFICES ASSUME SetupInit PROVE FilesInv
  OBVIOUS
<1>1. file \in [TargetSet -> {Absent, Outsider} \cup Installers] /\ \A w \in Installers : Owned(w) = {}
  BY DEF SetupInit, Owned, Absent, Installers
<1>2. installer \in [Installers -> Commits] /\ \A w \in Installers : installer[w] = NoCommit
  BY DEF SetupInit, NoCommit, Commits
<1>3. NoCommit.step = "idle" /\ NoCommit.created = 0 /\ \A w \in Installers : 0 <= Len(Plan(w))
  BY PlanIs DEF NoCommit
<1>4. gone \subseteq Installers
  BY DEF SetupInit
<1> QED
  BY <1>1, <1>2, <1>3, <1>4 DEF FilesInv

LEMMA StartsInv ==
  ASSUME FilesInv, NEW w \in Installers, NEW id \in Nat, Starts(w, id)
  PROVE  FilesInv'
<1> DEFINE entry == [step |-> "writing", created |-> 0, validation |-> id]
<1>1. entry \in Commits /\ installer' = [installer EXCEPT ![w] = entry]
  BY DEF Starts, Commits
<1>2. \A v \in Installers : Owned(v) = {} /\ Owned(v)' = {}
  BY DEF Starts, Installed, Owned, Absent, Installers
<1>3. file' = file /\ gone' = gone /\ 0 <= Len(Plan(w))
  BY PlanIs DEF Starts
<1>4. entry.step = "writing" /\ entry.created = 0
  OBVIOUS
<1> HIDE DEF entry
<1> QED
  BY <1>1, <1>2, <1>3, <1>4, FirstGrows, OneWriter DEF FilesInv

\* A writer fails, ends or dies where he is; the files stay.
LEMMA WriterStops ==
  ASSUME FilesInv, NEW w \in Installers, file' = file,
         \/ CreateFails(w) \/ FinishSetup(w) \/ InstallerDies(w)
  PROVE  FilesInv'
<1>1. \A v \in Installers : Owned(v)' = Owned(v)
  BY DEF Owned
<1>2. Owned(w) # {} => Targets[1] \in Owned(w)
  BY DEF FilesInv
<1>3. NoCommit \in Commits /\ NoCommit.step = "idle" /\ NoCommit.created = 0 /\ 0 <= Len(Plan(w))
  BY PlanIs DEF NoCommit, Commits
<1>4. CASE CreateFails(w)
  <2> DEFINE entry == [step |-> "failed", created |-> installer[w].created,
                       validation |-> installer[w].validation]
  <2>1. entry \in Commits /\ installer' = [installer EXCEPT ![w] = entry]
    <3>1. [installer[w] EXCEPT !.step = "failed"] = entry /\ entry \in Commits
      BY DEF FilesInv, Commits
    <3>2. installer' = [installer EXCEPT ![w] = [installer[w] EXCEPT !.step = "failed"]]
      BY <1>4 DEF CreateFails
    <3> QED
      BY <3>1, <3>2
  <2>2. entry.step = "failed" /\ entry.created = installer[w].created
    OBVIOUS
  <2>3. gone' = gone /\ installer[w].step # "idle"
    BY <1>4 DEF CreateFails
  <2> HIDE DEF entry
  <2> QED
    BY <1>1, <1>2, <2>1, <2>2, <2>3, OneWriter DEF FilesInv
<1>5. CASE FinishSetup(w)
  <2>1. gone' = gone /\ installer' = [installer EXCEPT ![w] = NoCommit]
    BY <1>5 DEF FinishSetup
  <2>2. Owned(w) = PlanSet(w)
    BY <1>5, PlanIs DEF FinishSetup, FilesInv
  <2> QED
    BY <1>1, <1>2, <1>3, <2>1, <2>2, OneWriter DEF FilesInv
<1>6. CASE InstallerDies(w)
  <2>1. gone' = gone \cup {w} /\ installer' = [installer EXCEPT ![w] = NoCommit]
    BY <1>6 DEF InstallerDies
  <2> QED
    BY <1>1, <1>2, <1>3, <2>1, OneWriter DEF FilesInv
<1> QED
  BY <1>4, <1>5, <1>6

---------------------------------------------------------------------------
(* The keys: a session is looked at before its key is asked about, and     *)
(* ends only once, so a key that comes back late is marked by its session. *)

KeysHeldInv ==
    /\ setupSession \in [SetupSessions -> {"none", "live", "ended"}]
    /\ validated \in Nat /\ late \subseteq SetupSessions
    /\ \A a \in asking : /\ a.session \in SetupSessions /\ setupSession[a.session] # "none"
                         /\ setupSession[a.session] = "ended" => a.session \in late
    /\ \A v \in validations : /\ v.id \in 1..validated /\ v.session \in SetupSessions
                              /\ setupSession[v.session] # "none"
    /\ \A r \in reviews : \E v \in validations : v.id = r.validation
    /\ SecretsEnd

SetupInv == FilesInv /\ KeysHeldInv

LEMMA SetupInvImplies == SetupInv => SetupTypeOK /\ InstallationWhole /\ SecretsEnd
<1>1. FilesInv /\ KeysHeldInv => SetupTypeOK
  BY PlanIs DEF FilesInv, KeysHeldInv, SetupTypeOK, Commits
<1> QED
  BY <1>1, FilesImply DEF SetupInv, KeysHeldInv

\* Keys forgotten, and the reviews that showed them, leave the rest as it was.
LEMMA KeysRevoked ==
  ASSUME KeysHeldInv, NEW gones, Revoked(gones), UNCHANGED <<setupSession, asking, validated, late>>
  PROVE  KeysHeldInv'
<1>1. validations' \subseteq validations
  BY DEF Revoked
<1>2. \A r \in reviews' : \E v \in validations' : v.id = r.validation
  BY DEF Revoked, KeysHeldInv
<1>3. SecretsEnd'
  BY <1>1 DEF KeysHeldInv, SecretsEnd
<1> QED
  BY <1>1, <1>2, <1>3 DEF KeysHeldInv

LEMMA SessionEnds ==
  ASSUME KeysHeldInv, NEW s \in SetupSessions, revokeSetupSession(s)
  PROVE  KeysHeldInv'
<1>1. /\ setupSession' = [setupSession EXCEPT ![s] = "ended"] /\ Revoked(OfSession(s))
      /\ UNCHANGED <<asking, validated>> /\ late \subseteq late' /\ late' \subseteq late \cup {s}
      /\ \A a \in asking : a.session = s => s \in late'
  BY DEF revokeSetupSession
<1>2. \A v \in validations' : v \in validations /\ v.session # s
  BY <1>1 DEF Revoked, OfSession
<1>3. \A r \in reviews' : \E v \in validations' : v.id = r.validation
  BY <1>1 DEF Revoked, KeysHeldInv
<1>4. SecretsEnd'
  BY <1>1, <1>2 DEF KeysHeldInv, SecretsEnd
<1> QED
  BY <1>1, <1>2, <1>3, <1>4 DEF KeysHeldInv

LEMMA ProviderAnswerInv ==
  ASSUME KeysHeldInv, NEW a \in asking, ProviderAnswers(a)
  PROVE  KeysHeldInv'
<1>1. asking' \subseteq asking /\ UNCHANGED <<setupSession, late>>
  BY DEF ProviderAnswers
<1>2. CASE UNCHANGED <<validations, validated, reviews>>
  BY <1>1, <1>2 DEF KeysHeldInv, SecretsEnd
<1>3. CASE validated' = validated + 1 /\ createValidated(a)
  <2> DEFINE new == [id |-> validated + 1, session |-> a.session, choice |-> a.choice]
  <2>1. \A v \in validations' : v = new \/ (v \in validations /\ v.session # a.session)
    BY <1>3 DEF createValidated, OfSession
  <2>2. new.id = validated + 1 /\ new.session = a.session
    OBVIOUS
  <2>3. \A r \in reviews' : \E v \in validations' : v.id = r.validation
    BY <1>3 DEF createValidated, KeysHeldInv
  <2> HIDE DEF new
  <2>4. SecretsEnd'
    BY <1>1, <2>1, <2>2 DEF KeysHeldInv, SecretsEnd
  <2>5. \A v \in validations' : /\ v.id \in 1..validated' /\ v.session \in SetupSessions
                                /\ setupSession[v.session] # "none"
    BY <1>3, <2>1, <2>2 DEF KeysHeldInv
  <2> QED
    BY <1>1, <1>3, <2>3, <2>4, <2>5 DEF KeysHeldInv
<1> QED
  BY <1>2, <1>3 DEF ProviderAnswers

LEMMA FilesStand ==
  ASSUME FilesInv, UNCHANGED <<file, installer, gone>>
  PROVE  FilesInv'
  BY DEF FilesInv, Owned

LEMMA KeysStand ==
  ASSUME KeysHeldInv, SessionSide
  PROVE  KeysHeldInv'
  BY DEF KeysHeldInv, SecretsEnd, SessionSide

LEMMA SetupStep == SetupInv /\ [SetupNext]_setupVars => SetupInv'
<1> SUFFICES ASSUME SetupInv, [SetupNext]_setupVars PROVE SetupInv'
  OBVIOUS
<1> USE DEF SetupInv
<1>1. ASSUME NEW s \in SetupSessions, issueSetupSession(s)
      PROVE  SetupInv'
  <2>1. KeysHeldInv'
    BY <1>1 DEF issueSetupSession, KeysHeldInv, SecretsEnd
  <2> QED
    BY <1>1, <2>1, FilesStand DEF issueSetupSession, DiskSide
<1>2. ASSUME NEW s \in SetupSessions, revokeSetupSession(s)
      PROVE  SetupInv'
  BY <1>2, SessionEnds, FilesStand DEF revokeSetupSession, DiskSide
<1>3. ASSUME NEW s \in SetupSessions, NEW c \in KeyChoices, AskProvider(s, c)
      PROVE  SetupInv'
  <2>1. KeysHeldInv'
    BY <1>3 DEF AskProvider, KeysHeldInv, SecretsEnd
  <2> QED
    BY <1>3, <2>1, FilesStand DEF AskProvider, DiskSide
<1>4. ASSUME NEW a \in asking, ProviderAnswers(a)
      PROVE  SetupInv'
  BY <1>4, ProviderAnswerInv, FilesStand DEF ProviderAnswers, DiskSide
<1>5. ASSUME NEW v \in validations, revokeValidation(v)
      PROVE  SetupInv'
  BY <1>5, KeysRevoked, FilesStand DEF revokeValidation, DiskSide
<1>6. ASSUME NEW v \in validations, NEW d \in Details, createReviewedSetup(v, d)
      PROVE  SetupInv'
  <2>1. \A r \in reviews' : \E u \in validations' : u.id = r.validation
    BY <1>6 DEF createReviewedSetup, KeysHeldInv
  <2>2. KeysHeldInv'
    BY <1>6, <2>1 DEF createReviewedSetup, KeysHeldInv, SecretsEnd
  <2> QED
    BY <1>6, <2>2, FilesStand DEF createReviewedSetup, DiskSide
<1>7. ASSUME NEW v \in validations, NEW d \in Details, CommitSetup(v, d)
      PROVE  SetupInv'
  <2>1. v.id \in Nat /\ "dashboard" \in Installers
    BY DEF KeysHeldInv, Installers
  <2> QED
    BY <1>7, <2>1, StartsInv, KeysStand DEF CommitSetup
<1>8. ASSUME NEW w \in Installers, CommandSetup(w)
      PROVE  SetupInv'
  BY <1>8, StartsInv, KeysStand DEF CommandSetup
<1>9. ASSUME NEW w \in Installers, CreateTarget(w)
      PROVE  SetupInv'
  BY <1>9, CreateInv, KeysStand DEF CreateTarget
<1>10. ASSUME NEW w \in Installers, CreateFails(w)
      PROVE  SetupInv'
  BY <1>10, WriterStops, KeysStand DEF CreateFails
<1>11. ASSUME NEW w \in Installers, CleanUp(w)
      PROVE  SetupInv'
  BY <1>11, CleanUpInv, KeysStand DEF CleanUp
<1>12. ASSUME NEW w \in Installers, FinishSetup(w)
      PROVE  SetupInv'
  BY <1>12, WriterStops, KeysRevoked DEF FinishSetup
<1>13. ASSUME NEW w \in Installers, InstallerDies(w)
      PROVE  SetupInv'
  <2>1. FilesInv'
    BY <1>13, WriterStops DEF InstallerDies
  <2>2. CASE w # "dashboard"
    BY <1>13, <2>1, <2>2, KeysStand DEF InstallerDies
  <2>3. CASE w = "dashboard"
    <3>1. asking' = {} /\ validations' = {} /\ reviews' = {} /\ UNCHANGED <<validated, late>>
      BY <1>13, <2>3 DEF InstallerDies
    <3>2. setupSession' \in [SetupSessions -> {"none", "live", "ended"}]
      BY <1>13, <2>3 DEF InstallerDies, KeysHeldInv
    <3> QED
      BY <2>1, <3>1, <3>2 DEF KeysHeldInv, SecretsEnd
  <2> QED
    BY <2>2, <2>3
<1>14. ASSUME NEW t \in TargetSet, OutsiderCreates(t)
      PROVE  SetupInv'
  <2>1. file' = [file EXCEPT ![t] = Outsider] /\ file[t] = Absent /\ UNCHANGED <<installer, gone>>
    BY <1>14 DEF OutsiderCreates
  <2>2. \A w \in Installers : Owned(w)' = Owned(w)
    BY <2>1 DEF Owned, FilesInv, Absent, Outsider, Installers
  <2>3. file' \in [TargetSet -> {Absent, Outsider} \cup Installers]
    BY <2>1 DEF FilesInv
  <2>4. FilesInv'
    BY <2>1, <2>2, <2>3 DEF FilesInv
  <2> QED
    BY <1>14, <2>4, KeysStand DEF OutsiderCreates
<1>15. CASE UNCHANGED setupVars
  BY <1>15, FilesStand, KeysStand DEF setupVars, SessionSide
<1> QED
  BY <1>1, <1>2, <1>3, <1>4, <1>5, <1>6, <1>7, <1>8, <1>9, <1>10, <1>11, <1>12, <1>13, <1>14,
     <1>15 DEF SetupNext

LEMMA SetupInvariant == SetupSpec => []SetupInv
<1>1. SetupInit => KeysHeldInv
  BY DEF SetupInit, KeysHeldInv, SecretsEnd
<1> QED
  BY <1>1, FilesInitInv, SetupStep, PTL DEF SetupSpec, SetupInv

\* InstallationWhole (Setup.tla; setup-wizard-core.mjs:406-411): whichever of the three
\* installers run together, fail, clean up or die, a writer that came to an end left its
\* plan or nothing, and two never have files at once.
THEOREM InstallationsWhole == SetupSpec => []InstallationWhole
  BY SetupInvariant, SetupInvImplies, PTL

\* SecretsEnd (Setup.tla; setup-validation-session.mjs:126-136): a session holds one key at
\* most, and none once it has ended but one the provider was still asked about.
THEOREM KeysEndWithTheirSession == SetupSpec => []SecretsEnd
  BY SetupInvariant, SetupInvImplies, PTL

---------------------------------------------------------------------------
(* Fleet.  As long as no process has lost its entry, the one that is       *)
(* tracked is the only one running, and the only one whose exit may have   *)
(* scheduled a restart; a stop marks it and cancels that restart, and what *)
(* is marked schedules no other.                                           *)

Lives == {"unborn", "alive", "term", "killed", "exited", "orphan"}
Calls == [step : {"idle", "spawning", "waiting", "pausing"}, pid : Pids \cup {None}, again : BOOLEAN]

\* No process has lost its entry yet.
Accounted ==
    /\ Running \subseteq {tracked}
    /\ \A t \in timers : t = tracked /\ t = restartHandle /\ proc[t] = "exited"
    /\ tracked \in intentional => timers = {}
    /\ row = "stopped" => tracked = None

FleetTypes ==
    /\ row \in {"stopped", "running", "error", "absent"}
    /\ proc \in [Pids -> Lives]
    /\ tracked \in Pids \cup {None} /\ intentional \subseteq Pids /\ adrift \subseteq Pids
    /\ timers \subseteq Pids /\ restartHandle \in timers \cup {None}
    /\ IsFiniteSet(history) /\ Cardinality(history) <= RestartLimit
    /\ call \in [FleetCalls -> Calls]

FleetInv ==
    /\ FleetTypes
    /\ \A c \in FleetCalls : At(c, "waiting") <=> call[c].pid # None
    /\ \A c \in FleetCalls : At(c, "waiting") => call[c].pid \in intentional
    /\ \A pid \in intentional \cup ({tracked} \ {None}) : proc[pid] \notin {"unborn", "orphan"}
    /\ adrift = {} => Accounted

LEMMA NoneIsNoPid == None \notin Pids
  BY FleetAssumption DEF None, Pids

LEMMA FleetInvImplies == FleetInv => FleetTypeOK /\ StoppedStaysStopped
<1>1. FleetInv => FleetTypeOK
  BY DEF FleetInv, FleetTypes, FleetTypeOK, Lives
<1>2. FleetInv => StoppedStaysStopped
  BY NoneIsNoPid DEF FleetInv, FleetTypes, StoppedStaysStopped, Accounted
<1> QED
  BY <1>1, <1>2

LEMMA IdleIsCall == Idle \in Calls /\ [Idle EXCEPT !.step = "pausing"] \in Calls
                    /\ Idle.step = "idle" /\ Idle.pid = None
                    /\ [Idle EXCEPT !.step = "pausing"].step = "pausing"
                    /\ [Idle EXCEPT !.step = "pausing"].pid = None
                    /\ [Idle EXCEPT !.step = "spawning"] \in Calls
                    /\ [Idle EXCEPT !.step = "spawning"].step = "spawning"
                    /\ [Idle EXCEPT !.step = "spawning"].pid = None
  BY DEF Idle, Calls

\* A call moves on to a step where it waits for no process.
CallMoved(c, entry) ==
  /\ call' = [call EXCEPT ![c] = entry]
  /\ entry \in Calls /\ entry.step # "waiting" /\ entry.pid = None

LEMMA CallsKept ==
  ASSUME FleetInv, NEW c \in FleetCalls, NEW entry, CallMoved(c, entry)
  PROVE  /\ call' \in [FleetCalls -> Calls]
         /\ \A d \in FleetCalls : (call'[d].step = "waiting") <=> call'[d].pid # None
         /\ \A d \in FleetCalls : call'[d].step = "waiting" => call[d].step = "waiting" /\ call'[d] = call[d]
  BY DEF FleetInv, FleetTypes, CallMoved, At

LEMMA StepMoved ==
  ASSUME FleetInv, NEW c \in FleetCalls, At(c, "idle"), NEW step \in {"idle", "spawning"},
         call' = [call EXCEPT ![c].step = step]
  PROVE  CallMoved(c, [call[c] EXCEPT !.step = step])
<1>1. call[c] \in Calls /\ call[c].pid = None
  BY DEF FleetInv, FleetTypes, At
<1>2. /\ [call[c] EXCEPT !.step = step] \in Calls
      /\ [call[c] EXCEPT !.step = step].step = step
      /\ [call[c] EXCEPT !.step = step].pid = None
  BY <1>1 DEF Calls
<1>3. call' = [call EXCEPT ![c] = [call[c] EXCEPT !.step = step]]
  OBVIOUS
<1> QED
  BY <1>2, <1>3 DEF CallMoved

\* Only a call moves on, nothing else.
LEMMA OnlyCall ==
  ASSUME FleetInv, NEW c \in FleetCalls, NEW entry, CallMoved(c, entry),
         UNCHANGED <<row, proc, tracked, intentional, timers, restartHandle, history, adrift>>
  PROVE  FleetInv'
  BY CallsKept DEF FleetInv, FleetTypes, Accounted, Running, At

LEMMA SpawnedInv ==
  ASSUME FleetInv, NEW c \in FleetCalls, Spawned(c)
  PROVE  FleetInv'
<1>1. CallMoved(c, Idle)
  BY IdleIsCall DEF Spawned, CallMoved
<1>2. PICK pid \in Pids : proc[pid] = "unborn" /\ proc' = [proc EXCEPT ![pid] = "alive"] /\ tracked' = pid
  BY DEF Spawned
<1>3. /\ row' = (IF row = "absent" THEN row ELSE "running")
      /\ adrift' = adrift \cup ({tracked} \ {None})
      /\ UNCHANGED <<intentional, timers, restartHandle, history>>
  BY DEF Spawned
<1>4. pid \notin intentional /\ pid # None
  BY <1>2, NoneIsNoPid DEF FleetInv
<1>5. FleetTypes'
  <2>1. row' \in {"stopped", "running", "error", "absent"} /\ row' # "stopped"
    BY <1>3 DEF FleetInv, FleetTypes
  <2>2. proc' \in [Pids -> Lives] /\ adrift' \subseteq Pids
    BY <1>2, <1>3 DEF FleetInv, FleetTypes, Lives
  <2> QED
    BY <1>1, <1>2, <1>3, <2>1, <2>2, CallsKept DEF FleetInv, FleetTypes
<1>6. ASSUME adrift' = {}
      PROVE  Accounted'
  <2>1. adrift = {} /\ tracked = None
    BY <1>3, <1>6
  <2>2. Running = {} /\ timers = {}
    BY <2>1, NoneIsNoPid DEF FleetInv, FleetTypes, Accounted, Running
  <2>3. Running' \subseteq {pid}
    BY <1>2, <2>2 DEF Running, FleetInv, FleetTypes
  <2>4. row' # "stopped"
    BY <1>3, <1>2, NoneIsNoPid
  <2> QED
    BY <1>2, <1>3, <1>4, <2>2, <2>3, <2>4 DEF Accounted
<1>7. \A q \in intentional' \cup ({tracked'} \ {None}) : proc'[q] \notin {"unborn", "orphan"}
  BY <1>2, <1>3, <1>4 DEF FleetInv, FleetTypes
<1> QED
  BY <1>1, <1>3, <1>5, <1>6, <1>7, CallsKept DEF FleetInv, At

LEMMA StopInv ==
  ASSUME FleetInv, NEW c \in FleetCalls, NEW again \in BOOLEAN, stopProject(c, again)
  PROVE  FleetInv'
<1> DEFINE entry == [step |-> "waiting", pid |-> tracked, again |-> again]
<1>1. /\ timers' = timers \ {restartHandle} /\ restartHandle' = None
      /\ tracked # None /\ intentional' = intentional \cup {tracked}
      /\ call' = [call EXCEPT ![c] = entry]
      /\ UNCHANGED <<row, tracked, history, adrift>> /\ row = "running"
      /\ proc' = [proc EXCEPT ![tracked] = IF proc[tracked] = "alive" THEN "term" ELSE proc[tracked]]
  BY DEF stopProject, Cancelled
<1>2. tracked \in Pids /\ proc[tracked] \in Lives /\ proc[tracked] \notin {"unborn", "orphan"}
  BY <1>1 DEF FleetInv, FleetTypes
<1>3. entry \in Calls /\ entry.step = "waiting" /\ entry.pid = tracked
  BY <1>2 DEF Calls
<1> HIDE DEF entry
<1>4. \A q \in Pids : proc'[q] = proc[q] \/ (q = tracked /\ proc[q] = "alive" /\ proc'[q] = "term")
  BY <1>1, <1>2 DEF FleetInv, FleetTypes
<1>5. FleetTypes'
  BY <1>1, <1>2, <1>3 DEF FleetInv, FleetTypes, Lives
<1>6. Running' = Running
  BY <1>4 DEF Running
<1>7. ASSUME adrift' = {}
      PROVE  Accounted'
  BY <1>1, <1>6, <1>7 DEF FleetInv, Accounted
<1>8. \A d \in FleetCalls : call'[d] = IF d = c THEN entry ELSE call[d]
  BY <1>1 DEF FleetInv, FleetTypes
<1>9. \A q \in intentional' \cup ({tracked'} \ {None}) : proc'[q] \notin {"unborn", "orphan"}
  BY <1>1, <1>2, <1>4 DEF FleetInv, FleetTypes
<1> QED
  BY <1>1, <1>3, <1>5, <1>7, <1>8, <1>9 DEF FleetInv, At

\* A stop ends: what is tracked by then is lost sight of.
LEMMA StopEnds ==
  ASSUME FleetInv, NEW exited, FinishStop(exited),
         intentional' = intentional, history' = history,
         proc' \in [Pids -> Lives], timers' \subseteq Pids, restartHandle' \in timers' \cup {None},
         \A q \in intentional : proc'[q] \notin {"unborn", "orphan"},
         \A d \in FleetCalls : \/ call'[d] = call[d]
                               \/ call'[d] \in Calls /\ call'[d].step # "waiting" /\ call'[d].pid = None,
         call' \in [FleetCalls -> Calls],
         adrift' = {} => Running' = {} /\ timers' = {}
  PROVE  FleetInv'
<1>1. /\ tracked' = None /\ adrift' = adrift \cup ({tracked} \ ({None} \cup exited))
      /\ row' = IF row = "absent" THEN row ELSE "stopped"
  BY DEF FinishStop
<1>2. FleetTypes'
  BY <1>1 DEF FleetInv, FleetTypes
<1>3. adrift' = {} => Accounted'
  BY <1>1, NoneIsNoPid DEF Accounted, FleetInv, FleetTypes
<1>4. \A d \in FleetCalls : /\ (call'[d].step = "waiting") <=> call'[d].pid # None
                            /\ call'[d].step = "waiting" => call'[d].pid \in intentional
  BY DEF FleetInv, At
<1> QED
  BY <1>1, <1>2, <1>3, <1>4 DEF FleetInv, At

LEMMA AfterStopCalls ==
  ASSUME FleetInv, NEW calls, call' = AfterStop(calls)
  PROVE  /\ call' \in [FleetCalls -> Calls]
         /\ \A d \in FleetCalls : \/ call'[d] = call[d]
                                  \/ call'[d] \in Calls /\ call'[d].step # "waiting" /\ call'[d].pid = None
<1>1. \A d \in FleetCalls : \/ call'[d] = call[d] /\ call[d] \in Calls
                            \/ call'[d] = Idle \/ call'[d] = [Idle EXCEPT !.step = "pausing"]
  BY DEF AfterStop, FleetInv, FleetTypes
<1> QED
  BY <1>1, IdleIsCall DEF AfterStop

LEMMA StopUntrackedInv ==
  ASSUME FleetInv, NEW c \in FleetCalls, NEW again \in BOOLEAN, stopUntracked(c, again)
  PROVE  FleetInv'
<1>1. /\ timers' = timers \ {restartHandle} /\ restartHandle' = None /\ tracked = None
      /\ FinishStop({}) /\ UNCHANGED <<proc, intentional, history>>
      /\ call' = [call EXCEPT ![c] = IF again THEN [Idle EXCEPT !.step = "pausing"] ELSE Idle]
  BY DEF stopUntracked, Cancelled
<1>2. call' \in [FleetCalls -> Calls]
      /\ \A d \in FleetCalls : \/ call'[d] = call[d]
                               \/ call'[d] \in Calls /\ call'[d].step # "waiting" /\ call'[d].pid = None
  BY <1>1, IdleIsCall DEF FleetInv, FleetTypes
<1>3. ASSUME adrift' = {}
      PROVE  Running' = {} /\ timers' = {}
  <2>1. adrift = {}
    BY <1>1, <1>3 DEF FinishStop
  <2> QED
    BY <1>1, <2>1, NoneIsNoPid DEF FleetInv, FleetTypes, Accounted, Running
<1> QED
  BY <1>1, <1>2, <1>3, StopEnds DEF FleetInv, FleetTypes

LEMMA StopTimesOutInv ==
  ASSUME FleetInv, NEW c \in FleetCalls, StopTimesOut(c)
  PROVE  FleetInv'
<1> DEFINE q == call[c].pid
<1>1. /\ proc' = [proc EXCEPT ![q] = IF proc[q] = "exited" THEN proc[q] ELSE "killed"]
      /\ FinishStop({q} \ Running) /\ call' = AfterStop({c})
      /\ UNCHANGED <<intentional, timers, restartHandle, history>>
  BY DEF StopTimesOut
<1>2. q \in intentional /\ q \in Pids /\ proc[q] \in Lives /\ proc[q] \notin {"unborn", "orphan"}
  BY DEF StopTimesOut, FleetInv, FleetTypes
<1> HIDE DEF q
<1>3. proc' \in [Pids -> Lives] /\ \A p \in intentional : proc'[p] \notin {"unborn", "orphan"}
  BY <1>1, <1>2 DEF FleetInv, FleetTypes, Lives
<1>4. ASSUME adrift' = {}
      PROVE  Running' = {} /\ timers' = {}
  <2>1. adrift = {} /\ (tracked = None \/ (tracked = q /\ q \notin Running))
    BY <1>1, <1>4 DEF FinishStop
  <2>2. Running = {} /\ timers = {}
    BY <1>2, <2>1, NoneIsNoPid DEF FleetInv, FleetTypes, Accounted, Running
  <2>3. proc[q] = "exited"
    BY <1>2, <2>2 DEF Running, Lives
  <2> QED
    BY <1>1, <2>2, <2>3 DEF Running, FleetInv, FleetTypes
<1> QED
  BY <1>1, <1>3, <1>4, StopEnds, AfterStopCalls DEF FleetInv, FleetTypes

LEMMA RecentBound ==
  ASSUME FleetInv, NEW pid
  PROVE  /\ IsFiniteSet(Recent \cup {[at |-> fleetNow, exit |-> pid]})
         /\ Cardinality(Recent) < RestartLimit
              => Cardinality(Recent \cup {[at |-> fleetNow, exit |-> pid]}) <= RestartLimit
<1>1. IsFiniteSet(Recent)
  BY FS_Subset DEF FleetInv, FleetTypes, Recent
<1> HIDE DEF Recent
<1>2. /\ IsFiniteSet(Recent \cup {[at |-> fleetNow, exit |-> pid]})
      /\ Cardinality(Recent \cup {[at |-> fleetNow, exit |-> pid]}) \in
            {Cardinality(Recent), Cardinality(Recent) + 1}
  BY <1>1, FS_AddElement
<1> QED
  BY <1>1, <1>2, FS_CardinalityType, FleetAssumption

LEMMA ExitInv ==
  ASSUME FleetInv, NEW pid \in Pids, Exit(pid)
  PROVE  FleetInv'
<1> DEFINE waiting == {c \in FleetCalls : At(c, "waiting") /\ call[c].pid = pid}
           limited == ~Expected /\ Cardinality(Recent) >= RestartLimit
           retried == ~Expected /\ Cardinality(Recent) < RestartLimit
           kept == Recent \cup {[at |-> fleetNow, exit |-> pid]}
<1>1. /\ pid \in Running /\ proc' = [proc EXCEPT ![pid] = "exited"]
      /\ call' = AfterStop(waiting) /\ intentional' = intentional
  BY DEF Exit
<1>2. \/ retried /\ timers' = timers \cup {pid} /\ restartHandle' = pid /\ history' = kept
      \/ ~retried /\ timers' = timers /\ restartHandle' = restartHandle /\ history' = history
  BY DEF Exit
<1>3. \/ waiting # {} /\ FinishStop({pid})
      \/ /\ waiting = {} /\ row' = (IF limited /\ row # "absent" THEN "error" ELSE row)
         /\ UNCHANGED <<tracked, adrift>>
  BY DEF Exit
<1>4. waiting # {} => pid \in intentional
  BY DEF FleetInv
<1>5. retried => ~(tracked # None /\ tracked \in intentional) /\ Cardinality(kept) <= RestartLimit /\ IsFiniteSet(kept)
  BY RecentBound DEF Expected
<1>6. call' \in [FleetCalls -> Calls]
      /\ \A d \in FleetCalls : \/ call'[d] = call[d]
                               \/ call'[d] \in Calls /\ call'[d].step # "waiting" /\ call'[d].pid = None
  BY <1>1, AfterStopCalls
<1> HIDE DEF waiting, limited, retried, kept
<1>7. proc' \in [Pids -> Lives] /\ proc'[pid] = "exited" /\ \A q \in Pids \ {pid} : proc'[q] = proc[q]
  BY <1>1 DEF FleetInv, FleetTypes, Lives
<1>8. \A q \in intentional : proc'[q] \notin {"unborn", "orphan"}
  BY <1>7 DEF FleetInv, FleetTypes
<1>9. Running' = Running \ {pid}
  BY <1>7 DEF Running
<1>10. /\ timers' \subseteq Pids /\ restartHandle' \in timers' \cup {None}
       /\ IsFiniteSet(history') /\ Cardinality(history') <= RestartLimit
  BY <1>2, <1>5 DEF FleetInv, FleetTypes
<1>11. ASSUME adrift = {}
       PROVE  /\ tracked = pid /\ timers = {} /\ row # "stopped"
              /\ Running = {pid}
  BY <1>1, <1>11, NoneIsNoPid DEF FleetInv, FleetTypes, Accounted, Running
<1>12. CASE waiting # {}
  <2>1. FinishStop({pid}) /\ pid \in intentional
    BY <1>3, <1>4, <1>12
  <2>2. /\ tracked' = None /\ adrift' = adrift \cup ({tracked} \ ({None} \cup {pid}))
        /\ row' = IF row = "absent" THEN row ELSE "stopped"
    BY <2>1 DEF FinishStop
  <2>3. ASSUME adrift' = {}
        PROVE  Running' = {} /\ timers' = {}
    <3>1. tracked = pid /\ timers = {} /\ Running = {pid} /\ tracked # None
      BY <1>11, <2>2, <2>3, NoneIsNoPid
    <3>2. ~retried
      BY <1>5, <2>1, <3>1
    <3> QED
      BY <1>2, <1>9, <3>1, <3>2
  <2>4. FleetTypes'
    BY <1>6, <1>7, <1>10, <1>1, <2>2 DEF FleetInv, FleetTypes
  <2>5. adrift' = {} => Accounted'
    BY <2>2, <2>3, <1>1, NoneIsNoPid DEF Accounted
  <2>6. \A d \in FleetCalls : /\ (call'[d].step = "waiting") <=> call'[d].pid # None
                              /\ call'[d].step = "waiting" => call'[d].pid \in intentional
    BY <1>6 DEF FleetInv, At
  <2> QED
    BY <1>1, <1>8, <2>2, <2>4, <2>5, <2>6 DEF FleetInv, At
<1>13. CASE waiting = {}
  <2>1. row' = (IF limited /\ row # "absent" THEN "error" ELSE row) /\ UNCHANGED <<tracked, adrift>>
    BY <1>3, <1>13
  <2>2. FleetTypes'
    BY <1>6, <1>7, <1>10, <1>1, <2>1 DEF FleetInv, FleetTypes
  <2>3. ASSUME adrift' = {}
        PROVE  Accounted'
    <3>1. tracked = pid /\ timers = {} /\ Running = {pid} /\ tracked # None /\ row # "stopped"
      BY <1>11, <2>1, <2>3, NoneIsNoPid
    <3>2. retried => pid \notin intentional
      BY <1>5, <3>1
    <3>3. Running' = {} /\ row' # "stopped"
      BY <1>9, <2>1, <3>1
    <3> QED
      BY <1>1, <1>2, <1>7, <2>1, <3>1, <3>2, <3>3 DEF Accounted
  <2>4. \A d \in FleetCalls : /\ (call'[d].step = "waiting") <=> call'[d].pid # None
                              /\ call'[d].step = "waiting" => call'[d].pid \in intentional
    BY <1>6 DEF FleetInv, At
  <2>5. \A q \in intentional' \cup ({tracked'} \ {None}) : proc'[q] \notin {"unborn", "orphan"}
    BY <1>1, <1>7, <2>1 DEF FleetInv, FleetTypes
  <2> QED
    BY <1>1, <2>2, <2>3, <2>4, <2>5 DEF FleetInv, At
<1> QED
  BY <1>12, <1>13

LEMMA RestartDueInv ==
  ASSUME FleetInv, NEW t \in Pids, NEW c \in FleetCalls, RestartDue(t, c)
  PROVE  FleetInv'
<1>1. /\ timers' = timers \ {t} /\ restartHandle' = None /\ At(c, "idle") /\ t \in timers
      /\ call' = [call EXCEPT ![c].step = IF Startable THEN "spawning" ELSE "idle"]
      /\ UNCHANGED <<row, proc, tracked, intentional, history, adrift>>
  BY DEF RestartDue
<1>2. PICK entry : CallMoved(c, entry)
  BY <1>1, StepMoved
<1> QED
  BY <1>1, <1>2, CallsKept DEF FleetInv, FleetTypes, Accounted, Running, At

LEMMA DeleteInv ==
  ASSUME FleetInv, deleteProject
  PROVE  FleetInv'
<1>1. /\ row' = "absent" /\ timers' = timers \ {restartHandle} /\ restartHandle' = None
      /\ intentional' = intentional \cup ({tracked} \ {None}) /\ tracked' = None /\ history' = {}
      /\ adrift' = adrift \cup ({tracked} \cap Running) /\ UNCHANGED <<proc, call>>
  BY DEF deleteProject, Cancelled
<1>2. Running' = Running /\ Running \subseteq Pids
  BY <1>1 DEF Running
<1>3. FleetTypes'
  BY <1>1, <1>2, FS_EmptySet, FleetAssumption DEF FleetInv, FleetTypes
<1>4. ASSUME adrift' = {}
      PROVE  Accounted'
  BY <1>1, <1>2, <1>4, NoneIsNoPid DEF FleetInv, FleetTypes, Accounted
<1> QED
  BY <1>1, <1>3, <1>4 DEF FleetInv, FleetTypes, At

LEMMA ManagerInv ==
  ASSUME FleetInv, ManagerRestarts
  PROVE  FleetInv'
<1>1. /\ row' = (IF row = "running" THEN "stopped" ELSE row)
      /\ tracked' = None /\ intentional' = {} /\ timers' = {} /\ restartHandle' = None
      /\ history' = {} /\ call' = [c \in FleetCalls |-> Idle] /\ adrift' = adrift
  BY DEF ManagerRestarts
<1>2. proc' \in [Pids -> Lives] /\ \A pid \in Pids : proc'[pid] \in {"unborn", "orphan", "exited"}
  BY DEF ManagerRestarts, Lives
<1>3. Running' = {}
  BY <1>2 DEF Running
<1>4. FleetTypes'
  BY <1>1, <1>2, FS_EmptySet, FleetAssumption, IdleIsCall DEF FleetInv, FleetTypes
<1> QED
  BY <1>1, <1>3, <1>4, IdleIsCall DEF FleetInv, At, Accounted

LEMMA FleetStep == FleetInv /\ [FleetNext]_fleetVars => FleetInv'
<1> SUFFICES ASSUME FleetInv, [FleetNext]_fleetVars PROVE FleetInv'
  OBVIOUS
<1>1. ASSUME NEW c \in FleetCalls, startProject(c)
      PROVE  FleetInv'
  <2>1. CallMoved(c, [call[c] EXCEPT !.step = "spawning"])
    BY <1>1, StepMoved DEF startProject
  <2> QED
    BY <1>1, <2>1, OnlyCall DEF startProject
<1>2. ASSUME NEW c \in FleetCalls, PauseOver(c)
      PROVE  FleetInv'
  <2>1. PICK entry : CallMoved(c, entry)
    BY <1>2, IdleIsCall DEF PauseOver, CallMoved
  <2> QED
    BY <1>2, <2>1, OnlyCall DEF PauseOver
<1>3. CASE FleetClock
  BY <1>3 DEF FleetClock, FleetInv, FleetTypes, Accounted, Running, At
<1>4. CASE UNCHANGED fleetVars
  BY <1>4 DEF fleetVars, FleetInv, FleetTypes, Accounted, Running, At
<1> QED
  BY <1>1, <1>2, <1>3, <1>4, SpawnedInv, StopInv, StopUntrackedInv, StopTimesOutInv, ExitInv,
     RestartDueInv, DeleteInv, ManagerInv DEF FleetNext

LEMMA FleetInvariant == FleetSpec => []FleetInv
<1>1. FleetInit => FleetInv
  BY IdleIsCall, FS_EmptySet, FleetAssumption
     DEF FleetInit, FleetInv, FleetTypes, Lives, Accounted, Running, At, None
<1> QED
  BY <1>1, FleetStep, PTL DEF FleetSpec

\* StoppedStaysStopped (Fleet.tla; control-plane.mjs:358-359, 588-590): whatever starts,
\* stops, crashes, timeouts and manager restarts overlap, no restart is scheduled for a
\* stopped project unless a process lost its entry on the way.
THEOREM StoppedProjectsStay == FleetSpec => []StoppedStaysStopped
  BY FleetInvariant, FleetInvImplies, PTL

---------------------------------------------------------------------------
(* The policy file.  Whoever writes it under the lock is alone in that,    *)
(* and has read the settings that stand under the lock as well; the others *)
(* void them.                                                              *)

Writers == [pc : {"idle", "locking", "checking", "copying", "reading", "emptying", "filling"},
            kind : {"none", "save", "push", "restore", "wizard"},
            lever : Levers, text : Contents, seen : Nat]
ByLock(w) == w.kind \in {"save", "push"}
Holding(w) == ByLock(w) /\ w.pc \in {"copying", "reading", "emptying", "filling"}
Early(w) == w.pc \in {"locking", "copying", "reading"}

InPlace(w) == /\ w.pc \in {"locking", "reading"} => ByLock(w)
              /\ w.pc = "checking" => ~ByLock(w)

\* What is about to be written has every standing setting but the one it changes.
Carries(w) == \A l \in Levers : l # w.lever /\ standing[l] # Unset => w.text[l] = standing[l]
\* It is coherent, or was not validated against the text it changes.
Sound(w) ==
  /\ Coherent(w.text) \/ raced \/ (w.kind = "push" /\ Early(w))
  /\ w.kind = "save" /\ Early(w) =>
       /\ Coherent(w.text) /\ w.seen <= mtime
       /\ w.seen = mtime => w.text = [policyText EXCEPT ![w.lever] = w.text[w.lever]]

FileTypes ==
  /\ policyText \in Contents /\ standing \in Contents /\ snapshot \in Contents
  /\ backups \subseteq Contents /\ mtime \in Nat /\ raced \in BOOLEAN
  /\ writer \in [Processes -> Writers]
Rewrites(p) == ByLock(writer[p]) /\ writer[p].pc = "filling"
StandingInv ==
  \/ \E p \in Processes : Rewrites(p)
  \/ \A l \in Levers : standing[l] # Unset => policyText[l] = standing[l]
SaversInv ==
  \A p \in Processes :
    /\ InPlace(writer[p])
    /\ Holding(writer[p]) => policyLock = p
    /\ ByLock(writer[p]) /\ writer[p].pc \in {"emptying", "filling"} => Carries(writer[p])
    /\ Sound(writer[p])
PolicyInv == FileTypes /\ SaversInv /\ StandingInv /\ NeverMisconfigured /\ SnapshotCurrent

LEMMA PolicyInvImplies == PolicyInv => EditsKept /\ NeverMisconfigured /\ SnapshotCurrent
BY DEF PolicyInv, StandingInv, Rewrites, EditsKept

LEMMA EmptyIsCoherent == Empty \in Contents /\ Coherent(Empty) /\ \A l \in Levers : Empty[l] = Unset
BY DEF Empty, Contents, Coherent, Levers

LEMMA IdlingIs ==
  Idling \in Writers /\ ~ByLock(Idling) /\ Idling.pc = "idle" /\ Idling.text = Empty /\ Sound(Idling)
BY EmptyIsCoherent DEF Idling, Writers, ByLock, Sound, Early, Levers

LEMMA MergedIs ==
  ASSUME policyText \in Contents, NEW lever \in Levers, NEW value \in Limits \cup {Unset}
  PROVE  Merged(lever, value) \in Contents
BY DEF Merged, Contents

LEMMA PolicyInitInv == PolicyInit => PolicyInv
<1> SUFFICES ASSUME PolicyInit PROVE PolicyInv
  OBVIOUS
<1>1. /\ policyText \in Contents /\ Coherent(policyText)
  <2>1. policyText = [l \in Levers |-> IF l \in {"max_parallel", "wip_per_agent"} THEN 1 ELSE Unset]
    BY DEF PolicyInit, Empty, Levers
  <2>2. policyText["max_parallel"] = 1 /\ policyText["wip_per_agent"] = 1
    BY <2>1 DEF Levers
  <2> QED
    BY <2>1, <2>2, PolicyAssumption DEF Contents, Coherent
<1>2. FileTypes
  BY <1>1, EmptyIsCoherent, IdlingIs DEF PolicyInit, FileTypes
<1>3. SaversInv
  BY IdlingIs DEF PolicyInit, SaversInv, Holding, InPlace
<1>4. StandingInv
  BY EmptyIsCoherent DEF PolicyInit, StandingInv
<1>5. NeverMisconfigured /\ SnapshotCurrent
  BY <1>1 DEF PolicyInit, NeverMisconfigured, SnapshotCurrent
<1> QED
  BY <1>2, <1>3, <1>4, <1>5 DEF PolicyInv

\* A writer moves and leaves the file alone.
LEMMA WriterMoves ==
  ASSUME PolicyInv, NEW p \in Processes, NEW w \in Writers, writer' = [writer EXCEPT ![p] = w],
         UNCHANGED <<policyText, mtime, changeEvent, snapshot>>,
         backups' \subseteq Contents, raced' \in BOOLEAN, raced => raced',
         standing' = Empty \/ (standing' = standing /\ ~Rewrites(p)),
         InPlace(w),
         Holding(w) => policyLock' = p,
         \A q \in Processes \ {p} : policyLock = q => policyLock' = policyLock,
         ByLock(w) /\ w.pc \in {"emptying", "filling"} => Carries(w)',
         Sound(w)'
  PROVE  PolicyInv'
<1>1. writer'[p] = w /\ \A q \in Processes \ {p} : writer'[q] = writer[q]
  BY DEF PolicyInv, FileTypes
<1>2. FileTypes'
  BY EmptyIsCoherent DEF PolicyInv, FileTypes
<1>3. ASSUME NEW q \in Processes, q # p
      PROVE  /\ InPlace(writer'[q])
             /\ Holding(writer'[q]) => policyLock' = q
             /\ ByLock(writer'[q]) /\ writer'[q].pc \in {"emptying", "filling"} => Carries(writer[q])'
             /\ Sound(writer[q])'
  <2>1. writer'[q] = writer[q]
    BY <1>1, <1>3
  <2>2. /\ InPlace(writer[q])
        /\ Holding(writer[q]) => policyLock = q
        /\ ByLock(writer[q]) /\ writer[q].pc \in {"emptying", "filling"} => Carries(writer[q])
        /\ Sound(writer[q])
    BY DEF PolicyInv, SaversInv
  <2>3. Carries(writer[q]) => Carries(writer[q])'
    BY <2>1, EmptyIsCoherent DEF Carries
  <2>4. Sound(writer[q])'
    BY <2>1, <2>2 DEF Sound
  <2> QED
    BY <1>3, <2>1, <2>2, <2>3, <2>4
<1>4. SaversInv'
  BY <1>1, <1>3 DEF SaversInv, InPlace, ByLock, Holding
<1>5. StandingInv'
  <2>1. CASE standing' = Empty
    BY <2>1, EmptyIsCoherent DEF StandingInv
  <2>2. CASE standing' = standing /\ ~Rewrites(p)
    <3>1. \A q \in Processes : Rewrites(q) => Rewrites(q)'
      BY <1>1, <2>2 DEF Rewrites, ByLock
    <3> QED
      BY <2>2, <3>1 DEF PolicyInv, StandingInv
  <2> QED
    BY <2>1, <2>2
<1>6. NeverMisconfigured' /\ SnapshotCurrent'
  BY DEF PolicyInv, NeverMisconfigured, SnapshotCurrent, Coherent
<1> QED
  BY <1>2, <1>4, <1>5, <1>6 DEF PolicyInv

\* A writer begins: its text is coherent, or nobody validated it.
LEMMA WriteBegins ==
  ASSUME PolicyInv, NEW p \in Processes, NEW w \in Writers, Begin(p, w),
         w.pc \in {"locking", "checking", "copying"}, Holding(w) => FALSE,
         InPlace(w), Sound(w)
  PROVE  PolicyInv'
<1>1. writer' = [writer EXCEPT ![p] = w] /\ writer[p].pc = "idle"
      /\ UNCHANGED <<policyText, mtime, policyLock, backups, changeEvent, snapshot, standing, raced>>
  BY DEF Begin
<1>2. Sound(w)'
  BY <1>1 DEF Sound
<1>3. ~Rewrites(p)
  BY <1>1 DEF Rewrites
<1>4. backups' \subseteq Contents /\ raced' \in BOOLEAN
  BY <1>1 DEF PolicyInv, FileTypes
<1> QED
  BY <1>1, <1>2, <1>3, <1>4, WriterMoves

LEMMA SaveBegins ==
  ASSUME PolicyInv, NEW p \in Processes, NEW lever \in Levers \ {"providers"}, NEW value \in Limits,
         applyPolicyUpdates(p, lever, value) \/ pushUpdate(p, lever, value)
  PROVE  PolicyInv'
<1>0. lever \in Levers /\ policyText \in Contents /\ mtime \in Nat /\ value \in Limits \cup {Unset}
  BY DEF PolicyInv, FileTypes
<1> DEFINE text == Merged(lever, value)
<1>1. PICK kind \in {"save", "push"} :
        /\ kind = "save" => Coherent(text)
        /\ Begin(p, [pc |-> "locking", kind |-> kind, lever |-> lever, text |-> text, seen |-> mtime])
  BY DEF applyPolicyUpdates, pushUpdate, Accepted
<1>2. text \in Contents /\ text = [policyText EXCEPT ![lever] = text[lever]]
  <2>1. text \in Contents
    BY <1>0, MergedIs
  <2>2. text[lever] = value
    BY <1>0 DEF Merged, Contents
  <2> QED
    BY <2>1, <2>2 DEF Merged
<1> HIDE DEF text
<1> DEFINE w == [pc |-> "locking", kind |-> kind, lever |-> lever, text |-> text, seen |-> mtime]
<1>3. /\ w \in Writers /\ w.pc = "locking" /\ w.kind = kind /\ w.lever = lever /\ w.text = text
      /\ w.seen = mtime /\ Begin(p, w)
  BY <1>0, <1>1, <1>2 DEF Writers
<1> HIDE DEF w
<1>4. Sound(w)
  BY <1>0, <1>1, <1>2, <1>3 DEF Sound, Early
<1> QED
  BY <1>1, <1>3, <1>4, WriteBegins DEF Holding, InPlace, ByLock

LEMMA RestoreBegins ==
  ASSUME PolicyInv, NEW p \in Processes, NEW backup \in backups, restoreBackup(p, backup)
  PROVE  PolicyInv'
<1>1. Coherent(backup) /\ backup \in Contents
  BY DEF restoreBackup, PolicyInv, FileTypes
<1>2. PICK w \in Writers :
        Begin(p, w) /\ w.pc = "copying" /\ w.kind = "restore" /\ w.text = backup
  <2> DEFINE w == [Idling EXCEPT !.pc = "copying", !.kind = "restore", !.text = backup]
  <2>1. w \in Writers /\ w.pc = "copying" /\ w.kind = "restore" /\ w.text = backup
    BY <1>1, IdlingIs DEF Writers
  <2> QED
    BY <2>1 DEF restoreBackup
<1>3. Sound(w) /\ ~ByLock(w)
  BY <1>1, <1>2 DEF Sound, ByLock
<1> QED
  BY <1>2, <1>3, WriteBegins DEF Holding, InPlace

LEMMA WizardBegins ==
  ASSUME PolicyInv, NEW p \in Processes, runProviderWizard(p)
  PROVE  PolicyInv'
<1> DEFINE provider == CHOOSE v \in Limits : TRUE
           text == Merged("providers", provider)
           w == [pc |-> "checking", kind |-> "wizard", lever |-> "providers", text |-> text, seen |-> mtime]
<1>1. Begin(p, w)
  BY DEF runProviderWizard
<1>2. provider \in Limits
  BY PolicyAssumption
<1> HIDE DEF provider
<1>3. policyText \in Contents /\ mtime \in Nat
  BY DEF PolicyInv, FileTypes
<1>4. text \in Contents
  BY <1>2, <1>3, MergedIs DEF Levers
<1>5. Coherent(text) = Coherent(policyText)
  <2>1. text["wip_per_agent"] = policyText["wip_per_agent"] /\ text["max_parallel"] = policyText["max_parallel"]
    BY <1>3 DEF Merged, Contents, Levers
  <2> QED
    BY <2>1 DEF Coherent
<1> HIDE DEF text
<1>6. w \in Writers /\ w.pc = "checking" /\ w.kind = "wizard" /\ w.text = text
  BY <1>3, <1>4 DEF Writers, Levers
<1> HIDE DEF w
<1>7. Coherent(policyText) \/ raced
  BY DEF PolicyInv, NeverMisconfigured
<1>8. Sound(w) /\ ~ByLock(w)
  BY <1>5, <1>6, <1>7 DEF Sound, ByLock
<1> QED
  BY <1>1, <1>6, <1>8, WriteBegins DEF Holding, InPlace

\* The record of a writer with another place to be at.
LEMMA PlaceIs ==
  ASSUME NEW w \in Writers,
         NEW pc \in {"idle", "locking", "checking", "copying", "reading", "emptying", "filling"}
  PROVE  /\ [w EXCEPT !.pc = pc] \in Writers
         /\ [w EXCEPT !.pc = pc].pc = pc /\ [w EXCEPT !.pc = pc].kind = w.kind
         /\ [w EXCEPT !.pc = pc].lever = w.lever /\ [w EXCEPT !.pc = pc].text = w.text
         /\ [w EXCEPT !.pc = pc].seen = w.seen
BY DEF Writers

LEMMA Placed ==
  ASSUME FileTypes, NEW p \in Processes,
         NEW pc \in {"idle", "locking", "checking", "copying", "reading", "emptying", "filling"},
         writer' = [writer EXCEPT ![p].pc = pc]
  PROVE  \E w \in Writers : /\ writer' = [writer EXCEPT ![p] = w]
                            /\ w.pc = pc /\ w.kind = writer[p].kind /\ w.lever = writer[p].lever
                            /\ w.text = writer[p].text /\ w.seen = writer[p].seen
<1> DEFINE v == writer[p]
           w == [v EXCEPT !.pc = pc]
<1>1. v \in Writers
  BY DEF FileTypes
<1>2. writer' = [writer EXCEPT ![p] = w]
  OBVIOUS
<1> HIDE DEF v
<1>3. w \in Writers /\ w.pc = pc /\ w.kind = v.kind /\ w.lever = v.lever /\ w.text = v.text /\ w.seen = v.seen
  BY ONLY <1>1, pc \in {"idle", "locking", "checking", "copying", "reading", "emptying", "filling"} DEF Writers
<1> HIDE DEF w
<1> QED
  BY <1>2, <1>3 DEF v

\* The steps before the write.
LEMMA EarlySteps ==
  ASSUME PolicyInv, NEW p \in Processes,
         acquireLock(p) \/ LockTimesOut(p) \/ WizardChecks(p) \/ backupBeforeWrite(p)
  PROVE  PolicyInv'
<1>a. /\ FileTypes /\ raced \in BOOLEAN /\ backups \subseteq Contents /\ policyText \in Contents
      /\ writer[p] \in Writers /\ Sound(writer[p])
      /\ InPlace(writer[p])
      /\ Holding(writer[p]) => policyLock = p
      /\ \A q \in Processes : Holding(writer[q]) => policyLock = q
  BY DEF PolicyInv, FileTypes, SaversInv
<1>b. ASSUME writer' = [writer EXCEPT ![p] = Idling], UNCHANGED <<policyLock, backups, raced>>, FileKept,
             writer[p].pc # "filling"
      PROVE  PolicyInv'
  <2>1. Sound(Idling)' /\ ~Holding(Idling) /\ ~Rewrites(p)
    BY <1>b, IdlingIs, EmptyIsCoherent DEF Sound, Holding, Rewrites, ByLock
  <2> QED
    BY <1>a, <1>b, <2>1, IdlingIs, WriterMoves DEF FileKept, InPlace
<1>1. CASE acquireLock(p)
  <2>1. /\ writer[p].pc = "locking" /\ policyLock = NoOne /\ policyLock' = p
        /\ writer' = [writer EXCEPT ![p].pc = "copying"] /\ UNCHANGED <<backups, raced>> /\ FileKept
    BY <1>1 DEF acquireLock, Lockable, Step
  <2>2. PICK w \in Writers : /\ writer' = [writer EXCEPT ![p] = w]
                             /\ w.pc = "copying" /\ w.kind = writer[p].kind /\ w.lever = writer[p].lever
                             /\ w.text = writer[p].text /\ w.seen = writer[p].seen
    BY <1>a, <2>1, Placed
  <2>3. Sound(w)'
    BY <1>a, <2>1, <2>2 DEF Sound, Early, FileKept
  <2>4. ~Rewrites(p) /\ \A q \in Processes : policyLock # q
    BY <2>1, PolicyAssumption DEF Rewrites, NoOne
  <2>5. InPlace(w) /\ w.pc \notin {"emptying", "filling"}
    BY <1>a, <2>1, <2>2 DEF InPlace, ByLock
  <2> QED
    BY <1>a, <2>1, <2>2, <2>3, <2>4, <2>5, WriterMoves DEF FileKept
<1>2. CASE LockTimesOut(p)
  BY <1>2, <1>b DEF LockTimesOut
<1>3. CASE WizardChecks(p)
  <2>1. CASE mtime > writer[p].seen
    BY <1>3, <1>b, <2>1 DEF WizardChecks
  <2>2. CASE ~(mtime > writer[p].seen)
    <3>1. /\ writer[p].pc = "checking" /\ writer' = [writer EXCEPT ![p].pc = "copying"]
          /\ UNCHANGED <<policyLock, backups, raced>> /\ FileKept
      BY <1>3, <2>2 DEF WizardChecks
    <3>2. PICK w \in Writers : /\ writer' = [writer EXCEPT ![p] = w]
                               /\ w.pc = "copying" /\ w.kind = writer[p].kind /\ w.lever = writer[p].lever
                               /\ w.text = writer[p].text /\ w.seen = writer[p].seen
      BY <1>a, <3>1, Placed
    <3>3. ~ByLock(writer[p])
      BY <1>a, <3>1 DEF InPlace
    <3>4. ~ByLock(w) /\ ~Rewrites(p)
      BY <3>1, <3>2, <3>3 DEF ByLock, Rewrites
    <3>5. Sound(w)'
      BY <1>a, <3>1, <3>2, <3>4 DEF Sound, ByLock, FileKept
    <3> QED
      BY <1>a, <3>1, <3>2, <3>4, <3>5, WriterMoves DEF FileKept, Holding, InPlace
  <2> QED
    BY <2>1, <2>2
<1>4. CASE backupBeforeWrite(p)
  <2> DEFINE pc == IF ByLock(writer[p]) THEN "reading" ELSE "emptying"
  <2>1. /\ writer[p].pc = "copying" /\ backups' = backups \cup {policyText}
        /\ writer' = [writer EXCEPT ![p].pc = pc] /\ UNCHANGED <<policyLock, raced>> /\ FileKept
    BY <1>4 DEF backupBeforeWrite, Step, Locking, ByLock
  <2>2. /\ pc \in {"idle", "locking", "checking", "copying", "reading", "emptying", "filling"}
        /\ pc \in {"reading", "emptying"} /\ (pc = "reading" <=> ByLock(writer[p]))
    OBVIOUS
  <2> HIDE DEF pc
  <2>3. PICK w \in Writers : /\ writer' = [writer EXCEPT ![p] = w]
                             /\ w.pc = pc /\ w.kind = writer[p].kind /\ w.lever = writer[p].lever
                             /\ w.text = writer[p].text /\ w.seen = writer[p].seen
    BY <1>a, <2>1, <2>2, Placed
  <2>4. ByLock(w) <=> ByLock(writer[p])
    BY <2>3 DEF ByLock
  <2>5. Sound(w)'
    BY <1>a, <2>1, <2>2, <2>3, <2>4 DEF Sound, Early, FileKept, ByLock
  <2>6. Holding(w) => policyLock' = p
    BY <1>a, <2>1, <2>4 DEF Holding
  <2>7. ~Rewrites(p) /\ backups' \subseteq Contents
    BY <1>a, <2>1 DEF Rewrites
  <2>8. InPlace(w) /\ ~(ByLock(w) /\ w.pc \in {"emptying", "filling"})
    BY <2>2, <2>3, <2>4 DEF InPlace
  <2> QED
    BY <1>a, <2>1, <2>3, <2>5, <2>6, <2>7, <2>8, WriterMoves DEF FileKept
<1> QED
  BY <1>1, <1>2, <1>3, <1>4

\* A writer reads the file: under its lock, it finds what stands.
LEMMA TextIsRead ==
  ASSUME PolicyInv, NEW p \in Processes, ReadText(p)
  PROVE  PolicyInv'
<1> DEFINE v == writer[p]
           text == Merged(v.lever, v.text[v.lever])
<1>a. /\ policyText \in Contents /\ mtime \in Nat /\ raced \in BOOLEAN /\ v \in Writers
      /\ v.lever \in Levers /\ v.text[v.lever] \in Limits \cup {Unset}
      /\ backups \subseteq Contents
  BY DEF PolicyInv, FileTypes, Writers, Contents
<1>b. Sound(v) /\ InPlace(v) /\ \A q \in Processes : Holding(writer[q]) => policyLock = q
  BY DEF PolicyInv, SaversInv
<1>1. /\ v.pc = "reading" /\ writer' = [writer EXCEPT ![p] = [v EXCEPT !.pc = "emptying", !.text = text]]
      /\ raced' = (raced \/ v.kind = "push" \/ mtime # v.seen)
      /\ UNCHANGED <<policyLock, backups>> /\ FileKept
  BY DEF ReadText
<1>2. text \in Contents /\ text = [policyText EXCEPT ![v.lever] = v.text[v.lever]]
      /\ \A l \in Levers : l # v.lever => text[l] = policyText[l]
  <2>1. text \in Contents
    BY <1>a, MergedIs
  <2> QED
    BY <1>a, <2>1 DEF Merged, Contents
<1>3. ~Rewrites(p)
  BY <1>1 DEF Rewrites
<1>4. \A l \in Levers : standing[l] # Unset => policyText[l] = standing[l]
  <2>1. ByLock(v)
    BY <1>1, <1>b DEF InPlace
  <2>2. policyLock = p
    BY <1>1, <1>b, <2>1 DEF Holding
  <2>3. \A q \in Processes : ~Rewrites(q)
    BY <1>b, <1>3, <2>2 DEF Rewrites, Holding
  <2> QED
    BY <2>3 DEF PolicyInv, StandingInv
<1>c. p \in Processes /\ (Holding(v) => policyLock = p)
  BY <1>b
<1> HIDE DEF v, text
<1>5. PICK w \in Writers :
        /\ writer' = [writer EXCEPT ![p] = w]
        /\ w.pc = "emptying" /\ w.kind = v.kind /\ w.lever = v.lever /\ w.text = text /\ w.seen = v.seen
  <2> DEFINE x == [v EXCEPT !.pc = "emptying", !.text = text]
  <2>1. x \in Writers /\ x.pc = "emptying" /\ x.kind = v.kind /\ x.lever = v.lever /\ x.text = text
        /\ x.seen = v.seen
    BY <1>a, <1>2 DEF Writers
  <2> HIDE DEF x
  <2> QED
    BY <1>1, <2>1 DEF x
<1>6. Carries(w)'
  BY <1>1, <1>2, <1>4, <1>5 DEF Carries, FileKept
<1>7. Sound(w)'
  <2>1. CASE v.kind = "save" /\ mtime = v.seen
    <3>1. Coherent(v.text) /\ v.text = [policyText EXCEPT ![v.lever] = v.text[v.lever]]
      BY <1>1, <1>b, <2>1 DEF Sound, Early
    <3> QED
      BY <1>2, <1>5, <2>1, <3>1 DEF Sound, Early
  <2>2. CASE ~(v.kind = "save" /\ mtime = v.seen)
    <3>1. ByLock(v)
      BY <1>1, <1>b DEF InPlace
    <3>2. raced'
      BY <1>1, <2>2, <3>1 DEF ByLock
    <3> QED
      BY <1>5, <3>2 DEF Sound, Early
  <2> QED
    BY <2>1, <2>2
<1>8. raced' \in BOOLEAN /\ (raced => raced') /\ backups' \subseteq Contents
  BY <1>1, <1>a
<1>9. InPlace(w) /\ (Holding(w) => policyLock' = p)
  BY <1>1, <1>5, <1>c DEF InPlace, Holding, ByLock
<1> QED
  BY <1>1, <1>3, <1>5, <1>6, <1>7, <1>8, <1>9, WriterMoves DEF FileKept

\* A writer writes the file: the others are where they were.
LEMMA FileIsWritten ==
  ASSUME PolicyInv, NEW p \in Processes, NEW w \in Writers, NEW text \in Contents,
         FileWritten(p, text), writer' = [writer EXCEPT ![p] = w],
         Coherent(text) \/ raced,
         standing' \in Contents, InPlace(w), Holding(w) => policyLock' = p,
         \A q \in Processes \ {p} : policyLock = q => policyLock' = policyLock,
         \/ standing' = Empty
         \/ policyLock = p /\ Rewrites(p)'
         \/ policyLock = p /\ \A l \in Levers : standing'[l] # Unset => text[l] = standing'[l],
         ByLock(w) /\ w.pc \in {"emptying", "filling"} => Carries(w)',
         Sound(w)'
  PROVE  PolicyInv'
<1>1. /\ writer'[p] = w /\ \A q \in Processes \ {p} : writer'[q] = writer[q]
      /\ mtime \in Nat /\ mtime' = mtime + 1 /\ policyText' = text /\ changeEvent'
      /\ UNCHANGED <<snapshot, backups, raced>>
  BY DEF PolicyInv, FileTypes, FileWritten
<1>2. FileTypes'
  BY <1>1 DEF PolicyInv, FileTypes
<1>3. ASSUME NEW q \in Processes, q # p
      PROVE  /\ InPlace(writer'[q])
             /\ Holding(writer'[q]) => policyLock' = q
             /\ ByLock(writer'[q]) /\ writer'[q].pc \in {"emptying", "filling"} => Carries(writer[q])'
             /\ Sound(writer[q])'
  <2>1. writer'[q] = writer[q] /\ writer[q].seen \in Nat
    BY <1>1, <1>3 DEF PolicyInv, FileTypes, Writers
  <2>2. /\ InPlace(writer[q])
        /\ Holding(writer[q]) => policyLock = q
        /\ ByLock(writer[q]) /\ writer[q].pc \in {"emptying", "filling"} => Carries(writer[q])
        /\ Sound(writer[q])
    BY DEF PolicyInv, SaversInv
  <2>3. ByLock(writer[q]) /\ writer[q].pc \in {"emptying", "filling"} => Carries(writer[q])'
    <3>1. CASE standing' = Empty
      BY <2>1, <3>1, EmptyIsCoherent DEF Carries
    <3>2. CASE policyLock = p
      BY <1>3, <2>2, <3>2 DEF Holding
    <3> QED
      BY <3>1, <3>2
  <2>4. Sound(writer[q])'
    <3>1. Coherent(writer[q].text) \/ raced' \/ (writer[q].kind = "push" /\ Early(writer[q]))
      BY <1>1, <2>2 DEF Sound
    <3>2. writer[q].kind = "save" /\ Early(writer[q]) =>
            Coherent(writer[q].text) /\ writer[q].seen <= mtime' /\ writer[q].seen # mtime'
      BY <1>1, <2>1, <2>2 DEF Sound
    <3> QED
      BY <2>1, <3>1, <3>2 DEF Sound
  <2> QED
    BY <1>3, <2>1, <2>2, <2>3, <2>4
<1>4. SaversInv'
  BY <1>1, <1>3 DEF SaversInv, InPlace, ByLock, Holding
<1>5. StandingInv'
  BY <1>1, EmptyIsCoherent DEF StandingInv
<1>6. NeverMisconfigured' /\ SnapshotCurrent'
  BY <1>1 DEF PolicyInv, NeverMisconfigured, SnapshotCurrent, Coherent
<1> QED
  BY <1>2, <1>4, <1>5, <1>6 DEF PolicyInv

LEMMA FileIsEmptied ==
  ASSUME PolicyInv, NEW p \in Processes, EmptyFile(p)
  PROVE  PolicyInv'
<1>a. /\ FileTypes /\ writer[p] \in Writers /\ Sound(writer[p]) /\ mtime \in Nat
      /\ Holding(writer[p]) => policyLock = p
      /\ ByLock(writer[p]) /\ writer[p].pc \in {"emptying", "filling"} => Carries(writer[p])
  BY DEF PolicyInv, FileTypes, SaversInv
<1>1. /\ writer[p].pc = "emptying" /\ FileWritten(p, Empty)
      /\ writer' = [writer EXCEPT ![p].pc = "filling"]
      /\ standing' = (IF ByLock(writer[p]) THEN standing ELSE Empty) /\ policyLock' = policyLock
  BY DEF EmptyFile, Step, Locking, ByLock
<1>2. PICK w \in Writers : /\ writer' = [writer EXCEPT ![p] = w]
                           /\ w.pc = "filling" /\ w.kind = writer[p].kind /\ w.lever = writer[p].lever
                           /\ w.text = writer[p].text /\ w.seen = writer[p].seen
  BY <1>a, <1>1, Placed
<1>3. /\ Sound(w)' /\ InPlace(w) /\ (ByLock(w) <=> ByLock(writer[p]))
  BY <1>a, <1>1, <1>2 DEF Sound, Early, InPlace, ByLock, FileWritten
<1>4. ByLock(w) => policyLock = p /\ Carries(w)' /\ Rewrites(p)'
  <2>1. writer'[p] = w
    BY <1>a, <1>2 DEF FileTypes
  <2>2. SUFFICES ASSUME ByLock(w)
                 PROVE  policyLock = p /\ Carries(w)' /\ Rewrites(p)'
    OBVIOUS
  <2>3. standing' = standing /\ Carries(writer[p]) /\ policyLock = p
    BY <1>a, <1>1, <1>3, <2>2 DEF Holding
  <2>4. Carries(w)'
    BY <1>2, <2>3 DEF Carries
  <2>5. Rewrites(p)'
    BY <1>2, <2>1, <2>2 DEF Rewrites
  <2> QED
    BY <2>3, <2>4, <2>5
<1>5. standing' \in Contents /\ (standing' = Empty \/ ByLock(w))
  BY <1>a, <1>1, <1>3, EmptyIsCoherent DEF FileTypes
<1> QED
  BY <1>1, <1>2, <1>3, <1>4, <1>5, EmptyIsCoherent, FileIsWritten DEF Holding

LEMMA FileIsFilled ==
  ASSUME PolicyInv, NEW p \in Processes, FillFile(p)
  PROVE  PolicyInv'
<1> DEFINE v == writer[p]
<1>a. /\ FileTypes /\ v \in Writers /\ Sound(v) /\ standing \in Contents
      /\ v.lever \in Levers /\ v.text \in Contents /\ v.text[v.lever] \in Limits \cup {Unset}
      /\ Holding(v) => policyLock = p
      /\ ByLock(v) /\ v.pc \in {"emptying", "filling"} => Carries(v)
      /\ \A q \in Processes : Holding(writer[q]) => policyLock = q
  BY DEF PolicyInv, FileTypes, SaversInv, Writers, Contents
<1>1. /\ v.pc = "filling" /\ FileWritten(p, v.text) /\ writer' = [writer EXCEPT ![p] = Idling]
      /\ ByLock(v) => /\ policyLock' = NoOne
                      /\ standing' = [standing EXCEPT ![v.lever] = v.text[v.lever]]
      /\ ~ByLock(v) => policyLock' = policyLock /\ standing' = Empty
  BY DEF FillFile, Locking, ByLock
<1> HIDE DEF v
<1>2. Coherent(v.text) \/ raced
  BY <1>a, <1>1 DEF Sound, Early
<1>3. ByLock(v) => /\ policyLock = p /\ standing' \in Contents
                   /\ \A l \in Levers : standing'[l] # Unset => v.text[l] = standing'[l]
  <2>1. SUFFICES ASSUME ByLock(v)
                 PROVE  /\ policyLock = p /\ standing' \in Contents
                        /\ \A l \in Levers : standing'[l] # Unset => v.text[l] = standing'[l]
    OBVIOUS
  <2>2. policyLock = p /\ Carries(v)
    BY <1>a, <1>1, <2>1 DEF Holding
  <2>3. standing' \in Contents
    BY <1>a, <1>1, <2>1 DEF Contents
  <2>4. \A l \in Levers : standing'[l] # Unset => v.text[l] = standing'[l]
    BY <1>a, <1>1, <2>1, <2>2 DEF Carries, Contents
  <2> QED
    BY <2>2, <2>3, <2>4
<1>4. /\ Sound(Idling)' /\ InPlace(Idling) /\ ~Holding(Idling)
      /\ ~(ByLock(Idling) /\ Idling.pc \in {"emptying", "filling"})
  BY IdlingIs, EmptyIsCoherent DEF Sound, InPlace, Holding, ByLock
<1>5. standing' \in Contents
  BY <1>1, <1>3, EmptyIsCoherent
<1>6. \A q \in Processes \ {p} : policyLock = q => policyLock' = policyLock
  BY <1>1, <1>3
<1>7. \/ standing' = Empty
      \/ policyLock = p /\ \A l \in Levers : standing'[l] # Unset => v.text[l] = standing'[l]
  BY <1>1, <1>3
<1> QED
  BY <1>a, <1>1, <1>2, <1>4, <1>5, <1>6, <1>7, IdlingIs, FileIsWritten

LEMMA DeadWriter ==
  ASSUME PolicyInv, NEW p \in Processes, WriterDies(p)
  PROVE  PolicyInv'
<1>1. /\ writer' = [writer EXCEPT ![p] = Idling]
      /\ standing' = (IF writer[p].pc = "filling" THEN Empty ELSE standing)
      /\ UNCHANGED <<policyText, mtime, policyLock, backups, changeEvent, snapshot, raced>>
  BY DEF WriterDies
<1>2. standing' = Empty \/ (standing' = standing /\ ~Rewrites(p))
  BY <1>1 DEF Rewrites
<1>3. /\ Sound(Idling)' /\ InPlace(Idling) /\ ~Holding(Idling)
      /\ ~(ByLock(Idling) /\ Idling.pc \in {"emptying", "filling"})
  BY IdlingIs, EmptyIsCoherent DEF Sound, InPlace, Holding, ByLock
<1>4. backups' \subseteq Contents /\ raced' \in BOOLEAN
  BY <1>1 DEF PolicyInv, FileTypes
<1> QED
  BY <1>1, <1>2, <1>3, <1>4, IdlingIs, WriterMoves

LEMMA Reloaded ==
  ASSUME PolicyInv, ReloadPolicy
  PROVE  PolicyInv'
<1>1. /\ ~changeEvent' /\ snapshot' = (IF Coherent(policyText) THEN policyText ELSE snapshot)
      /\ UNCHANGED <<policyText, mtime, policyLock, backups, writer, standing, raced>>
  BY DEF ReloadPolicy
<1>2. FileTypes'
  BY <1>1 DEF PolicyInv, FileTypes
<1>3. SaversInv'
  BY <1>1 DEF PolicyInv, SaversInv, Sound, Carries
<1>4. StandingInv'
  BY <1>1 DEF PolicyInv, StandingInv, Rewrites
<1>5. NeverMisconfigured' /\ SnapshotCurrent'
  BY <1>1 DEF PolicyInv, NeverMisconfigured, SnapshotCurrent, Coherent
<1> QED
  BY <1>2, <1>3, <1>4, <1>5 DEF PolicyInv

LEMMA PolicyStep == PolicyInv /\ [PolicyNext]_policyVars => PolicyInv'
<1> SUFFICES ASSUME PolicyInv, [PolicyNext]_policyVars PROVE PolicyInv'
  OBVIOUS
<1>1. CASE UNCHANGED policyVars
  BY <1>1 DEF policyVars, PolicyInv, FileTypes, SaversInv, StandingInv, Sound, Carries, Rewrites,
              NeverMisconfigured, SnapshotCurrent
<1>2. CASE ReloadPolicy
  BY <1>2, Reloaded
<1>3. ASSUME NEW p \in Processes, NEW lever \in Levers \ {"providers"}, NEW value \in Limits,
             applyPolicyUpdates(p, lever, value) \/ pushUpdate(p, lever, value)
      PROVE  PolicyInv'
  BY <1>3, SaveBegins
<1>4. ASSUME NEW p \in Processes, NEW backup \in backups, restoreBackup(p, backup)
      PROVE  PolicyInv'
  BY <1>4, RestoreBegins
<1>5. ASSUME NEW p \in Processes,
             \/ runProviderWizard(p)
             \/ acquireLock(p) \/ LockTimesOut(p) \/ WizardChecks(p)
             \/ backupBeforeWrite(p) \/ ReadText(p) \/ EmptyFile(p) \/ FillFile(p)
             \/ WriterDies(p)
      PROVE  PolicyInv'
  BY <1>5, WizardBegins, EarlySteps, TextIsRead, FileIsEmptied, FileIsFilled, DeadWriter
<1> QED
  BY <1>1, <1>2, <1>3, <1>4, <1>5 DEF PolicyNext

LEMMA PolicyInvariant == PolicySpec => []PolicyInv
BY PolicyInitInv, PolicyStep, PTL DEF PolicySpec

\* A setting whose save was acknowledged stays in policy.yaml until it is saved
\* again, or someone who takes no lock writes the file (policy-write.mjs:9-17).
THEOREM SavedSettingsStand == PolicySpec => []EditsKept
BY PolicyInvariant, PolicyInvImplies, PTL

\* An incoherent policy reaches the file only through a write nobody validated
\* against the text it changes, and a running project never
\* (config-hot-reload.mjs:15-20); with no event outstanding, a project is given
\* what the file says.
THEOREM ProjectsGetValidPolicies == PolicySpec => [](NeverMisconfigured /\ SnapshotCurrent)
BY PolicyInvariant, PolicyInvImplies, PTL

-----------------------------------------------------------------------------
(* The types of the management contract, the worktrees and the policy.     *)

\* The maps hold entries of requests only: what was loaded, with the request's own.
LEMMA MapsStep ==
  ASSUME MgmtInv, maps \subseteq MgmtRequests, [ManagementNext]_mgmtVars
  PROVE  maps' \subseteq MgmtRequests
<1>1. \A r \in MgmtRequests : Loaded(r) \subseteq MgmtRequests
  <2>1. \A t \in MgmtTenants : durable[t] \subseteq Entered(t) /\ Entered(t) \subseteq MgmtRequests
    BY DEF MgmtInv, TenantsApart, Entered
  <2>2. \A r \in MgmtRequests : TenantOf[r] \in MgmtTenants
    BY DEF MgmtTenants
  <2> QED
    BY <2>1, <2>2 DEF Loaded
<1>2. ASSUME NEW r \in MgmtRequests, ServeAtOnce(r) PROVE maps' \subseteq MgmtRequests
  BY <1>1, <1>2 DEF ServeAtOnce, Finish
<1>3. ASSUME NEW r \in MgmtRequests, testIntegration(r) \/ TestEnds(r)
      PROVE  maps' \subseteq MgmtRequests
  BY <1>1, <1>3 DEF testIntegration, TestEnds, Finish
<1>4. ASSUME NEW r \in MgmtRequests, NEW kind \in Kinds,
             acquireManagementStateLock(r, kind) \/ LoadFails(r) \/ PruneFails(r)
      PROVE  maps' \subseteq MgmtRequests
  BY <1>4 DEF acquireManagementStateLock, LoadFails, PruneFails
<1>5. ASSUME NEW r \in MgmtRequests, LoadFails(r) \/ PruneFails(r)
      PROVE  maps' \subseteq MgmtRequests
  BY <1>5 DEF LoadFails, PruneFails
<1>6. CASE DashboardRestarts \/ UNCHANGED mgmtVars
  BY <1>6 DEF DashboardRestarts, mgmtVars
<1> QED
  BY <1>2, <1>3, <1>4, <1>5, <1>6 DEF ManagementNext

LEMMA ManagementTypes == ManagementSpec => []ManagementTypeOK
<1> DEFINE Inv == MgmtInv /\ maps \subseteq MgmtRequests
<1>1. ManagementInit => Inv
  <2>1. ManagementInit => MgmtInv
    BY DEF ManagementInit, MgmtInv, HolderAlone, TenantsApart, Entered, NotSent, Kinds
  <2> QED
    BY <2>1 DEF ManagementInit
<1>2. Inv /\ [ManagementNext]_mgmtVars => Inv'
  BY MgmtStep, MapsStep
<1>3. Inv => ManagementTypeOK
  <2> SUFFICES ASSUME Inv PROVE ManagementTypeOK
    OBVIOUS
  <2>1. \A t \in MgmtTenants : durable[t] \subseteq MgmtRequests
    BY DEF MgmtInv, TenantsApart, Entered
  <2>2. \A r \in MgmtRequests : asked[r].at \in {"idle", "waits", "awaits", "stuck", "over"}
    BY DEF MgmtInv
  <2> QED
    BY <2>1, <2>2 DEF ManagementTypeOK, MgmtInv
<1> QED
  BY <1>1, <1>2, <1>3, PTL DEF ManagementSpec

---------------------------------------------------------------------------
\* The branches stay within the bound, and the primary tree on one of them.
TreeBounds ==
  /\ \A b \in Branches : local[b] <= MaxCommits /\ pushed[b] <= MaxCommits
  /\ head \in Branches \cup {Main} /\ changed \subseteq {"board", "other"}

LEMMA TreeBoundsStep ==
  ASSUME TreeInv, TreeBounds, [WorktreesNext]_treeVars
  PROVE  TreeBounds'
<1>a. /\ MaxCommits \in Nat /\ NoBranch \in Int /\ NoBranch <= MaxCommits
      /\ \A b \in Branches : local[b] \in Int /\ pushed[b] \in Int
  BY WorktreesAssumption DEF NoBranch, TreeInv, Counts
<1>b. ASSUME NEW b \in Branches, NEW branches \in [Branches -> Counts],
             NEW trees \in [Branches -> {"none", "there", "left"}], NEW locked \in BOOLEAN,
             \A c \in Branches : branches[c] <= MaxCommits,
             NEW removed, removed = removeWorktree(b, branches, trees, locked)
      PROVE  \A c \in Branches : removed.branches[c] <= MaxCommits
  BY <1>a, <1>b DEF removeWorktree, Counts
<1>1. ASSUME NEW r \in Runs, createWorktree(r)
      PROVE  TreeBounds'
  <2>1. PICK locked, gitFails \in BOOLEAN :
         LET b == branchName(r)
             cleared == removeWorktree(b, local, tree, locked)
             again == removeWorktree(b, cleared.branches, cleared.trees, locked)
         IN local' = [cleared.branches EXCEPT ![b] = 0] \/ local' = again.branches
    BY <1>1 DEF createWorktree
  <2> DEFINE b == branchName(r)
  <2>2. PICK cleared : cleared = removeWorktree(b, local, tree, locked)
    OBVIOUS
  <2>3. PICK again : again = removeWorktree(b, cleared.branches, cleared.trees, locked)
    OBVIOUS
  <2>4. b \in Branches
    BY BranchPerRun
  <2> HIDE DEF b
  <2>5. /\ cleared.trees \in [Branches -> {"none", "there", "left"}]
        /\ cleared.branches \in [Branches -> Counts]
        /\ \A c \in Branches : cleared.branches[c] <= MaxCommits
    BY <1>b, <2>2, <2>4, Removal DEF TreeInv, TreeBounds
  <2>6. \A c \in Branches : again.branches[c] <= MaxCommits
    BY <1>b, <2>3, <2>4, <2>5
  <2>7. local' = [cleared.branches EXCEPT ![b] = 0] \/ local' = again.branches
    BY <2>1, <2>2, <2>3 DEF b
  <2>8. \A c \in Branches : local'[c] <= MaxCommits
    BY <1>a, <2>5, <2>6, <2>7
  <2> QED
    BY <1>1, <2>8 DEF createWorktree, TreeBounds, Primary
<1>2. ASSUME NEW r \in Runs, AgentCommits(r)
      PROVE  TreeBounds'
  <2>1. /\ local[branchName(r)] < MaxCommits
        /\ local' = [local EXCEPT ![branchName(r)] = @ + 1]
        /\ branchName(r) \in Branches
        /\ UNCHANGED <<pushed, head, changed>>
    BY <1>2, BranchPerRun DEF AgentCommits, Primary
  <2>2. \A c \in Branches : local'[c] <= MaxCommits
    BY <1>a, <2>1 DEF TreeInv, TreeBounds
  <2> QED
    BY <2>1, <2>2 DEF TreeBounds
<1>3. ASSUME NEW r \in Runs, AgentPushes(r)
      PROVE  TreeBounds'
  <2>1. /\ pushed' = [pushed EXCEPT ![branchName(r)] = local[branchName(r)]]
        /\ branchName(r) \in Branches
        /\ UNCHANGED <<local, head, changed>>
    BY <1>3, BranchPerRun DEF AgentPushes, Primary
  <2>2. \A c \in Branches : pushed'[c] <= MaxCommits
    BY <1>a, <2>1 DEF TreeInv, TreeBounds
  <2> QED
    BY <2>1, <2>2 DEF TreeBounds
<1>4. ASSUME NEW r \in Runs, RunEnds(r)
      PROVE  TreeBounds'
  <2>1. PICK locked \in BOOLEAN :
          local' = removeWorktree(branchName(r), local, tree, locked).branches
    BY <1>4 DEF RunEnds
  <2>2. PICK removed : removed = removeWorktree(branchName(r), local, tree, locked)
    OBVIOUS
  <2>3. \A c \in Branches : removed.branches[c] <= MaxCommits
    BY <1>b, <2>2, BranchPerRun DEF TreeInv, TreeBounds
  <2> QED
    BY <1>4, <2>1, <2>2, <2>3 DEF RunEnds, TreeBounds, Primary
<1>5. ASSUME NEW r \in Runs, LooseEnds(r)
      PROVE  TreeBounds'
  BY <1>5 DEF LooseEnds, TreeBounds, Primary
<1>6. ASSUME NEW b \in Branches, mergePr(b)
      PROVE  TreeBounds'
  <2>1. local' = local \/ local' = [local EXCEPT ![b] = NoBranch]
    BY <1>6 DEF mergePr
  <2>2. \A c \in Branches : local'[c] <= MaxCommits
    BY <1>a, <2>1 DEF TreeInv, TreeBounds
  <2> QED
    BY <1>6, <2>2 DEF mergePr, TreeBounds
<1>7. ASSUME NEW b \in Branches, StrayCheckout(b)
      PROVE  TreeBounds'
  BY <1>7 DEF StrayCheckout, TreeBounds
<1>8. CASE DaemonStops
  BY <1>8 DEF DaemonStops, TreeBounds, Primary
<1>9. CASE Boot
  BY <1>9 DEF Boot, restorePrimaryTreeToMain, pruneAllWorktrees, TreeBounds
<1>10. CASE RenderBoard \/ FounderEdits \/ FounderPutsAway \/ UNCHANGED treeVars
  BY <1>10 DEF RenderBoard, FounderEdits, FounderPutsAway, treeVars, TreeBounds
<1> QED
  BY <1>1, <1>2, <1>3, <1>4, <1>5, <1>6, <1>7, <1>8, <1>9, <1>10 DEF WorktreesNext

LEMMA WorktreesTypes == WorktreesSpec => []WorktreesTypeOK
<1> DEFINE Inv == TreeInv /\ TreeBounds
<1>1. WorktreesInit => Inv
  <2>1. WorktreesInit => TreeBounds
    BY WorktreesAssumption DEF WorktreesInit, TreeBounds, NoBranch
  <2> QED
    BY <2>1, TreeInit
<1>2. Inv /\ [WorktreesNext]_treeVars => Inv'
  BY TreeStep, TreeBoundsStep
<1>3. Inv => WorktreesTypeOK
  BY WorktreesAssumption DEF TreeInv, TreeBounds, Counts, NoBranch, WorktreesTypeOK
<1> QED
  BY <1>1, <1>2, <1>3, PTL DEF WorktreesSpec

\* The file is written to twice for each write begun: what the writers have left to do
\* makes up the difference.
WritesLeft == {w \in Processes \X {1, 2} :
                 writer[w[1]].pc # "idle" /\ (writer[w[1]].pc = "filling" => w[2] = 1)}
TouchInv ==
  /\ ops \in 0..MaxOps /\ policyLock \in Processes \cup {NoOne}
  /\ IsFiniteSet(WritesLeft) /\ mtime + Cardinality(WritesLeft) <= 2 * ops

LEMMA NoMoreLeft ==
  ASSUME TouchInv, PolicyInv, WritesLeft' \subseteq WritesLeft, UNCHANGED <<mtime, ops>>
  PROVE  IsFiniteSet(WritesLeft)' /\ (mtime + Cardinality(WritesLeft) <= 2 * ops)'
<1>1. /\ IsFiniteSet(WritesLeft') /\ Cardinality(WritesLeft') <= Cardinality(WritesLeft)
      /\ Cardinality(WritesLeft) \in Nat
  BY FS_Subset, FS_CardinalityType DEF TouchInv
<1>2. Cardinality(WritesLeft') \in Nat
  BY <1>1, FS_CardinalityType
<1>3. mtime \in Nat /\ ops \in Nat /\ mtime + Cardinality(WritesLeft) <= 2 * ops
  BY DEF TouchInv, PolicyInv, FileTypes
<1>4. mtime + Cardinality(WritesLeft') <= 2 * ops
  BY <1>1, <1>2, <1>3
<1> QED
  BY <1>1, <1>4

LEMMA OneLessLeft ==
  ASSUME TouchInv, PolicyInv, NEW e \in WritesLeft, WritesLeft' \subseteq WritesLeft \ {e},
         mtime' = mtime + 1, UNCHANGED ops
  PROVE  IsFiniteSet(WritesLeft)' /\ (mtime + Cardinality(WritesLeft) <= 2 * ops)'
<1>1. /\ IsFiniteSet(WritesLeft \ {e})
      /\ Cardinality(WritesLeft \ {e}) = Cardinality(WritesLeft) - 1
      /\ Cardinality(WritesLeft) \in Nat
  BY FS_RemoveElement, FS_CardinalityType DEF TouchInv
<1>2. IsFiniteSet(WritesLeft') /\ Cardinality(WritesLeft') <= Cardinality(WritesLeft \ {e})
  BY <1>1, FS_Subset
<1>3. Cardinality(WritesLeft') \in Nat
  BY <1>2, FS_CardinalityType
<1>4. mtime \in Nat /\ ops \in Nat /\ mtime + Cardinality(WritesLeft) <= 2 * ops
  BY DEF TouchInv, PolicyInv, FileTypes
<1>5. mtime + 1 + Cardinality(WritesLeft') <= 2 * ops
  BY <1>1, <1>2, <1>3, <1>4
<1> QED
  BY <1>2, <1>5

LEMMA BeginTouches ==
  ASSUME TouchInv, PolicyInv, NEW p \in Processes, NEW state, Begin(p, state)
  PROVE  TouchInv'
<1>1. /\ writer[p].pc = "idle" /\ ops < MaxOps /\ ops' = ops + 1
      /\ \A q \in Processes : q # p => writer'[q] = writer[q]
      /\ UNCHANGED <<mtime, policyLock>>
  BY DEF Begin, PolicyInv, FileTypes
<1> DEFINE one == <<p, 1>>
           two == <<p, 2>>
<1>2. one # two /\ one \notin WritesLeft /\ two \notin WritesLeft
  BY <1>1 DEF WritesLeft
<1>3. WritesLeft' \subseteq (WritesLeft \cup {one}) \cup {two}
  BY <1>1 DEF WritesLeft
<1> HIDE DEF one, two
<1>4. /\ IsFiniteSet(WritesLeft \cup {one})
      /\ Cardinality(WritesLeft \cup {one}) = Cardinality(WritesLeft) + 1
      /\ Cardinality(WritesLeft) \in Nat
  BY <1>2, FS_AddElement, FS_CardinalityType DEF TouchInv
<1>5. two \notin WritesLeft \cup {one}
  BY <1>2
<1>6. /\ IsFiniteSet((WritesLeft \cup {one}) \cup {two})
      /\ Cardinality((WritesLeft \cup {one}) \cup {two}) = Cardinality(WritesLeft) + 2
  BY <1>4, <1>5, FS_AddElement
<1>7. /\ IsFiniteSet(WritesLeft') /\ Cardinality(WritesLeft') <= Cardinality(WritesLeft) + 2
      /\ Cardinality(WritesLeft') \in Nat
  BY <1>3, <1>6, FS_Subset, FS_CardinalityType
<1>8. mtime \in Nat /\ ops \in 0..MaxOps /\ mtime + Cardinality(WritesLeft) <= 2 * ops
  BY DEF TouchInv, PolicyInv, FileTypes
<1>9. mtime + Cardinality(WritesLeft') <= 2 * (ops + 1)
  BY <1>4, <1>7, <1>8
<1>10. ops' \in 0..MaxOps
  BY <1>1, <1>8, PolicyAssumption
<1> QED
  BY <1>1, <1>7, <1>9, <1>10 DEF TouchInv

LEMMA TouchStep ==
  ASSUME TouchInv, PolicyInv, [PolicyNext]_policyVars
  PROVE  TouchInv'
<1>1. ASSUME NEW p \in Processes, NEW state, Begin(p, state)
      PROVE  TouchInv'
  BY <1>1, BeginTouches
<1>2. ASSUME UNCHANGED <<mtime, ops>>, policyLock' \in Processes \cup {NoOne},
             NEW p \in Processes, \A q \in Processes : q # p => writer'[q] = writer[q],
             \/ writer'[p].pc = "idle"
             \/ writer[p].pc \notin {"idle", "filling"}
      PROVE  TouchInv'
  <2>1. WritesLeft' \subseteq WritesLeft
    BY <1>2 DEF WritesLeft
  <2> QED
    BY <1>2, <2>1, NoMoreLeft DEF TouchInv
<1>3. ASSUME NEW p \in Processes, acquireLock(p)
      PROVE  TouchInv'
  BY <1>2, <1>3 DEF acquireLock, Step, FileKept, PolicyInv, FileTypes
<1>4. ASSUME NEW p \in Processes, LockTimesOut(p)
      PROVE  TouchInv'
  BY <1>2, <1>4 DEF LockTimesOut, FileKept, PolicyInv, FileTypes, Idling, TouchInv
<1>5. ASSUME NEW p \in Processes, WizardChecks(p)
      PROVE  TouchInv'
  BY <1>2, <1>5 DEF WizardChecks, FileKept, PolicyInv, FileTypes, TouchInv
<1>6. ASSUME NEW p \in Processes, backupBeforeWrite(p)
      PROVE  TouchInv'
  BY <1>2, <1>6 DEF backupBeforeWrite, Step, FileKept, PolicyInv, FileTypes, TouchInv
<1>7. ASSUME NEW p \in Processes, ReadText(p)
      PROVE  TouchInv'
  BY <1>2, <1>7 DEF ReadText, FileKept, PolicyInv, FileTypes, TouchInv
<1>8. ASSUME NEW p \in Processes, WriterDies(p)
      PROVE  TouchInv'
  BY <1>2, <1>8 DEF WriterDies, PolicyInv, FileTypes, Idling, TouchInv
<1>9. ASSUME NEW p \in Processes, EmptyFile(p)
      PROVE  TouchInv'
  <2>1. /\ writer[p].pc = "emptying" /\ writer'[p].pc = "filling"
        /\ \A q \in Processes : q # p => writer'[q] = writer[q]
        /\ mtime' = mtime + 1 /\ UNCHANGED <<ops, policyLock>>
    BY <1>9 DEF EmptyFile, FileWritten, Step, PolicyInv, FileTypes
  <2>2. <<p, 2>> \in WritesLeft /\ WritesLeft' \subseteq WritesLeft \ {<<p, 2>>}
    BY <2>1 DEF WritesLeft
  <2> QED
    BY <2>1, <2>2, OneLessLeft DEF TouchInv
<1>10. ASSUME NEW p \in Processes, FillFile(p)
       PROVE  TouchInv'
  <2>1. /\ writer[p].pc = "filling" /\ writer'[p].pc = "idle"
        /\ \A q \in Processes : q # p => writer'[q] = writer[q]
        /\ mtime' = mtime + 1 /\ UNCHANGED ops /\ policyLock' \in {policyLock, NoOne}
    BY <1>10 DEF FillFile, FileWritten, Idling, PolicyInv, FileTypes
  <2>2. <<p, 1>> \in WritesLeft /\ WritesLeft' \subseteq WritesLeft \ {<<p, 1>>}
    BY <2>1 DEF WritesLeft
  <2> QED
    BY <2>1, <2>2, OneLessLeft DEF TouchInv
<1>11. CASE ReloadPolicy \/ UNCHANGED policyVars
  <2>1. UNCHANGED <<writer, mtime, ops, policyLock>>
    BY <1>11 DEF ReloadPolicy, policyVars
  <2> QED
    BY <2>1 DEF TouchInv, WritesLeft
<1>12. ASSUME NEW p \in Processes, NEW lever \in Levers \ {"providers"}, NEW value \in Limits,
              applyPolicyUpdates(p, lever, value) \/ pushUpdate(p, lever, value)
       PROVE  TouchInv'
  BY <1>1, <1>12 DEF applyPolicyUpdates, pushUpdate
<1>13. ASSUME NEW p \in Processes, NEW backup \in backups, restoreBackup(p, backup)
       PROVE  TouchInv'
  BY <1>1, <1>13 DEF restoreBackup
<1>14. ASSUME NEW p \in Processes, runProviderWizard(p)
       PROVE  TouchInv'
  BY <1>1, <1>14 DEF runProviderWizard
<1> QED
  BY <1>3, <1>4, <1>5, <1>6, <1>7, <1>8, <1>9, <1>10, <1>11, <1>12, <1>13, <1>14 DEF PolicyNext

LEMMA PolicyTypes == PolicySpec => []PolicyTypeOK
<1> DEFINE Inv == PolicyInv /\ TouchInv
<1>1. PolicyInit => Inv
  <2> SUFFICES ASSUME PolicyInit PROVE Inv
    OBVIOUS
  <2>1. PolicyInv
    BY PolicyInitInv
  <2>2. WritesLeft = {}
    BY DEF PolicyInit, WritesLeft, Idling
  <2>3. IsFiniteSet(WritesLeft) /\ Cardinality(WritesLeft) = 0
    BY <2>2, FS_EmptySet
  <2> QED
    BY <2>1, <2>3, PolicyAssumption DEF PolicyInit, TouchInv
<1>2. Inv /\ [PolicyNext]_policyVars => Inv'
  BY PolicyStep, TouchStep
<1>3. Inv => PolicyTypeOK
  <2> SUFFICES ASSUME Inv PROVE PolicyTypeOK
    OBVIOUS
  <2>1. Cardinality(WritesLeft) \in Nat /\ mtime \in Nat /\ ops \in 0..MaxOps
    BY FS_CardinalityType DEF TouchInv, PolicyInv, FileTypes
  <2>2. mtime \in 0..2 * MaxOps
    BY <2>1, PolicyAssumption DEF TouchInv
  <2>3. \A p \in Processes :
          /\ writer[p].pc \in {"idle", "locking", "checking", "copying", "reading",
                               "emptying", "filling"}
          /\ writer[p].kind \in {"none", "save", "push", "restore", "wizard"}
          /\ writer[p].text \in Contents
    BY DEF PolicyInv, FileTypes, Writers
  <2> QED
    BY <2>2, <2>3 DEF PolicyTypeOK, TouchInv, PolicyInv, FileTypes
<1> QED
  BY <1>1, <1>2, <1>3, PTL DEF PolicySpec
=============================================================================

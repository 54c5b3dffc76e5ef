------------------------------- MODULE ApiKeys ------------------------------
(***************************************************************************)
(* The keys of the local REST API (auth/api-tokens.mjs:157-284) and their  *)
(* two administrations over one database: the public API's own, whose      *)
(* rotation ends the old key at once and in a transaction                  *)
(* (api/v1/router.mjs:128-176), and the management contract's, whose       *)
(* rotation lets it overlap with its successor, in statements of their own *)
(* (dashboard/management-router.mjs:57-62).                                *)
(*                                                                         *)
(* Two processes may serve both.  A key is its position in the table; its  *)
(* name and scopes are not modelled.                                       *)
(***************************************************************************)
EXTENDS Integers, FiniteSets

CONSTANTS
    KeyServers,    \* the processes with the database open
    MaxApiKeys,    \* bound: keys ever made
    KeyTime,       \* bound on the clock
    Overlap        \* the longest overlap, cf. one day

ASSUME ApiKeysAssumption == KeyTime \in Nat /\ Overlap \in Nat /\ MaxApiKeys \in Nat

ApiKeys == 1..MaxApiKeys
NoOverlap == KeyTime + Overlap + 1
IdleServer == [at |-> "idle", key |-> 0, until |-> NoOverlap]

VARIABLES
    keyNow,
    keyCount,      \* how many keys there are
    active,        \* the keys with is_active = 1
    managed,       \* those with a lifecycle row
    overlapUntil,  \* their deadlines
    replacementOf, \* history: the key a key was minted to replace, 0 for none
    server,        \* where each process is in a rotation, and of which key
    revoked,       \* history: keys somebody revoked
    ended          \* history: those, keys rotated out and keys past their deadline

keyVars == <<keyNow, keyCount, active, managed, overlapUntil, replacementOf, server, revoked, ended>>

ApiKeysInit ==
    /\ keyNow = 0 /\ keyCount = 0 /\ active = {} /\ managed = {}
    /\ overlapUntil = [k \in ApiKeys |-> NoOverlap]
    /\ replacementOf = [k \in ApiKeys |-> 0]
    /\ server = [p \in KeyServers |-> IdleServer] /\ revoked = {} /\ ended = {}

Elapsed(k) == overlapUntil[k] <= keyNow
Passes(k) == k \in active /\ ~Elapsed(k)

---------------------------------------------------------------------------
generateApiKey(replaced) ==
    /\ keyCount < MaxApiKeys
    /\ keyCount' = keyCount + 1
    /\ replacementOf' = [replacementOf EXCEPT ![keyCount + 1] = replaced]

createUnmanaged(p) ==
    /\ server[p] = IdleServer
    /\ generateApiKey(0) /\ active' = active \cup {keyCount + 1}
    /\ UNCHANGED <<keyNow, managed, overlapUntil, server, revoked, ended>>

\* The row of the lifecycle follows in a statement of its own; a process that dies
\* between leaves a key of the other kind.
createManaged(p) ==
    /\ server[p] = IdleServer
    /\ generateApiKey(0) /\ active' = active \cup {keyCount + 1}
    /\ managed' \in {managed, managed \cup {keyCount + 1}}
    /\ UNCHANGED <<keyNow, overlapUntil, server, revoked, ended>>

\* A bearer's request: a key past its deadline is deactivated when it is next shown.
validateApiKey(k) ==
    /\ k <= keyCount
    /\ active' = IF Elapsed(k) THEN active \ {k} ELSE active
    /\ UNCHANGED <<keyNow, keyCount, managed, overlapUntil, replacementOf, server, revoked, ended>>

\* Of either administration; management finds the key in its list first.
revokeApiKey(k) ==
    /\ k <= keyCount
    /\ active' = active \ {k} /\ revoked' = revoked \cup {k} /\ ended' = ended \cup {k}
    /\ UNCHANGED <<keyNow, keyCount, managed, overlapUntil, replacementOf, server>>

\* The rows the list finds past their deadline are deactivated, not just shown so.
Listed_shown == active
Listed == active \ {k \in managed : Elapsed(k)}

---------------------------------------------------------------------------
(* The hard rotation: looked up and found active before the transaction.   *)

rotateChecks(p, k) ==
    /\ server[p] = IdleServer /\ k \in active
    /\ server' = [server EXCEPT ![p] = [at |-> "found", key |-> k, until |-> NoOverlap]]
    /\ UNCHANGED <<keyNow, keyCount, active, managed, overlapUntil, replacementOf, revoked, ended>>

rotateCommits(p) ==
    LET k == server[p].key IN
    /\ server[p].at = "found"
    /\ generateApiKey(k) /\ active' = (active \ {k}) \cup {keyCount + 1}
    /\ server' = [server EXCEPT ![p] = IdleServer] /\ ended' = ended \cup {k}
    /\ UNCHANGED <<keyNow, managed, overlapUntil, revoked>>

\* The transaction fails and is rolled back.
Undone_not(k) == active \ {k}
Undone(k) == active

rotateFails(p) ==
    /\ server[p].at = "found"
    /\ active' = Undone(server[p].key)
    /\ server' = [server EXCEPT ![p] = IdleServer]
    /\ UNCHANGED <<keyNow, keyCount, managed, overlapUntil, replacementOf, revoked, ended>>

---------------------------------------------------------------------------
(* The rotation with an overlap: the list, the successor, the old key's    *)
(* deadline, the successor's row.  Nothing asks whether the key is active. *)

rotateManaged(p, k) ==
    /\ server[p] = IdleServer /\ k \in managed
    /\ generateApiKey(k) /\ active' = Listed \cup {keyCount + 1}
    /\ \E overlap \in 0..Overlap :
         server' = [server EXCEPT ![p] = [at |-> "minted", key |-> keyCount + 1,
                                          until |-> keyNow + overlap]]
    /\ UNCHANGED <<keyNow, managed, overlapUntil, revoked, ended>>

\* A rotation that listed a key before its deadline may still put that off.
PutOffBy(servers) ==
    {replacementOf[server[p].key] : p \in {q \in servers : server[q].at = "minted"}}

setDeadline(p) ==
    LET k == replacementOf[server[p].key] IN
    /\ server[p].at = "minted"
    /\ overlapUntil' = [overlapUntil EXCEPT ![k] = server[p].until]
    /\ server' = [server EXCEPT ![p].at = "dated"]
    /\ ended' = IF server[p].until <= keyNow /\ k \notin PutOffBy(KeyServers \ {p})
                THEN ended \cup {k} ELSE ended
    /\ UNCHANGED <<keyNow, keyCount, active, managed, replacementOf, revoked>>

registerSuccessor(p) ==
    /\ server[p].at = "dated"
    /\ managed' = managed \cup {server[p].key}
    /\ server' = [server EXCEPT ![p] = IdleServer]
    /\ UNCHANGED <<keyNow, keyCount, active, overlapUntil, replacementOf, revoked, ended>>

ServerDies(p) ==
    /\ server[p] # IdleServer /\ server' = [server EXCEPT ![p] = IdleServer]
    /\ UNCHANGED <<keyNow, keyCount, active, managed, overlapUntil, replacementOf, revoked, ended>>

KeyClock ==
    /\ keyNow < KeyTime /\ keyNow' = keyNow + 1
    /\ ended' = ended \cup {k \in ApiKeys \ PutOffBy(KeyServers) : overlapUntil[k] <= keyNow'}
    /\ UNCHANGED <<keyCount, active, managed, overlapUntil, replacementOf, server, revoked>>

ApiKeysNext ==
    \/ \E p \in KeyServers :
         \/ createUnmanaged(p) \/ createManaged(p) \/ rotateCommits(p) \/ rotateFails(p)
         \/ setDeadline(p) \/ registerSuccessor(p) \/ ServerDies(p)
         \/ \E k \in ApiKeys : rotateChecks(p, k) \/ rotateManaged(p, k)
    \/ \E k \in ApiKeys : validateApiKey(k) \/ revokeApiKey(k)
    \/ KeyClock

ApiKeysSpec == ApiKeysInit /\ [][ApiKeysNext]_keyVars

---------------------------------------------------------------------------
ApiKeysTypeOK ==
    /\ keyCount \in 0..MaxApiKeys /\ active \subseteq 1..keyCount /\ managed \subseteq 1..keyCount
    /\ \A k \in ApiKeys : overlapUntil[k] \in 0..NoOverlap /\ replacementOf[k] \in 0..keyCount
    /\ \A p \in KeyServers : server[p].key \in 0..keyCount

\* A key that was revoked, rotated out or past its deadline never passes again, whatever
\* rotations of it follow, by whichever administration and process
\* (auth/api-tokens.mjs:211-220, 247-253).
EndedKeysStayOut == \A k \in ended : ~Passes(k)

\* A rotation, cut short or not, leaves its caller a key: one that no longer passes
\* without anybody having revoked it has a successor (auth/api-tokens.mjs:257-259).
RotationWhole ==
    \A k \in 1..keyCount \ revoked : ~Passes(k) => \E n \in 1..keyCount : replacementOf[n] = k
=============================================================================

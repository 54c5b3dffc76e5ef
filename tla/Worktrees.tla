------------------------------ MODULE Worktrees -----------------------------
(***************************************************************************)
(* The git worktrees agents work in (worktree.mjs), as the launcher makes  *)
(* and removes them (launcher.mjs:261-262, 319-321), the boot of the       *)
(* daemon, which removes them all and brings the founder's own tree back   *)
(* to main (scheduler.mjs:497-511, boot-guard.mjs), and the verifier's     *)
(* merge, which deletes branches (verify-loop.mjs:186).                    *)
(*                                                                         *)
(* A branch counts the commits made on it.  git's own rules are taken for  *)
(* granted: no branch is checked out twice or deleted while it is checked  *)
(* out, no branch is created that exists, and its status answers.          *)
(***************************************************************************)
EXTENDS Integers, FiniteSets

CONSTANTS
    Runs,         \* bound: the runs, each a session of its own
    TaskOf,       \* the task of each
    Main,         \* the main branch
    MaxCommits,   \* bound: commits on a branch
    MaxBoots      \* bound: boots after the first

ASSUME WorktreesAssumption == MaxCommits \in Nat

NoBranch == -1

\* A branch is named for the task and the whole session.
branchName_truncated(r) == <<TaskOf[r], CHOOSE x \in Runs : TaskOf[x] = TaskOf[r]>>
branchName(r) == <<TaskOf[r], r>>

Branches == {<<TaskOf[r], r>> : r \in Runs}

VARIABLES
    local,        \* the branches of the repository, which every tree shares
    pushed,       \* origin/<branch>, as the repository last saw it
    tree,         \* a branch's directory: none, a worktree, or left by a failed removal
    run,          \* waiting, awaited by the daemon, loose (nobody waits for it), over
    daemonUp, boots,
    head,         \* what the primary tree is on
    changed,      \* its uncommitted changes: generated board files, others
    workOn,       \* history: the branch the others were made on
    made,         \* history: commits made on a branch
    refused       \* history: runs that got no tree although git itself worked

treeVars == <<local, pushed, tree, run, daemonUp, boots, head, changed, workOn, made, refused>>

WorktreesInit ==
    /\ local = [b \in Branches |-> NoBranch] /\ pushed = [b \in Branches |-> NoBranch]
    /\ tree = [b \in Branches |-> "none"]
    /\ run = [r \in Runs |-> "waiting"]
    /\ daemonUp = TRUE /\ boots = 0
    /\ head = Main /\ changed = {} /\ workOn = Main
    /\ made = [b \in Branches |-> 0] /\ refused = {}

Primary == <<head, changed, workOn>>
Daemon == <<daemonUp, boots>>

---------------------------------------------------------------------------
OnOrigin_assumed(b) == TRUE
OnOrigin(b) == pushed[b] # NoBranch

\* The directory goes, unless a file in it is locked, and with it git's record of it;
\* the branch goes only if origin has one of that name.
removeWorktree(b, branches, trees, locked) ==
    [trees |-> [trees EXCEPT ![b] = IF @ # "none" /\ locked THEN "left" ELSE "none"],
     branches |-> IF OnOrigin(b) /\ head # b THEN [branches EXCEPT ![b] = NoBranch]
                                           ELSE branches]

\* What bears the name is removed first; a failure to add is cleared away as well.
createWorktree(r) ==
    /\ daemonUp /\ run[r] = "waiting"
    /\ \E locked, gitFails \in BOOLEAN :
         LET b == branchName(r)
             cleared == removeWorktree(b, local, tree, locked)
             blocked == cleared.branches[b] # NoBranch \/ cleared.trees[b] # "none"
             again == removeWorktree(b, cleared.branches, cleared.trees, locked)
         IN \/ /\ ~blocked /\ ~gitFails
               /\ local' = [cleared.branches EXCEPT ![b] = 0]
               /\ tree' = [cleared.trees EXCEPT ![b] = "there"]
               /\ run' = [run EXCEPT ![r] = "awaited"]
               /\ UNCHANGED refused
            \/ /\ blocked \/ gitFails
               /\ local' = again.branches /\ tree' = again.trees
               /\ run' = [run EXCEPT ![r] = "over"]
               /\ refused' = IF gitFails THEN refused ELSE refused \cup {r}
    /\ UNCHANGED <<pushed, made, Primary, Daemon>>

Works(r) == run[r] \in {"awaited", "loose"} /\ tree[branchName(r)] = "there"

AgentCommits(r) ==
    LET b == branchName(r) IN
    /\ Works(r) /\ local[b] < MaxCommits
    /\ local' = [local EXCEPT ![b] = @ + 1] /\ made' = [made EXCEPT ![b] = @ + 1]
    /\ UNCHANGED <<pushed, tree, run, refused, Primary, Daemon>>

AgentPushes(r) ==
    LET b == branchName(r) IN
    /\ Works(r) /\ local[b] > 0
    /\ pushed' = [pushed EXCEPT ![b] = local[b]]
    /\ UNCHANGED <<local, tree, run, made, refused, Primary, Daemon>>

\* The process ends, or its time does and the kill reaches it or not: the launcher
\* removes its tree in any case.
RunEnds(r) ==
    /\ run[r] = "awaited" /\ daemonUp
    /\ run' \in {[run EXCEPT ![r] = "over"], [run EXCEPT ![r] = "loose"]}
    /\ \E locked \in BOOLEAN :
         LET removed == removeWorktree(branchName(r), local, tree, locked)
         IN local' = removed.branches /\ tree' = removed.trees
    /\ UNCHANGED <<pushed, made, refused, Primary, Daemon>>

LooseEnds(r) ==
    /\ run[r] = "loose" /\ run' = [run EXCEPT ![r] = "over"]
    /\ UNCHANGED <<local, pushed, tree, made, refused, Primary, Daemon>>

---------------------------------------------------------------------------
\* A crash, or a shutdown: the agents are not told.
DaemonStops ==
    /\ daemonUp /\ boots < MaxBoots
    /\ daemonUp' = FALSE
    /\ run' = [r \in Runs |-> IF run[r] = "awaited" THEN "loose" ELSE run[r]]
    /\ UNCHANGED <<local, pushed, tree, boots, made, refused, Primary>>

\* Changes to other than the generated files are left where they are.
MayRestore_always == TRUE
MayRestore == changed \subseteq {"board"}

restorePrimaryTreeToMain ==
    /\ UNCHANGED workOn
    /\ \/ /\ head # Main /\ MayRestore
          /\ changed' = changed \ {"board"}
          /\ head' \in {Main, head}          \* git may refuse
       \/ /\ head = Main \/ ~MayRestore
          /\ UNCHANGED <<head, changed>>

\* Every directory under the root goes, whoever works in it; no branch does.
pruneAllWorktrees ==
    /\ \E locked \in SUBSET {b \in Branches : tree[b] # "none"} :
         tree' = [b \in Branches |-> IF b \in locked THEN "left" ELSE "none"]
    /\ UNCHANGED local

Boot ==
    /\ ~daemonUp
    /\ daemonUp' = TRUE /\ boots' = boots + 1
    /\ restorePrimaryTreeToMain
    /\ pruneAllWorktrees
    /\ UNCHANGED <<pushed, run, made, refused>>

\* gh squashes what origin has and deletes the branch, the local one too where no
\* worktree holds it; it leaves the branch first if the primary tree is on it.
mergePr(b) ==
    /\ OnOrigin(b) /\ daemonUp
    /\ head = b => changed = {}
    /\ head' = IF head = b THEN Main ELSE head
    /\ local' = IF tree[b] = "there" THEN local ELSE [local EXCEPT ![b] = NoBranch]
    /\ UNCHANGED <<pushed, tree, run, made, refused, changed, workOn, Daemon>>

---------------------------------------------------------------------------
\* The daemon renders the board into the primary tree.
RenderBoard ==
    /\ daemonUp /\ "board" \notin changed /\ changed' = changed \cup {"board"}
    /\ UNCHANGED <<local, pushed, tree, run, made, refused, head, workOn, Daemon>>

\* Somebody, an agent's lingering process for one, leaves the tree on a branch.
StrayCheckout(b) ==
    /\ local[b] # NoBranch /\ tree[b] # "there" /\ head # b /\ "other" \notin changed
    /\ head' = b
    /\ UNCHANGED <<local, pushed, tree, run, made, refused, changed, workOn, Daemon>>

FounderEdits ==
    /\ "other" \notin changed
    /\ changed' = changed \cup {"other"} /\ workOn' = head
    /\ UNCHANGED <<local, pushed, tree, run, made, refused, head, Daemon>>

\* Committed, stashed or undone.
FounderPutsAway ==
    /\ "other" \in changed /\ changed' = changed \ {"other"}
    /\ UNCHANGED <<local, pushed, tree, run, made, refused, head, workOn, Daemon>>

WorktreesNext ==
    \/ \E r \in Runs : createWorktree(r) \/ AgentCommits(r) \/ AgentPushes(r)
                       \/ RunEnds(r) \/ LooseEnds(r)
    \/ \E b \in Branches : mergePr(b) \/ StrayCheckout(b)
    \/ DaemonStops \/ Boot \/ RenderBoard \/ FounderEdits \/ FounderPutsAway

WorktreesSpec == WorktreesInit /\ [][WorktreesNext]_treeVars

---------------------------------------------------------------------------
WorktreesTypeOK ==
    /\ \A b \in Branches : /\ local[b] \in NoBranch..MaxCommits
                           /\ pushed[b] \in NoBranch..MaxCommits
                           /\ tree[b] \in {"none", "there", "left"}
    /\ head \in Branches \cup {Main} /\ changed \subseteq {"board", "other"}

\* Work that was never pushed is never destroyed, by whichever removal, merge, crash or
\* boot (worktree.mjs:160-163).  Once any of it is pushed the code asks no more: commits
\* made after the push go with the branch.
UnpushedKept ==
    \A b \in Branches : pushed[b] = NoBranch /\ made[b] > 0 => local[b] = made[b]

\* An agent the daemon waits for has a tree and a branch that no other agent works on,
\* and no run is refused a tree for what another left behind (worktree.mjs:9-13, 40-53).
TreesApart ==
    /\ \A r \in Runs : run[r] = "awaited" =>
         /\ Works(r) /\ local[branchName(r)] # NoBranch
         /\ \A other \in Runs \ {r} : Works(other) => branchName(other) # branchName(r)
    /\ refused = {}

\* What the founder has not committed stays on the branch it was made on, whatever
\* strands the primary tree and however often the daemon boots (boot-guard.mjs:18-21).
FounderWorkStays == "other" \in changed => head = workOn
=============================================================================

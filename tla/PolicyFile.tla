--------------------------- MODULE PolicyFile ----------------------------
(***************************************************************************)
(* policy.yaml and those who write it, each in a process of its own: the   *)
(* dashboard's save (dashboard/server.mjs, policy-write.mjs), the cloud    *)
(* agent's push through the same writer, the restoring of a backup         *)
(* (policy-backups.mjs) and the provider wizard (provider-wizard.mjs); and *)
(* the fleet's watcher, which keeps a hot-reloadable snapshot              *)
(* (config-hot-reload.mjs).  A write empties the file and then fills it:   *)
(* two steps to the other processes, and a file that is empty or cannot be *)
(* read is a policy without settings to all of them.                       *)
(***************************************************************************)
EXTENDS Integers, FiniteSets

CONSTANTS
    Processes, \* processes that write
    Limits,    \* what work.max_parallel and work.wip_per_agent may be set to
    MaxOps,    \* bound: writes ever begun
    MaxDeadWriters \* bound: processes that die in the middle of one

\* A setting that is never made has the default, one, and no process is nobody.
ASSUME PolicyAssumption ==
    /\ Limits \subseteq Nat /\ 1 \in Limits /\ MaxOps \in Nat
    /\ "nobody" \notin Processes

Levers == {"max_parallel", "wip_per_agent", "providers"}
Unset == 0
Contents == [Levers -> Limits \cup {Unset}]
Empty == [l \in Levers |-> Unset]
NoOne == "nobody"

VARIABLES
    policyText,  \* the file
    mtime,       \* how often it was written to
    policyLock,  \* policy.yaml.lock: who made it, or NoOne
    backups,     \* policy.backup.*.yaml
    writer,      \* each process: what it is at
    changeEvent, \* the watcher has an event whose debounce is not over
    snapshot,    \* the watcher's last-known-good settings
    ops, deadWriters,
    standing,    \* history: settings saved since a write that takes no lock
    raced        \* history: a write was validated against another text, or not at all

policyVars == <<policyText, mtime, policyLock, backups, writer, changeEvent, snapshot, ops,
                deadWriters, standing, raced>>

\* validatePolicy's rule between two settings.
Coherent(text) ==
    text["wip_per_agent"] # Unset /\ text["max_parallel"] # Unset =>
        text["wip_per_agent"] <= text["max_parallel"]

Idling == [pc |-> "idle", kind |-> "none", lever |-> "providers", text |-> Empty, seen |-> 0]

PolicyInit ==
    /\ policyText = [Empty EXCEPT !["max_parallel"] = 1, !["wip_per_agent"] = 1]
    /\ mtime = 0 /\ policyLock = NoOne /\ backups = {}
    /\ writer = [p \in Processes |-> Idling]
    /\ changeEvent = FALSE /\ snapshot = policyText
    /\ ops = 0 /\ deadWriters = 0
    /\ standing = Empty /\ raced = FALSE

---------------------------------------------------------------------------
(* Beginning a write.                                                      *)

Begin(p, state) ==
    /\ writer[p].pc = "idle" /\ ops < MaxOps /\ ops' = ops + 1
    /\ writer' = [writer EXCEPT ![p] = state]
    /\ UNCHANGED <<policyText, mtime, policyLock, backups, changeEvent, snapshot, deadWriters,
                   standing, raced>>

Merged(lever, value) == [policyText EXCEPT ![lever] = value]

\* The would-be-merged policy is validated before the lock is asked for.
Accepted_unvalidated(lever, value) == TRUE
Accepted(lever, value) == Coherent(Merged(lever, value))

applyPolicyUpdates(p, lever, value) ==
    /\ Accepted(lever, value)
    /\ Begin(p, [pc |-> "locking", kind |-> "save", lever |-> lever,
                 text |-> Merged(lever, value), seen |-> mtime])

\* The agent's push is not validated.
pushUpdate(p, lever, value) ==
    Begin(p, [pc |-> "locking", kind |-> "push", lever |-> lever,
              text |-> Merged(lever, value), seen |-> mtime])

restoreBackup(p, backup) ==
    /\ backup \in backups /\ Coherent(backup)
    /\ Begin(p, [Idling EXCEPT !.pc = "copying", !.kind = "restore", !.text = backup])

\* readPolicyState: the time stamp, then the text, with a provider added to it.
runProviderWizard(p) ==
    LET provider == CHOOSE v \in Limits : TRUE IN
    Begin(p, [pc |-> "checking", kind |-> "wizard", lever |-> "providers",
              text |-> Merged("providers", provider), seen |-> mtime])

---------------------------------------------------------------------------
(* Its steps.                                                              *)

Locking(p) == writer[p].kind \in {"save", "push"}

Step(p, pc) == writer' = [writer EXCEPT ![p].pc = pc]

FileKept == UNCHANGED <<policyText, mtime, changeEvent, snapshot, ops, deadWriters, standing>>

Lockable_always == TRUE
Lockable == policyLock = NoOne

acquireLock(p) ==
    /\ writer[p].pc = "locking" /\ Lockable
    /\ policyLock' = p /\ Step(p, "copying")
    /\ UNCHANGED <<backups, raced>> /\ FileKept

\* Two seconds are over: the save is refused.  A lock left by a dead process is
\* never broken, and every later save ends here.
LockTimesOut(p) ==
    /\ writer[p].pc = "locking" /\ policyLock # NoOne
    /\ writer' = [writer EXCEPT ![p] = Idling]
    /\ UNCHANGED <<policyLock, backups, raced>> /\ FileKept

\* writePolicyWithBackup gives way to whoever has written since.
WizardChecks(p) ==
    /\ writer[p].pc = "checking"
    /\ writer' = IF mtime > writer[p].seen THEN [writer EXCEPT ![p] = Idling]
                 ELSE [writer EXCEPT ![p].pc = "copying"]
    /\ UNCHANGED <<policyLock, backups, raced>> /\ FileKept

backupBeforeWrite(p) ==
    /\ writer[p].pc = "copying"
    /\ backups' = backups \cup {policyText}
    /\ Step(p, IF Locking(p) THEN "reading" ELSE "emptying")
    /\ UNCHANGED <<policyLock, raced>> /\ FileKept

\* writePolicy reads the text it changes under its lock.
ReadText(p) ==
    /\ writer[p].pc = "reading"
    /\ LET w == writer[p] IN
         writer' = [writer EXCEPT ![p] = [w EXCEPT !.pc = "emptying",
                                                   !.text = Merged(w.lever, w.text[w.lever])]]
    /\ raced' = (raced \/ writer[p].kind = "push" \/ mtime # writer[p].seen)
    /\ UNCHANGED <<policyLock, backups>> /\ FileKept

FileWritten(p, text) ==
    /\ policyText' = text /\ mtime' = mtime + 1 /\ changeEvent' = TRUE
    /\ UNCHANGED <<snapshot, ops, backups, raced>>

EmptyFile(p) ==
    /\ writer[p].pc = "emptying"
    /\ FileWritten(p, Empty) /\ Step(p, "filling")
    /\ standing' = IF Locking(p) THEN standing ELSE Empty
    /\ UNCHANGED <<policyLock, deadWriters>>

\* The write is done, the lock released, the caller told so.
FillFile(p) ==
    /\ writer[p].pc = "filling"
    /\ FileWritten(p, writer[p].text)
    /\ writer' = [writer EXCEPT ![p] = Idling]
    /\ policyLock' = IF Locking(p) THEN NoOne ELSE policyLock
    /\ standing' = IF Locking(p)
                   THEN [standing EXCEPT ![writer[p].lever] = writer[p].text[writer[p].lever]]
                   ELSE Empty
    /\ UNCHANGED deadWriters

WriterDies(p) ==
    /\ writer[p].pc # "idle"
    /\ deadWriters < MaxDeadWriters /\ deadWriters' = deadWriters + 1
    /\ writer' = [writer EXCEPT ![p] = Idling]
    /\ standing' = IF writer[p].pc = "filling" THEN Empty ELSE standing
    /\ UNCHANGED <<policyText, mtime, policyLock, backups, changeEvent, snapshot, ops, raced>>

---------------------------------------------------------------------------
(* The watcher.                                                            *)

\* The debounce is over: what the file says now replaces the snapshot if it is
\* valid, and an empty file is.
ReloadPolicy_unvalidated ==
    /\ changeEvent /\ changeEvent' = FALSE
    /\ snapshot' = policyText
    /\ UNCHANGED <<policyText, mtime, policyLock, backups, writer, ops, deadWriters, standing, raced>>
ReloadPolicy ==
    /\ changeEvent /\ changeEvent' = FALSE
    /\ snapshot' = IF Coherent(policyText) THEN policyText ELSE snapshot
    /\ UNCHANGED <<policyText, mtime, policyLock, backups, writer, ops, deadWriters, standing, raced>>

PolicyNext ==
    \/ \E p \in Processes :
          \/ \E lever \in Levers \ {"providers"}, value \in Limits :
                applyPolicyUpdates(p, lever, value) \/ pushUpdate(p, lever, value)
          \/ \E backup \in backups : restoreBackup(p, backup)
          \/ runProviderWizard(p)
          \/ acquireLock(p) \/ LockTimesOut(p) \/ WizardChecks(p)
          \/ backupBeforeWrite(p) \/ ReadText(p) \/ EmptyFile(p) \/ FillFile(p)
          \/ WriterDies(p)
    \/ ReloadPolicy

PolicySpec == PolicyInit /\ [][PolicyNext]_policyVars

---------------------------------------------------------------------------
PolicyTypeOK ==
    /\ policyText \in Contents /\ snapshot \in Contents /\ backups \subseteq Contents
    /\ standing \in Contents
    /\ mtime \in 0..2 * MaxOps /\ ops \in 0..MaxOps
    /\ policyLock \in Processes \cup {NoOne}
    /\ \A p \in Processes :
          /\ writer[p].pc \in {"idle", "locking", "checking", "copying", "reading",
                               "emptying", "filling"}
          /\ writer[p].kind \in {"none", "save", "push", "restore", "wizard"}
          /\ writer[p].text \in Contents

\* Concurrent saves do not clobber each other (policy-write.mjs:9-17): a setting
\* whose save was acknowledged stays until it is saved again, or a restore or the
\* wizard, neither of which takes the lock, writes the file, or a process dies
\* between emptying and filling it.
EditsKept ==
    (\A p \in Processes : writer[p].pc # "filling") =>
        \A l \in Levers : standing[l] # Unset => policyText[l] = standing[l]

\* An incoherent policy reaches the file only through a write that was validated
\* against a text that is no longer there, or through the agent, which validates
\* nothing (dashboard/server.mjs:331-337); and whatever reaches it, a running
\* project is never given one (config-hot-reload.mjs:15-20).
NeverMisconfigured ==
    /\ ~Coherent(policyText) => raced
    /\ Coherent(snapshot)

\* With no event outstanding the snapshot is the file's own, if that is valid: a
\* reading in the middle of a write is followed by another.
SnapshotCurrent == ~changeEvent /\ Coherent(policyText) => snapshot = policyText
=============================================================================

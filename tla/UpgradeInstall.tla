--------------------------- MODULE UpgradeInstall ---------------------------
(***************************************************************************)
(* What an upgrade does to the install root: UpgradeCoordinator::stage and *)
(* apply::stage_new_version put a version on disk, flip the `current`      *)
(* symlink, collect old versions and write state.json; run_boot_watchdog   *)
(* counts the boots of a version that has not proved healthy and reverts   *)
(* the symlink; record_healthy_beat and finalize_if_stable promote it.     *)
(*                                                                         *)
(* Every file operation another task or a crash can come between is a step *)
(* of its own.  The flock taken inside load and save changes nothing that  *)
(* can be observed: save renames a new file over the locked one, and a     *)
(* reader that waited for the lock still reads the file it had opened.     *)
(*                                                                         *)
(* Versions are numbered in the order of their manifest sequence, so a     *)
(* version is its own sequence number.  The `previous` symlink is left out *)
(* (nothing reads it), and so are channel, variant and arch.               *)
(*                                                                         *)
(* A definition directly above another and named after it with a suffix is *)
(* a plausible bug in the one below it; no specification uses it.          *)
(***************************************************************************)
EXTENDS Integers, Sequences, SequencesExt

CONSTANTS
    MaxVersion,   \* bound: releases that exist
    Bad,          \* releases whose binary never reaches the manager
    Hangs,        \* those of them that stay up all the same
    Keep,         \* versions gc_versions keeps besides the new one
    MaxBoots,     \* max_boot_attempts
    MultiThread,  \* the vendor's runtime is multi-threaded
    StageInDrain, \* a second upgrade command may come while the process
                  \* drains before its exit
    ShortWindow,  \* boot_health_window_secs is so short that a beat of the
                  \* process that staged the version can still count for it
    SamePid,      \* every process of the sidecar has the same id, as in a
                  \* container where it is the first one
    MaxCrashes    \* bound: process deaths at an arbitrary step

Versions == 1..MaxVersion
Installed == 1          \* the version the installer put there

ASSUME UpgradeAssumption ==
    /\ MaxVersion \in Nat \ {0}
    /\ Bad \subseteq Versions \ {Installed} /\ Hangs \subseteq Bad
    /\ Keep \in Nat \ {0} /\ MaxBoots \in Nat /\ MaxCrashes \in Nat
    /\ MultiThread \in BOOLEAN /\ ShortWindow \in BOOLEAN
    /\ StageInDrain \in BOOLEAN /\ SamePid \in BOOLEAN

VARIABLES
    \* on disk
    state,      \* state.json: NoState, Corrupt or an install state
    current,    \* the version `current` links to
    dirs,       \* versions/<v> present, oldest modification first
    tmp,        \* state.json.tmp.<pid> of this process exists
    \* in the process
    proc,       \* where the process is in its life
    exe,        \* the version it runs
    boot,       \* run_boot_watchdog's copy of the state
    spc, sver, sbuf,    \* stage: where it is, for what version, what it saves
    fpc, fbuf,          \* finalize_if_stable, and its update's copy
    bpc, bbuf,          \* record_healthy_beat, and its update's copy
    \* bookkeeping
    crashes

disk == <<state, current, dirs, tmp>>
tasks == <<spc, sver, sbuf, fpc, fbuf, bpc, bbuf>>
vars == <<disk, proc, exe, boot, tasks, crashes>>

\* beat is the version of the process that stamped last_health_at, 0 for None.
MostBoots == MaxBoots + MaxCrashes + 1  \* bound: where boot_attempts saturates

States ==
    [cur : Versions, prev : Versions,
     status : {"stable", "pending_health", "rolled_back"},
     boots : 0..MostBoots,
     beat : {0} \cup Versions, seq : Versions]

Unreadable(why) ==
    [cur |-> 0, prev |-> 0, status |-> why, boots |-> 0, beat |-> 0, seq |-> 0]

NoState == Unreadable("missing")
Corrupt == Unreadable("corrupt")
Nothing == Unreadable("none")       \* a buffer not in use

Readable(s) == s \in States

Init ==
    /\ state = NoState /\ current = Installed /\ dirs = <<Installed>>
    /\ tmp = FALSE
    /\ proc = "boot" /\ exe = Installed /\ boot = Nothing
    /\ spc = "idle" /\ sver = 0 /\ sbuf = Nothing
    /\ fpc = "idle" /\ fbuf = Nothing
    /\ bpc = "idle" /\ bbuf = Nothing
    /\ crashes = 0

OnDisk(v) == \E i \in DOMAIN dirs : dirs[i] = v

-----------------------------------------------------------------------------
(* save: create the temporary file, which fails if it exists, open (and so  *)
(* create) state.json to lock it, then rename over it.                      *)

SaveBegin ==
    /\ ~tmp /\ tmp' = TRUE
    /\ state' = IF state = NoState THEN Corrupt ELSE state
SaveCommit(s) == tmp' = FALSE /\ state' = s

Running == proc \in {"up", "exiting"}

\* On a current-thread runtime a task keeps the thread until it awaits, and
\* none of stage's file work, finalize_if_stable or record_healthy_beat does.
StageInFiles == spc \notin {"idle", "fetched"}
Alone(t) ==
    \/ MultiThread
    \/ /\ t = "stage" \/ ~StageInFiles
       /\ t = "finalize" \/ fpc = "idle"
       /\ t = "beat" \/ bpc = "idle"

-----------------------------------------------------------------------------
(* UpgradeCoordinator::stage.                                               *)

\* try_lock, the policy checks and the manifest, whose sequence must be above
\* the last installed one if that can be read.  A command only reaches a
\* binary that can reach the manager.
SequenceAcceptedAlways(v) == TRUE
SequenceAccepted(v) == Readable(state) => v > state.seq

StageCheck(v) ==
    /\ proc = "up" \/ (StageInDrain /\ proc = "exiting")
    /\ spc = "idle" /\ Alone("stage")
    /\ exe \notin Bad
    /\ v # exe
    /\ SequenceAccepted(v)
    /\ spc' = "fetched" /\ sver' = v
    /\ UNCHANGED <<disk, proc, exe, boot, sbuf, fpc, fbuf, bpc, bbuf, crashes>>

\* The tarball cannot be fetched or fails its checksum; or manual_only is set,
\* and stage returns, reporting the version as staged, with nothing written.
StageStops ==
    /\ Running /\ spc = "fetched" /\ Alone("stage")
    /\ spc' = "idle" /\ sver' = 0
    /\ UNCHANGED <<disk, proc, exe, boot, sbuf, fpc, fbuf, bpc, bbuf, crashes>>

PlaceOf(v) == CHOOSE i \in DOMAIN dirs : dirs[i] = v
Others(v) == IF OnDisk(v) THEN RemoveAt(dirs, PlaceOf(v)) ELSE dirs

\* An old copy is removed, unless it is the linked one, which is kept as it
\* is; then the tarball is extracted aside and renamed into place, or the
\* extraction fails.
StageExtractLinkedFirst ==
    /\ Running /\ spc = "fetched" /\ Alone("stage")
    /\ current' = sver
    /\ \/ dirs' = Append(Others(sver), sver) /\ spc' = "extracted"
          /\ UNCHANGED sver
       \/ dirs' = Others(sver) /\ spc' = "idle" /\ sver' = 0
    /\ UNCHANGED <<state, tmp, proc, exe, boot, sbuf, fpc, fbuf, bpc, bbuf,
                   crashes>>

StageExtract ==
    /\ Running /\ spc = "fetched" /\ Alone("stage")
    /\ \/ /\ current = sver /\ OnDisk(sver)
          /\ spc' = "applied"
          /\ UNCHANGED <<dirs, sver>>
       \/ /\ ~(current = sver /\ OnDisk(sver))
          /\ \/ dirs' = Append(Others(sver), sver) /\ spc' = "extracted"
                /\ UNCHANGED sver
             \/ dirs' = Others(sver) /\ spc' = "idle" /\ sver' = 0
    /\ UNCHANGED <<state, current, tmp, proc, exe, boot, sbuf, fpc, fbuf, bpc,
                   bbuf, crashes>>

\* swap_current_symlink
StageLink ==
    /\ Running /\ spc = "extracted"
    /\ current' = sver
    /\ spc' = "linked"
    /\ UNCHANGED <<state, dirs, tmp, proc, exe, boot, sver, sbuf, fpc, fbuf,
                   bpc, bbuf, crashes>>

\* gc_versions keeps the Keep most recently modified versions besides v.
KeptAfterGcOneFewer(v) ==
    LET old == Others(v)
        n == Len(old)
    IN  SubSeq(old, IF n >= Keep THEN n - Keep + 2 ELSE 1, n) \o <<v>>

KeptAfterGc(v) ==
    LET old == Others(v)
        n == Len(old)
    IN  SubSeq(old, IF n > Keep THEN n - Keep + 1 ELSE 1, n) \o <<v>>

StageGc ==
    /\ Running /\ spc = "linked"
    /\ dirs' = KeptAfterGc(sver)
    /\ spc' = "applied"
    /\ UNCHANGED <<state, current, tmp, proc, exe, boot, sver, sbuf, fpc,
                   fbuf, bpc, bbuf, crashes>>

\* The state to save: the version is pending, what state.json names as current
\* (else the running version) is what a rollback returns to.
NewStateOfNothing(v) ==
    [cur |-> v, prev |-> state.cur,
     status |-> "pending_health", boots |-> 0, beat |-> 0, seq |-> v]

NewState(v) ==
    [cur |-> v, prev |-> IF Readable(state) THEN state.cur ELSE exe,
     status |-> "pending_health", boots |-> 0, beat |-> 0, seq |-> v]

StageCompose ==
    /\ Running /\ spc = "applied"
    /\ sbuf' = NewState(sver)
    /\ spc' = "composed"
    /\ UNCHANGED <<disk, proc, exe, boot, sver, fpc, fbuf, bpc, bbuf, crashes>>

\* The temporary file cannot be created: stage returns an error, with the
\* symlink flipped.
StageSave ==
    /\ Running /\ spc = "composed"
    /\ \/ SaveBegin /\ spc' = "saving" /\ UNCHANGED <<sver, sbuf>>
       \/ /\ tmp /\ UNCHANGED <<tmp, state>>
          /\ spc' = "idle" /\ sver' = 0 /\ sbuf' = Nothing
    /\ UNCHANGED <<current, dirs, proc, exe, boot, fpc, fbuf, bpc, bbuf,
                   crashes>>

\* The stage succeeds; the vendor schedules the exit, so the other tasks go on
\* for a while ("exiting").
StageCommit ==
    /\ Running /\ spc = "saving"
    /\ SaveCommit(sbuf)
    /\ spc' = "idle" /\ sver' = 0 /\ sbuf' = Nothing
    /\ proc' = "exiting"
    /\ UNCHANGED <<current, dirs, exe, boot, fpc, fbuf, bpc, bbuf, crashes>>

-----------------------------------------------------------------------------
(* watchdog.rs while the process runs.                                      *)

\* A beat counts if it is at most 60 s old when boot_health_window_secs have
\* passed since staged_at.  The default window, 120 s, outlasts the drain of
\* the process that staged the version plus those 60 s: by then that process
\* is gone and its beats are stale.
BeatCountsUnseen(s) == TRUE
BeatCounts(s) == s.beat # 0 /\ (ShortWindow \/ (proc = "up" /\ s.beat = exe))

\* finalize_if_stable: look at the state...
FinalizeCheck ==
    /\ Running /\ fpc = "idle" /\ Alone("finalize")
    /\ Readable(state) /\ state.status = "pending_health"
    /\ BeatCounts(state)
    /\ fpc' = "checked"
    /\ UNCHANGED <<disk, proc, exe, boot, spc, sver, sbuf, fbuf, bpc, bbuf,
                   crashes>>

\* ...read it again to change its status (nothing in a running process makes
\* the file unreadable)...
FinalizeLoad ==
    /\ Running /\ fpc = "checked"
    /\ fbuf' = [state EXCEPT !.status = "stable"]
    /\ fpc' = "loaded"
    /\ UNCHANGED <<disk, proc, exe, boot, spc, sver, sbuf, bpc, bbuf, crashes>>

FinalizeSave ==
    /\ Running /\ fpc = "loaded"
    /\ \/ SaveBegin /\ fpc' = "saving" /\ UNCHANGED fbuf
       \/ tmp /\ UNCHANGED <<tmp, state>> /\ fpc' = "idle" /\ fbuf' = Nothing
    /\ UNCHANGED <<current, dirs, proc, exe, boot, spc, sver, sbuf, bpc, bbuf,
                   crashes>>

\* ...and write it back.
FinalizeCommit ==
    /\ Running /\ fpc = "saving"
    /\ SaveCommit(fbuf)
    /\ fpc' = "idle" /\ fbuf' = Nothing
    /\ UNCHANGED <<current, dirs, proc, exe, boot, spc, sver, sbuf, bpc, bbuf,
                   crashes>>

\* record_healthy_beat, from the vendor's auth callback or ticker.  It writes
\* the state back whatever its status.
BeatLoad ==
    /\ Running /\ bpc = "idle" /\ Alone("beat")
    /\ exe \notin Bad
    /\ Readable(state)
    /\ bbuf' = IF state.status = "pending_health"
                 THEN [state EXCEPT !.beat = exe] ELSE state
    /\ bpc' = "loaded"
    /\ UNCHANGED <<disk, proc, exe, boot, spc, sver, sbuf, fpc, fbuf, crashes>>

BeatSave ==
    /\ Running /\ bpc = "loaded"
    /\ \/ SaveBegin /\ bpc' = "saving" /\ UNCHANGED bbuf
       \/ tmp /\ UNCHANGED <<tmp, state>> /\ bpc' = "idle" /\ bbuf' = Nothing
    /\ UNCHANGED <<current, dirs, proc, exe, boot, spc, sver, sbuf, fpc, fbuf,
                   crashes>>

BeatCommit ==
    /\ Running /\ bpc = "saving"
    /\ SaveCommit(bbuf)
    /\ bpc' = "idle" /\ bbuf' = Nothing
    /\ UNCHANGED <<current, dirs, proc, exe, boot, spc, sver, sbuf, fpc, fbuf,
                   crashes>>

-----------------------------------------------------------------------------
(* The process: it ends, is respawned through `current`, and runs the boot  *)
(* watchdog before anything else.                                           *)

Dead ==
    /\ proc' = "down" /\ boot' = Nothing
    /\ spc' = "idle" /\ sver' = 0 /\ sbuf' = Nothing
    /\ fpc' = "idle" /\ fbuf' = Nothing
    /\ bpc' = "idle" /\ bbuf' = Nothing
    /\ UNCHANGED <<exe>>

\* The vendor exits once an upgrade is staged; a bad binary that does not hang
\* dies by itself.
Exit ==
    /\ \/ proc = "exiting" /\ Alone("exit")
       \/ Running /\ exe \in Bad \ Hangs
    /\ Dead
    /\ UNCHANGED <<disk, crashes>>

\* Power loss, a kill or a panic, at any step.
Crash ==
    /\ proc # "down" /\ crashes < MaxCrashes
    /\ crashes' = crashes + 1
    /\ Dead
    /\ UNCHANGED disk

\* A temporary file left behind is in the way of a process with the same pid.
Respawn ==
    /\ proc = "down" /\ OnDisk(current)
    /\ proc' = "boot" /\ exe' = current
    /\ tmp' = (tmp /\ SamePid)
    /\ UNCHANGED <<state, current, dirs, boot, tasks, crashes>>

\* No state.json, one that does not parse, or a stable version.  Assumed: the
\* vendor hands run_boot_watchdog the enabled configuration that stage went by.
\* With none, or a disabled one, it would continue whatever the state says.
BootContinue ==
    /\ proc = "boot"
    /\ ~Readable(state) \/ state.status = "stable"
    /\ proc' = "up"
    /\ UNCHANGED <<disk, exe, boot, tasks, crashes>>

\* The previous boot rolled back: report it and call the version stable.  An
\* error of the save is ignored.
BootAfterRollback ==
    /\ proc = "boot"
    /\ Readable(state) /\ state.status = "rolled_back"
    /\ \/ /\ SaveBegin
          /\ boot' = [state EXCEPT !.status = "stable", !.boots = 0]
          /\ proc' = "clearing"
       \/ tmp /\ proc' = "up" /\ UNCHANGED <<state, tmp, boot>>
    /\ UNCHANGED <<current, dirs, exe, tasks, crashes>>

BootCleared ==
    /\ proc = "clearing"
    /\ SaveCommit(boot)
    /\ proc' = "up" /\ boot' = Nothing
    /\ UNCHANGED <<current, dirs, exe, tasks, crashes>>

\* bump_boot_attempts rewrites the file in place: truncate...
BootBump ==
    /\ proc = "boot"
    /\ Readable(state) /\ state.status = "pending_health"
    /\ boot' = state
    /\ state' = Corrupt
    /\ proc' = "bumping"
    /\ UNCHANGED <<current, dirs, tmp, exe, tasks, crashes>>

BootsExhaustedNever(n) == FALSE
BootsExhausted(n) == n > MaxBoots

\* ...then write.
BootBumped ==
    /\ proc = "bumping"
    /\ state' = [boot EXCEPT !.boots = IF @ < MostBoots THEN @ + 1 ELSE @]
    /\ IF BootsExhausted(boot.boots + 1)
         THEN proc' = "reverting" /\ UNCHANGED boot
         ELSE proc' = "up" /\ boot' = Nothing
    /\ UNCHANGED <<current, dirs, tmp, exe, tasks, crashes>>

\* revert_to_previous.  Its failure is only logged.
BootRevert ==
    /\ proc = "reverting"
    /\ \/ /\ OnDisk(boot.prev)
          /\ current' = boot.prev
          /\ boot' = [boot EXCEPT !.cur = boot.prev, !.prev = boot.cur,
                                  !.status = "rolled_back"]
       \/ /\ ~OnDisk(boot.prev)
          /\ boot' = [boot EXCEPT !.status = "rolled_back"]
          /\ UNCHANGED current
    /\ proc' = "reverted"
    /\ UNCHANGED <<state, dirs, tmp, exe, tasks, crashes>>

BootRevertUnsaved ==
    /\ proc = "reverted"
    /\ Dead /\ UNCHANGED <<state, tmp, current, dirs, crashes>>

\* An error of the save is ignored here too: exit(1) with the symlink reverted
\* and the state still pending.
BootRevertSave ==
    /\ proc = "reverted"
    /\ \/ SaveBegin /\ proc' = "rolling" /\ UNCHANGED <<exe, boot, tasks>>
       \/ tmp /\ Dead /\ UNCHANGED <<state, tmp>>
    /\ UNCHANGED <<current, dirs, crashes>>

\* exit(1)
BootRolledBack ==
    /\ proc = "rolling"
    /\ SaveCommit(boot)
    /\ Dead
    /\ UNCHANGED <<current, dirs, crashes>>

-----------------------------------------------------------------------------

StageNext ==
    \/ \E v \in Versions : StageCheck(v)
    \/ StageStops \/ StageExtract \/ StageLink \/ StageGc
    \/ StageCompose \/ StageSave \/ StageCommit

PeriodicNext ==
    \/ FinalizeCheck \/ FinalizeLoad \/ FinalizeSave \/ FinalizeCommit
    \/ BeatLoad \/ BeatSave \/ BeatCommit

BootNext ==
    \/ Respawn \/ BootContinue \/ BootAfterRollback \/ BootCleared \/ BootBump
    \/ BootBumped \/ BootRevert \/ BootRevertSave \/ BootRolledBack

Next == StageNext \/ PeriodicNext \/ BootNext \/ Exit \/ Crash

\* systemd respawns the process (Restart=always), the boot watchdog runs to its
\* end, a staged upgrade is followed by the exit, however often a beat has the
\* thread when its timer fires, a bad binary that does not hang dies, and a
\* stage past its downloads is plain code that runs on.
Fairness ==
    /\ WF_vars(BootNext) /\ SF_vars(Exit)
    /\ WF_vars(StageLink \/ StageGc \/ StageCompose
                 \/ StageSave \/ StageCommit)
    /\ WF_vars(FinalizeLoad \/ FinalizeSave \/ FinalizeCommit)
    /\ WF_vars(BeatSave \/ BeatCommit)

Spec == Init /\ [][Next]_vars
FairSpec == Spec /\ Fairness

-----------------------------------------------------------------------------
(* Properties.                                                              *)

ProcStates == {"down", "boot", "clearing", "bumping", "reverting", "reverted",
               "rolling", "up", "exiting"}

TypeOK ==
    /\ state \in States \cup {NoState, Corrupt}
    /\ current \in Versions
    /\ dirs \in Seq(Versions)
    /\ tmp \in BOOLEAN
    /\ proc \in ProcStates /\ exe \in Versions
    /\ boot \in States \cup {Nothing}
    /\ spc \in {"idle", "fetched", "extracted", "linked", "applied",
                "composed", "saving"}
    /\ sver \in {0} \cup Versions /\ sbuf \in States \cup {Nothing}
    /\ fpc \in {"idle", "checked", "loaded", "saving"}
    /\ fbuf \in States \cup {Nothing}
    /\ bpc \in {"idle", "loaded", "saving"} /\ bbuf \in States \cup {Nothing}
    /\ crashes \in 0..MaxCrashes

\* `current` always links to a version that is there, whatever is being staged
\* or collected and wherever the process dies, so it can always be respawned.
LinkedVersionPresent == OnDisk(current)

\* With no crash, a pending version can be rolled back: the version state.json
\* names as previous is on disk, unless it has been pushed out of gc_versions'
\* reach by Keep newer ones besides the pending one.  (After a crash has lost
\* the sequence, the rollback target itself may be staged again, and its old
\* copy is removed first.)
PushedOut(v) == Len(dirs) > Keep /\ \A i \in DOMAIN dirs : dirs[i] > v

RollbackTargetKept ==
    /\ crashes = 0 /\ Readable(state) /\ state.status = "pending_health"
    => OnDisk(state.prev) \/ PushedOut(state.prev)

\* While it can be read, the installed sequence never falls: neither a rollback
\* nor a promotion nor a heartbeat brings an older one back.
SequenceNeverFalls ==
    [][Readable(state) /\ Readable(state') => state'.seq >= state.seq]_vars

SettledOnBad ==
    Readable(state) /\ state.status = "stable" /\ state.cur \in Bad

\* How the code comes to do that all the same: a revert that fails for want of
\* the previous version's directory is recorded like any other; a short window
\* counts a beat of another version's process, and so does a second stage cut
\* off in the drain, which leaves one version linked and another pending; and a
\* second stage in the drain has a version that never ran as its previous one.
Excused(s) ==
    \/ ~OnDisk(s.prev)
    \/ (ShortWindow \/ StageInDrain) /\ s.beat # 0
    \/ StageInDrain /\ s.prev > s.cur

\* On a current-thread runtime a version that cannot reach the manager is not
\* recorded as stable, neither promoted (finalize_if_stable) nor gone back to
\* (run_boot_watchdog), wherever the process dies, except in the three ways of
\* Excused.  (On a multi-thread one, a promotion that has looked at one version's
\* state may mark the next one's.)
NeverSettlesOnBad == ~MultiThread /\ SettledOnBad => Excused(state)

\* On a current-thread runtime a binary that dies at its boots does not stay
\* installed: after MaxBoots boots the watchdog links another one
\* (run_boot_watchdog), unless a crash comes between, or the binary is recorded
\* as stable in one of the ways of Excused: it then stays, and dies, for ever.
DyingVersionRolledBack ==
    ~MultiThread /\ current \in Bad \ Hangs /\ crashes = 0
      ~> \/ current \notin Bad \ Hangs \/ crashes > 0
         \/ SettledOnBad /\ Excused(state)

\* The gateway comes up again after every exit and every death of its process,
\* whatever is left on disk (run_boot_watchdog decides before anything else
\* whether this boot goes on).
ComesUp == proc = "down" ~> proc \in {"up", "exiting"}

-----------------------------------------------------------------------------
(* What the repository's texts say that the code does not do.               *)

\* state.rs on PendingHealth: "the next boot must produce a healthy manager beat
\* within the watchdog window or the boot watchdog rolls back".
BadVersionRolledBack == current \in Bad ~> current \notin Bad

\* state.rs on RolledBack: "Boot watchdog reverted the symlink. The
\* previous-version binary is now running."
RolledBackMeansReverted ==
    Readable(state) /\ state.status = "rolled_back" => current \notin Bad
=============================================================================

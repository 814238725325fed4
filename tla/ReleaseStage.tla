---------------------------- MODULE ReleaseStage ----------------------------
(***************************************************************************)
(* UpgradeCoordinator::stage from the command to the disk: the             *)
(* single-flight guard, the policy, the three downloads with their         *)
(* retries, the checks of ReleaseCheck in the order they are made, and the *)
(* events it sends on the way.  UpgradeInstall has the inside of its last  *)
(* steps, the file operations, and the watchdog.                           *)
(*                                                                         *)
(* Every await is the end of a step: another caller, the vendor's          *)
(* set_config, the consumer of the events or the end of the process may    *)
(* come between, or the caller may drop the future (its command is         *)
(* aborted).                                                               *)
(*                                                                         *)
(* A definition directly above another and named after it with a suffix is *)
(* a plausible bug in the one below it; no specification uses it.          *)
(***************************************************************************)
EXTENDS ReleaseCheck

CONSTANTS
    Chains,      \* the redirects a download may meet
    EventRoom,   \* room in the events channel
    MaxRestarts  \* bound: starts of the process after the first

ASSUME StageAssumption ==
    EventRoom \in Nat \ {0} /\ MaxRestarts \in Nat /\ Nobody \notin Callers

VARIABLES
    config,      \* the policy in force
    running,     \* the version of the process
    linked,      \* the release the process is respawned from
    last,        \* the last recorded sequence, or NoState
    answer,      \* what each caller was told
    holder,      \* who has in_flight
    request,     \* and what for
    pc,          \* where in stage
    snap,        \* stage's copy of the policy
    manifest,    \* the manifest fetched
    attempt,     \* failed attempts of the download under way
    events,      \* events in the channel
    listening,   \* its receiver exists
    restarts

stageVars == <<holder, request, pc, snap, manifest, attempt>>
diskVars == <<linked, last>>
vars == <<config, running, diskVars, answer, stageVars, events, listening,
          restarts>>

MaxAttempts == 3

NoManifest == Installer     \* a variable not in use

Idle ==
    /\ holder' = Nobody /\ request' = NoRequest /\ pc' = "idle"
    /\ snap' = NoConfig /\ manifest' = NoManifest /\ attempt' = 0

Init ==
    /\ config \in Configs
    /\ running = Installer.version /\ linked = Installer /\ last = NoState
    /\ answer = [c \in Callers |-> "none"]
    /\ holder = Nobody /\ request = NoRequest /\ pc = "idle"
    /\ snap = NoConfig /\ manifest = NoManifest /\ attempt = 0
    /\ events = 0 /\ listening = TRUE /\ restarts = 0

GoTo(place) == pc' = place /\ UNCHANGED <<holder, request, answer>>

\* stage returns, and its guard goes.
Return(code) == Idle /\ answer' = [answer EXCEPT ![holder] = code]

-----------------------------------------------------------------------------

\* try_lock: one request is let in, the others are answered at once.
Call(c, q) ==
    /\ answer[c] = "none"
    /\ \/ /\ holder = Nobody
          /\ holder' = c /\ request' = q /\ pc' = "policy"
          /\ answer' = [answer EXCEPT ![c] = "waiting"]
       \/ /\ holder # Nobody
          /\ answer' = [answer EXCEPT ![c] = "upgrade_in_progress"]
          /\ UNCHANGED <<holder, request, pc>>
    /\ UNCHANGED <<config, running, diskVars, snap, manifest, attempt, events,
                   listening, restarts>>

\* What the policy says of a request.
PolicyCode(cfg, version, req) ==
    IF ~cfg.enabled THEN "upgrade_disabled"
    ELSE IF req.channel \notin cfg.channels THEN "upgrade_channel_not_allowed"
    ELSE IF req.version = NoVersion THEN "upgrade_version_invalid"
    ELSE IF ~InVersionWindow(req.version, version, cfg)
      THEN "upgrade_version_too_old"
    ELSE "ok"

\* The policy is copied once, and judges the request whatever it becomes.
ReadPolicy ==
    /\ pc = "policy"
    /\ LET code == PolicyCode(config, running, request)
       IN  \/ /\ code = "ok" /\ snap' = config
              /\ GoTo("announce") /\ UNCHANGED <<manifest, attempt>>
           \/ code # "ok" /\ Return(code)
    /\ UNCHANGED <<config, running, diskVars, events, listening, restarts>>

\* events.send waits for room; a receiver that is gone is no obstacle.
SendEventDeafToClose == events < EventRoom /\ events' = events + 1
SendEvent ==
    \/ listening /\ events < EventRoom /\ events' = events + 1
    \/ ~listening /\ UNCHANGED events

Announce ==
    /\ pc = "announce" /\ SendEvent
    /\ GoTo("manifest")
    /\ UNCHANGED <<config, running, diskVars, snap, manifest, attempt,
                   listening, restarts>>

-----------------------------------------------------------------------------
(* fetch_text and fetch_with_sha256.                                        *)

\* What an attempt may meet: redirects, a status or none at all (DNS, TCP, TLS,
\* timeout), and a body that arrives whole or not: cut off, overlong, or not
\* the text it should be.
Responses ==
    {r \in [chain : Chains, status : {"success", "retryable", "other", "none"},
            whole : BOOLEAN] : r.whole => r.status = "success"}

\* No answer and the statuses of is_retryable_status are tried again, up to
\* MaxAttempts; any other status, and a body that breaks off, are not.
Outcome(r) ==
    IF r.status = "none" \/ ~RedirectsFollowed(r.chain) \/ r.status = "retryable"
      THEN "retry"
    ELSE IF r.status = "success" /\ r.whole THEN "got" ELSE "lost"
Outcomes == {Outcome(r) : r \in Responses}

Fetching == pc \in {"manifest", "bundle", "tarball"}

FetchAgainUnbounded(outcome) ==
    /\ Fetching /\ outcome = "retry"
    /\ attempt' = attempt + 1
    /\ UNCHANGED <<config, running, diskVars, answer, holder, request, pc,
                   snap, manifest, events, listening, restarts>>
FetchAgain(outcome) ==
    /\ Fetching /\ outcome = "retry" /\ attempt + 1 < MaxAttempts
    /\ attempt' = attempt + 1
    /\ UNCHANGED <<config, running, diskVars, answer, holder, request, pc,
                   snap, manifest, events, listening, restarts>>

FetchFails(outcome) ==
    /\ Fetching /\ outcome # "got"
    /\ outcome = "retry" => attempt + 1 = MaxAttempts
    /\ Return("upgrade_network_error")
    /\ UNCHANGED <<config, running, diskVars, events, listening, restarts>>

ManifestArrives(outcome, m) ==
    /\ pc = "manifest" /\ outcome = "got"
    /\ manifest' = m /\ attempt' = 0
    /\ GoTo("bundle")
    /\ UNCHANGED <<config, running, diskVars, snap, events, listening, restarts>>

\* What verify_manifest_bundle may find of each manifest.
Verdicts ==
    {<<m, VerifyFault(m, b, roots)>> :
       m \in Manifests, b \in Bundles, roots \in BOOLEAN}

NewerUnchecked(m) == TRUE
Newer(m) == last = NoState \/ m.sequence > last

\* What stage makes of a verified manifest.
ManifestCode(m) ==
    IF ~m.json \/ ~ValidateRequest(m, request) THEN "upgrade_manifest_invalid"
    ELSE IF ~Newer(m) THEN "upgrade_sequence_too_old"
    ELSE IF Targets(m, request) = {} THEN "upgrade_arch_mismatch"
    ELSE "ok"

\* The bundle arrives and the trust root is loaded or not; nothing that is read
\* afterwards can have changed before it was.
BundleArrives(outcome) ==
    /\ pc = "bundle" /\ outcome = "got"
    /\ \E fault \in {v[2] : v \in {w \in Verdicts : w[1] = manifest}} :
         \/ fault # "none" /\ Return(MapVerifyError(fault))
         \/ /\ fault = "none"
            /\ LET code == ManifestCode(manifest)
               IN  \/ /\ code = "ok"
                      /\ attempt' = 0 /\ GoTo("tarball")
                      /\ UNCHANGED <<snap, manifest>>
                   \/ code # "ok" /\ Return(code)
    /\ UNCHANGED <<config, running, diskVars, events, listening, restarts>>

\* The tarball is the one the manifest names for this target, or another one
\* under its URL, which is not tried again.
TarballArrives(outcome) ==
    /\ pc = "tarball" /\ outcome = "got"
    /\ \/ /\ attempt' = 0 /\ GoTo("downloaded")
          /\ UNCHANGED <<snap, manifest>>
       \/ Return("upgrade_checksum_mismatch")
    /\ UNCHANGED <<config, running, diskVars, events, listening, restarts>>

-----------------------------------------------------------------------------

\* With manual_only stage ends here, with nothing on disk.
DownloadedAppliesManual ==
    /\ pc = "downloaded" /\ SendEvent
    /\ GoTo("apply") /\ UNCHANGED <<snap, manifest, attempt>>
    /\ UNCHANGED <<config, running, diskVars, listening, restarts>>
Downloaded ==
    /\ pc = "downloaded" /\ SendEvent
    /\ \/ snap.manual /\ Return("upgrade_staged_manual")
       \/ ~snap.manual /\ GoTo("apply") /\ UNCHANGED <<snap, manifest, attempt>>
    /\ UNCHANGED <<config, running, diskVars, listening, restarts>>

\* stage_new_version extracts and links the release, or fails before the link.
Apply ==
    /\ pc = "apply"
    /\ \/ linked' = manifest /\ GoTo("record")
          /\ UNCHANGED <<snap, manifest, attempt>>
       \/ Return("upgrade_extract_failed") /\ UNCHANGED linked
    /\ UNCHANGED <<config, running, last, events, listening, restarts>>

\* state.json is saved, or cannot be, with the link as it is.
Record ==
    /\ pc = "record"
    /\ \/ last' = manifest.sequence /\ GoTo("report")
          /\ UNCHANGED <<snap, manifest, attempt>>
       \/ Return("upgrade_extract_failed") /\ UNCHANGED last
    /\ UNCHANGED <<config, running, linked, events, listening, restarts>>

Report ==
    /\ pc = "report" /\ SendEvent
    /\ Return("staged")
    /\ UNCHANGED <<config, running, diskVars, listening, restarts>>

-----------------------------------------------------------------------------
(* Around it.                                                               *)

\* The future is dropped at an await.  (Between "downloaded" and "report" there
\* is none.)
Abandon ==
    /\ pc \notin {"idle", "apply", "record"}
    /\ Return("gone")
    /\ UNCHANGED <<config, running, diskVars, events, listening, restarts>>

SetConfig ==
    /\ config' \in Configs
    /\ UNCHANGED <<running, diskVars, answer, stageVars, events, listening,
                   restarts>>

\* The vendor forwards an event to the manager, or drops the receiver.
Forward ==
    /\ listening /\ events > 0 /\ events' = events - 1
    /\ UNCHANGED <<config, running, diskVars, answer, stageVars, listening,
                   restarts>>

CloseEvents ==
    /\ listening /\ listening' = FALSE /\ events' = 0
    /\ UNCHANGED <<config, running, diskVars, answer, stageVars, restarts>>

\* The process ends at any step and is respawned from the link; a crash in the
\* watchdog's rewrite of state.json leaves it unreadable.
Restart ==
    /\ restarts < MaxRestarts /\ restarts' = restarts + 1
    /\ Idle /\ answer' = [c \in Callers |-> "none"]
    /\ running' = linked.version /\ last' \in {last, NoState}
    /\ events' = 0 /\ listening' = TRUE
    /\ UNCHANGED <<config, linked>>

StageNext ==
    \/ ReadPolicy \/ Announce
    \/ /\ Fetching
       /\ \E outcome \in Outcomes :
            \/ FetchAgain(outcome) \/ FetchFails(outcome)
            \/ \E m \in Manifests : ManifestArrives(outcome, m)
            \/ BundleArrives(outcome) \/ TarballArrives(outcome)
    \/ Downloaded \/ Apply \/ Record \/ Report

Next ==
    \/ \E c \in Callers, q \in Requests : Call(c, q)
    \/ StageNext
    \/ Abandon \/ SetConfig \/ Forward \/ CloseEvents \/ Restart

Spec == Init /\ [][Next]_vars

\* Each attempt ends by itself or at its timeout (30 s, 600 s), plain code runs
\* on, and the vendor forwards the events, as docs/writing-a-gateway.md asks.
Fairness == WF_vars(StageNext) /\ WF_vars(Forward)

FairSpec == Spec /\ Fairness

-----------------------------------------------------------------------------
(* Properties.                                                              *)

Codes ==
    {"upgrade_disabled", "upgrade_channel_not_allowed",
     "upgrade_version_invalid", "upgrade_version_too_old",
     "upgrade_network_error", "upgrade_identity_not_allowed",
     "upgrade_signature_invalid", "upgrade_manifest_invalid",
     "upgrade_sequence_too_old", "upgrade_arch_mismatch",
     "upgrade_checksum_mismatch", "upgrade_staged_manual",
     "upgrade_extract_failed"}

TypeOK ==
    /\ config \in Configs /\ snap \in Configs \cup {NoConfig}
    /\ linked \in Manifests \cup {Installer}
    /\ manifest \in Manifests \cup {NoManifest}
    /\ last \in {NoState} \cup {m.sequence : m \in Manifests}
    /\ answer \in
         [Callers -> Codes \cup {"none", "waiting", "staged", "gone",
                                 "upgrade_in_progress"}]
    /\ holder \in Callers \cup {Nobody}
    /\ request \in Requests \cup {NoRequest}
    /\ pc \in {"idle", "policy", "announce", "manifest", "bundle", "tarball",
               "downloaded", "apply", "record", "report"}
    /\ attempt \in 0..(MaxAttempts - 1)
    /\ events \in 0..EventRoom /\ listening \in BOOLEAN
    /\ restarts \in 0..MaxRestarts

\* verify_manifest_bundle accepts a bundle exactly when it is, in any of the
\* encodings and certificate forms there are, the one an allowed workflow made
\* for this manifest: no mix-up of two releases' parts passes, and no genuine
\* release is turned away.
RightlyJudged ==
    {m \in Manifests :
       \A b \in Bundles : VerifyFault(m, b, TRUE) = "none" <=> GenuineFor(m, b)}
VerdictRight == pc = "bundle" => manifest \in RightlyJudged

\* As far as the request let in has got, in the terms of UpgradeGate.
Progress ==
    CASE pc = "idle" -> "open"
      [] pc = "policy" -> "asked"
      [] pc \in {"announce", "manifest", "bundle", "tarball", "downloaded",
                 "apply"} -> "permitted"
      [] pc = "record" -> "linked"
      [] pc = "report" -> "recorded"

Gate == INSTANCE UpgradeGate WITH gate <- Progress, permit <- snap

\* The coordinator implements the abstract gate: whatever is downloaded, however
\* attempts fail, policies change and callers go away, only a release that an
\* allowed workflow signed, that was asked for, that the policy copied at the
\* start permits and that is newer than the last recorded one is ever linked,
\* and "staged" is answered only when it is linked and recorded.
ImplementsGate == Gate!Spec

\* Every caller of stage gets an answer.
StageAnswers ==
    \A c \in Callers : answer[c] = "waiting" ~> answer[c] # "waiting"
=============================================================================

# Verification of bilbycast-gateway-sdk

TLA+ models of the gateway SDK, the TLC runs that check them on small instances,
and TLAPS proofs for any instance. `src/` below is the repository; its crate is
`src/src/`.

## 1. The system

A *gateway* is a vendor's sidecar process that connects a device to a bilbycast
*manager* over a WebSocket. The vendor builds a `GatewayClient`, hands it a
`CommandHandler` and calls `run()`, which returns only on shutdown. The client
dials one of up to sixteen manager URLs, authenticates, keeps the session alive,
executes the manager's commands one at a time, sends what the vendor emits, and
reconnects with backoff. Apart from that, the `upgrade` feature installs a new
version of the sidecar on disk and rolls it back if it does not prove healthy.

### Inventory

| Component | State | Operations | Talks to | What is hard |
|---|---|---|---|---|
| **Command path** `ws_client.rs` (`run_session`, `drive_session`, `route_inbound`, `send_bounded`, `run_commands`, `run_command`, `finish_command`, the drain of `run`), `emit.rs`, `dispatch.rs` | per session: command queue, byte budget, `session_over` token, worker; per client: outbound channel, command turn | route a frame, refuse, ping/pong, heartbeat, write, start/ack/panic of a command, end of session, shutdown drain | manager (frames), handler (callback), vendor (`Emitter`) | workers of successive sessions overlap; a full channel whose only consumer could be waiting; handlers that panic or never return; what is in flight when a session ends |
| **Reconnect loop** `run`, `one_connection`, `ReconnectBackoff`, `ConnectionState` | URL cursor, retry count, token and credentials held, link flag and connect time | dial, authenticate, publish the link, back off, stop | manager, command path, vendor's health endpoint | any await without a deadline strands the gateway; ordering of two atomics; what resets the backoff |
| **Credentials** `auth.rs` | `credentials.json` | register, store, load | reconnect loop through `on_register` | the one-time token; a crash while storing |
| **Session reader** `read_manager`, `InboundCadence` | inbound channel and its byte budget, learned gap limit | read, wait for budget, give up on silence | session loop | silence of the manager against slowness of the loop; a frame half arrived |
| **Staggered dial** `connect_staggered`, `interleave_families` | attempts in flight | start next, win, fail, deadline | reconnect loop | an address that drops SYNs |
| **Staged upgrade** `upgrade/mod.rs`, `apply.rs`, `state.rs`, `watchdog.rs` | `versions/`, `current` symlink, `state.json`, its temporary file | stage, flip, collect, save, beat, promote, boot watchdog, roll back | vendor's process, systemd | a crash between any two file operations; three tasks rewriting one file; a version that never becomes healthy |
| **Release policy** `UpgradeCoordinator::stage`, `set_config`, `manifest.rs`, `validate_request` | `in_flight`, the policy, the events channel, the last recorded sequence | judge a request, fetch, check, announce, hand over to the disk | vendor (events), download, verification, staged upgrade | a guard held across minutes of awaits; a policy that changes meanwhile; a bounded channel whose reader is the vendor's; the width of a version's integers |
| **Download** `download.rs` | the attempts of one fetch | fetch with three attempts, follow redirects, cap, compare a checksum | stage | which failures are tried again; where a redirect may lead |
| **Signature verification** `verify.rs`, `trust.rs` | none | chain, validity window, Rekor entry, identity, allowlist, blob signature | stage | genuine parts of different releases combined; three forms of certificate and two encodings |
| **TLS** `tls.rs`; **configuration** `config.rs` | the client's copy of the configuration, the environment | validate, choose a verifier, judge a server | reconnect loop, operator | two keys for everything dangerous, looked at at different times; pins and rotation |
| **Payloads** `emit.rs` (constructors), `envelope.rs`, `events.rs`, `wizards.rs`, `errors.rs` | none | constructors | — | formats, not control |

What makes each component correct:

* *Command path*: commands run one at a time in the order sent, across
  reconnects; each is answered once and truthfully; an ended session costs at
  most the frame being written; queue and budget neither leak nor overflow;
  nobody waits on a channel only it drains; shutdown ends, and cuts nothing short
  that it could have waited for.
* *Reconnect loop*: no URL is starved, backoff is not reset by a connection that
  fails later, readers of the link state never see a mixture, the gateway comes
  back as long as one manager answers.
* *Credentials*: what the manager issued is not lost except where the design
  cannot help it, and the used-up token is not sent instead of it.
* *Session reader*: a live manager is not declared dead, a dead one is, in
  bounded time; the memory held is bounded.
* *Staggered dial*: every address gets its attempt; the first to connect wins.
* *Staged upgrade*: the linked version is always there; a bad version is left
  again and never recorded as stable; sequences never go back.
* *Release policy, download, verification*: what gets linked was signed by an
  allowed workflow, logged, asked for, permitted and newer; no genuine release is
  turned away by its encoding; one request at a time, and every caller is answered.
* *TLS, configuration*: the secret goes to nobody that the configuration and the
  environment together do not allow, and to whom they do allow it gets.

## 2. Modules

| Module | Models | Proved in |
|---|---|---|
| `CommandLink` | command path | `CommandLinkProofs`, `CommandAccountProofs` |
| `ReconnectLoop` | reconnect loop, credentials | `ReconnectLoopProofs` |
| `LinkTrust` | configuration checks, TLS modes and verifiers | `LinkTrustProofs` |
| `SessionReader` | session reader, silence watchdog | `SessionReaderProofs` |
| `StaggeredDial` | the dial of one attempt | `StaggeredDialProofs` |
| `ReleaseCheck` | version window, redirects, signature verification, checks of a manifest: operators without state | `ReleaseStageProofs` |
| `ReleaseStage` | `stage` from the command to the disk, download | `ReleaseStageProofs` |
| `UpgradeGate` | what `stage` promises: the abstract specification `ReleaseStage` implements | |
| `UpgradeInstall` | staged upgrade on disk, boot watchdog | `UpgradeInstallProofs` |
| `MC*` | instances for TLC | |

How they fit together: `ReconnectLoop` treats a dial as one step and a session as
one state. `StaggeredDial` is the inside of that step. `CommandLink` and
`SessionReader` are two views of the inside of a session: the first has every
frame's consequences and no clock, and lets a session be lost at any time; the
second has the clock, the reader and the two bounded resources between it and the
session loop, and abstracts the loop to a consumer that may be held up. Each is
checked without assuming anything the other would have to guarantee. `LinkTrust`
is another view of the attempt that `ReconnectLoop` has as one step: whom it may end
at, rather than when. `ReleaseStage` is the front half of an upgrade and has its end, link and
record, as two steps that may each fail; `UpgradeInstall` is the inside of those two,
with what happens at the boots after them, and takes any release that comes in
sequence.

In each module a definition placed directly above another and named after it
with a suffix (`WorkerAskDropsIt` above `WorkerAsk`) is a plausible bug in the one
below. No specification uses it; putting it in the other's place makes the
property it belongs to fail, which shows that the property would notice.

### CommandLink

A *session* is the number of its authentication, a *command* the number of its
arrival. `run` is where `run()` and `run_session` are: `down` (dialling or
backing off), `up` (the session's `select!`), `ended` and `stopping` (the
`select!` has resolved, by the link or by shutdown; the token not yet cancelled),
`closing` (the Close is being written), `break`, `drain`, `exited`. `pc[w]` is
where session *w*'s `run_commands` task is, `tpc[w]` where the `run_command` task
it spawned is. `outbound` is the mpsc channel, `hand` the frame `drive_session`
took off it and is writing, `wire` what got written, `lost` what did not.
`turn`/`turnQ` is tokio's fair one-permit semaphore, with `run()`'s drain as one
more customer.

The tasks run on a multi-thread runtime, so each poll is a step: a worker looks
at `session_over` (`WorkerPoll`) and takes from its queue (`WorkerTake`) in two
steps, and the session can end in between. `select!` with `biased` is a guard
(`NothingInbound`); without it, a choice. The manager's frames arrive one per
step; a session may end in any state (a lost link, the reader giving up), by the
manager's Close once what was read before it has been routed, or by shutdown. A
handler may return, panic or never return.

Left out: frame contents other than the kind and the command; unparseable and
unknown frames, which change nothing; how long things take (a deadline is an
action that may fire once what it bounds is under way), so a drain that used its
whole limit is not told from one that did not need to. A command the full queue
hands back gives its bytes back at once (`RouteCommand`), where the code holds them
until `refuse_busy` has written; nobody else takes from that budget meanwhile.

### ReconnectLoop

One variable per field of the loop. `pc` goes `top`, `dial`, `auth`, `reply`,
then `callback` and `writing` (the vendor's `on_register`, storing with
`persist_credentials`, which truncates and then writes), `mark` and `flag` (the
two stores of `set_connected`), `up`, `ended`, `backoff`. The manager is external:
it exchanges the token once and knows the credentials it issued; a URL outside
`Answering` accepts nothing and only the step's deadline ends the attempt. A
session's inside is CommandLink's subject. The process may die at any step and be
started again with the same configuration.

### SessionReader

`rpc` is where `read_manager` is: `select`, `budget` (acquiring a text's share),
`send` (waiting for room in the channel) or `parked`. `lpc` is where
`drive_session` is: `idle`, `write` (a frame, heartbeat or Pong is being written)
or `answer` (so is the answer to a text whose share it still holds). `silent`,
`quiet` and `gaps` are `InboundCadence`, the two instants kept as the time since;
`socket` is what the kernel holds unread and `path` what is on its way.

Time passes in `Tick`, only when the reader and the loop have done all they can do
at once and no deadline has come (`Settled`). That is the urgency of a runtime that
polls a ready task in far less than a tick of thirty seconds. The manager is
external: it pings at a fixed interval, sends other frames at will, may skip a ping,
may close, break the connection, or vanish without a sign. Frames arrive in order
and in bursts, within `Delay` as long as the gateway reads. Writes held up and pings
lost are *upsets*, at most `MaxUpsets` of them.

Left out: what frames say, and that a text's share depends on its length (here
every text costs one unit); shutdown.

### StaggeredDial

`stage` follows `dial_manager`: `lookup`, `tcp`, `upgrade`, `over`. An address is
its place in the resolver's answer; `waiting`, `flight` and `slept` are
`connect_staggered`'s queue, its attempts and its sleep, and `top` says that it is at
the top of its loop. `InterleaveFamilies` is written with sequences and checked
against what its comment promises, for every answer of up to four addresses. An
attempt may connect, fail or stay silent, at any time. Left out: the list of
abandoned addresses, which is only logged, and the slow-dial warning.

### UpgradeInstall

`state`, `current`, `dirs` and `tmp` are what is on disk; the rest is the process.
Each file operation is a step; `stage` (`spc`), `finalize_if_stable` (`fpc`) and
`record_healthy_beat` (`bpc`) are three tasks that can interleave between file
operations when `MultiThread`, and between awaits otherwise (`Alone`). The flocks
are not modelled as exclusion because they do not exclude: each is held for one
load or one save, and the save renames a new file over the locked one. `Crash` is
the death of the process at any step, with what it wrote still there (not a power
failure that loses unsynced data). `Bad` releases never reach the manager; those
in `Hangs` stay up doing so, the others die.

`SamePid` says whether the process id, and with it the name of the temporary file,
is the same at every start, as in a container; then a file left by a crash makes
every later save fail.

The model is of a gateway whose `[upgrade]` section is present and enabled at every
start: without it `run_boot_watchdog` returns `Continue` at once
(`watchdog.rs:34-35`), and whatever is linked runs unwatched.

Left out: `manual_apply_pending`, as no code ever writes the status it requires;
the `previous` symlink, which nothing reads; channel, variant and architecture;
I/O errors such as a full disk.

### ReleaseCheck, ReleaseStage, UpgradeGate

`ReleaseCheck` has the checks in the order the code makes them. Cryptography is what
it establishes: a signature is a key and what that key signed, a hash is what was
hashed, a certificate is what Fulcio wrote into it for a run, in the current
extensions, the deprecated ones or both. What the verification cannot know is in
constants, with assumptions: `Signed`, who signed what; `Logged`, what Rekor logged
of that; `Trusted`, whose certificates tell the truth (`CryptographyHolds`,
`RunAssumption`). `GenuineFor` says of a bundle what it ought to be, in those terms and
without any of the checks; `VerifyFault` is the code.

In `ReleaseStage`, `holder` is `in_flight`, `pc` where its holder is: `policy`,
`announce`, the three downloads, `downloaded`, `apply`, `record`, `report`. Every
await ends a step: another caller, `set_config`, the vendor's end of the events
channel or the end of the process may come between, or the caller may drop the
future. A download's answer is a chain of redirects, a class of status and whether
the body is whole; `Outcome` is what the code makes of it. The width of a minor
version is `Width`, so `minor + rollback_grace` wraps as the release build does.

`UpgradeGate` has the same caller's view and nothing of the downloads, the retries,
the checks' order or the events. `ImplementsGate` is `Gate!Spec` under the
refinement mapping that reads the gate's state off `pc` (`Progress`) and the permit
off the policy copied at the start (`snap`).

Left out: pre-release parts of versions; `derive_release_base_url`, whose errors
earlier checks exclude; how long a backoff takes and what the size caps are; DER,
base64 and JSON syntax, which is a bit. The boot watchdog's rollback of the link is
not here (`UpgradeInstall` has it): a restart starts what is linked.

### LinkTrust

`file` is the configuration as the operator has it, `env` the two confirmations in
the environment, `cfg` the client's own copy, `at` the server behind each URL,
`peer` whom the secret was shown to. The operator edits and restarts, certificates
are renewed, addresses come to lead elsewhere. `Mode` is `build_tls_config`'s choice
at each attempt, `Accepts` the three verifiers; webpki's verdict is one bit, the
handshake signature another.

Left out: lengths of strings, serde defaults, and all that follows the `auth` frame.

## 3. What is checked

### Passing runs

| Run | Instance | Shows |
|---|---|---|
| `link` | 2 sessions, 3 commands, queue of 2, budget of 2 bytes with frames of 2 and 1, channel of 1 | commands never overlap and start in order (`OneAtATime`, `StartOrder`), every answer is truthful and single (`AnswerAccounting`), the byte budget is exact (`BudgetExact`), one frame is lost per session (`OneFrameLostPerSession`), there is one late start at most (`LateStartsBounded`), shutdown cuts nothing off early (`NoCommandCutOff`) |
| `link_live` | 2 sessions, 1 command, queue and channel of 1 | shutdown completes (`ShutdownCompletes`), workers retire (`WorkersRetire`), acks get into a full channel (`AckGetsQueued`) |
| `reconnect` | 3 URLs, one silent; backoff 1, 2, 5; 2 deaths | the link state is never a mixture (`LinkStateTruthful`), backoff is reset by a clean close only (`BackoffHolds`), issued credentials are lost in two known windows only (`PairAccountedFor`) and used once held (`NotRefusedOnceRegistered`), the gateway comes back (`ComesBack`) |
| `trust` | 10 configurations, 4 environments, 5 servers, 3 URLs | the secret goes only where the configuration and the environment allow (`SecretOnlyToTrusted`), and does get where they mean it to (`TrustedReached`) |
| `reader` | ticks of 30 s, keepalive of 30 s, 120 s or 180 s, floor 90 s, writes up to 240 s, 3 gaps kept, channel of 1, budget of 1, 2 other frames, 1 upset | a live manager is not taken for dead, except where a burst of pings has brought the limit below its keepalive, which happens at 120 s (`LiveNotTakenForDead`), a dead one is noticed in time (`DeadNoticed`), one stall is forgotten (`OneStallForgotten`), the budget is exact (`BudgetExact`), a Close ends the session behind what came before it (`CloseComesLast`) |
| `dial` | up to 4 addresses, stagger 2, deadline 9 | the families alternate (`OrderAlternates`), a silent address holds nobody back (`NobodyHeldBack`), the dial fails early only when all have failed (`FailsOnlyWhenAllFailed`), it ends (`DialEnds`) |
| `release` | 2 callers, 5 requests, 3 policies, 4 manifests, 8 workflow runs with every two's bundles mixed up part by part, events channel of 1, 1 restart | a bundle is accepted exactly when it is genuine (`VerdictRight`), the coordinator implements the abstract gate (`ImplementsGate`), every caller is answered (`StageAnswers`) |
| `upgrade` | 7 releases: one good, one bad that hangs, four bad that die; 3 boots; 2 crashes; a second stage in the drain; a short window; current-thread runtime | the linked version is there (`LinkedVersionPresent`) and so is the rollback target, unless more than `Keep` newer ones pushed it out (`RollbackTargetKept`), a bad version is recorded as stable in three ways only, each of which happens (`NeverSettlesOnBad`), the sequence never falls (`SequenceNeverFalls`), a version that dies at its boots is left, unless it was recorded as stable in one of those ways (`DyingVersionRolledBack`), the gateway always comes up again (`ComesUp`) |

Why the bounds are enough to be interesting. Two sessions are one reconnect, the
least at which workers overlap; with three commands one runs, one waits on the old
session and one comes on the new. A channel of one place is full most of the time,
where the hazards are. A queue of two under a budget of two or three is reached by
both limits. Three URLs make a rotation that can go wrong and still leave one that
answers. With `Keep` three (the code's value) five releases are the least at which
collection deletes anything; `upgrade` has seven. Two crashes let a second one hit the recovery from
the first. Five bad releases in a row, four of them dying, are one more than `Keep`, so
a revert fails for want of its target within the run. Four addresses give each family a second one, which is the least at which
alternation and grouping differ in more than the first place. The reader's
keepalives lie below the floor, just above it and well above; with three gaps kept instead of eight
the window turns over within the run, and it is while few gaps are known that one
odd gap weighs most. A budget of one unit and a channel of one place make the
reader wait in both places. The eight runs are one for each form of certificate and
one for each way a run may be the wrong one (workflow, branch, repository, CA, time);
two callers are the least that contend. The ten configurations differ pairwise in
what decides a mode or its precedence.

The bounds named in the modules are `MaxSessions`, `MaxCmds`, `MaxCrashes`,
`MaxVersion`, `MaxFrames`, `MaxUpsets`, `MaxAddrs`, `MaxRestarts` and `Width`; the retry count is capped
at the end of the backoff table, past which `delay_for_attempt` is constant. Deadlock is checked except for
`UpgradeInstall`: when every release has been tried, or a hanging one is
installed, there is nothing left to do.

### Where texts and code disagree

Each of these runs checks one sentence of the repository and TLC finds a behaviour
of the code against it. The quotations are in `PROJECT.json`.

| Run | What happens |
|---|---|
| `upgrade_lost_update` | multi-thread: a beat that loaded before a stage saved writes the old `state.json` back |
| `upgrade_gc_target` | after three failed upgrades the fourth one's collection deletes the running version, and the failed revert is recorded as a rollback |
| `upgrade_flip_crash` | the symlink is flipped before `state.json` is saved: after a crash in between the watchdog does not know the new version |
| `upgrade_same_pid` | process ids that repeat: a temporary file left by a crash makes the watchdog's save fail at every boot, and the gateway reverts its link and exits without end |

A few more behaviours that a reader of the documents may not expect, met while
modelling; they are in the models or beside them, not in runs of their own:

* `get_config` is acked before its `config_response` is sent, where
  `docs/writing-a-gateway.md` (151-152) gives the other order.
* An ack that is being written when its session dies is lost, and no later session
  repeats it: `OneFrameLostPerSession` says "one", not "none".
* A worker that reports a panicked handler into a full channel keeps its ended
  session's queue while the link is down.
* Pings that are read in one burst, after a loop held up in a write, teach gaps of
  zero (`ws_client.rs:911`): the limit is then the floor, and a manager whose
  keepalive is 120 s is dropped before its next ping, although
  `ws_client.rs:105-106` has the limit scale with the cadence. It is the one exception
  in `LiveNotTakenForDead` (`StampedInBurst`, not `FitsFloor`), and it happens in
  `reader`, at its keepalive of four ticks.
* A version that stays up without ever reaching the manager is not rolled back:
  `DyingVersionRolledBack` excludes `Hangs`, `BadVersionRolledBack` does not and
  fails with a non-empty `Hangs`.
* A crash while `bump_boot_attempts` rewrites `state.json` in place loses the
  sequence, so an older release is accepted again: `SequenceNeverFalls` speaks of
  readable files only. So does a save that fails after the link.
* A bad version is recorded as stable, without any crash, in the three ways that
  `Excused` lists and `NeverSettlesOnBad` has as its exceptions; all of them happen in
  `upgrade`. A revert that fails because `gc_versions` removed its target is recorded
  as a rollback, and the next boot makes that stable: after enough bad releases in
  a row (`upgrade_gc_target`) the last one stays linked and, if it dies at its boots,
  dies for ever (`DyingVersionRolledBack`). With `ShortWindow` the old process's beat
  promotes the new version. With `StageInDrain` a second stage before the exit takes a
  version that never ran as its rollback target, and one cut off after the link leaves
  one version linked and the beat counted for the other. On a multi-thread runtime
  there is a fourth: a promotion that looked at one version's state marks the next
  one's, or a lost update takes the record of a pending version away
  (`upgrade_lost_update`). Both properties are stated for current-thread runtimes.
* `manual_only` answers "staged successfully; ... deferred until SIGUSR1" with
  nothing on disk, and no handler of that signal exists.
* `map_verify_error` looks for "rekor" and "identity" in the outermost message of an
  error chain, where neither fault of the log entry appears: `upgrade_rekor_invalid`
  is never answered (`MapVerifyError`).
* `stage` sends its events into a channel of the vendor's and waits for room, holding
  `in_flight`. The example in `upgrade/mod.rs` (33) keeps the receiver and never reads
  it: once it is full every later `stage` hangs, or is told `upgrade_in_progress`.
  `StageAnswers` assumes a vendor that forwards.
* `download.rs` (18-19) promises to retry "transient errors (DNS, TCP reset, 5xx)"; a
  reset in the middle of a body is not retried. "Cap at 5 hops" (169-170) follows four.
* `ws_client.rs` (462-463) rebuilds the TLS configuration because "callers may edit
  their config file"; `self.cfg` is a private copy that is never read again, so only
  the environment can have changed. A fingerprint that does not parse passes
  `validate` and fails every attempt for ever, and so does `accept_self_signed_cert`
  without its environment variable. On `ws://` URLs a pin is ignored.
* The minimal example of `lib.rs` has neither credentials nor a token, which
  `validate` refuses.

### Fairness

*CommandLink.* Tasks that can run are run. A write ends by itself or at
`WRITE_STALL_LIMIT`, the drain by itself or at `COMMAND_DRAIN_LIMIT`. Emits are
strongly fair because tokio hands out room in a channel in the order it was asked
for. So is the end of a session the manager closed: finitely much was read before
the Close. `TakeOutbound` is strongly fair, which assumes that the manager does
not keep the inbound channel, which the biased `select!` prefers, non-empty for
ever. Nothing is assumed of handlers, vendor emits, or when sessions begin or end.

*ReconnectLoop.* Plain code runs on and deadlines pass. A manager in `Answering`
answers in time if asked often enough (strong fairness, since deadlines disable
it). Nothing is assumed to end a session or to request shutdown.

*LinkTrust.* Attempts and backoffs end, by themselves or by their timers. `TrustedReached`
itself assumes that one URL stays right.

*ReleaseStage.* Each attempt of a download ends by itself or at its timeout, plain
code runs on, and the vendor forwards events, as `docs/writing-a-gateway.md` asks, or
drops the receiver.

*SessionReader* states no liveness: `DeadNoticed` bounds the time instead.

*StaggeredDial.* The task is polled when it can move, and time passes. Nothing is
assumed of the resolver, of any address or of the peer's handshake.

*UpgradeInstall.* systemd respawns the process (`Restart=always`), the boot
watchdog runs to its end, a stage past its downloads runs on, and the exit that
follows a stage, or the death of a bad binary that does not hang, comes in the
end although beats may have the thread when its timer fires (strong fairness).

## 4. What is proved

Each theorem holds for every value of the constants that satisfies the named
assumptions of its module.

| Module | Theorems |
|---|---|
| `CommandLinkProofs` | `TypeCorrect` (`TypeOK`), `CommandsNeverOverlap` (`OneAtATime`), `AtMostOneLateStart` (`LateStartsBounded`), `StartsInOrder` (`StartOrder`), `ShutdownCutsNoneOff` (`NoCommandCutOff`) |
| `CommandAccountProofs` | `AtMostOneFrameLost` (`OneFrameLostPerSession`), `AnswersAddUp` (`AnswerAccounting`), `BudgetAddsUp` (`BudgetExact`) |
| `ReconnectLoopProofs` | `LoopTypeCorrect` (`TypeOK`), `LinkStateNeverMixed` (`LinkStateTruthful`), `IssuedPairAccountedFor` (`PairAccountedFor`), `NeverRefusedOnceRegistered` (`NotRefusedOnceRegistered`), `BackoffOnlyResetByClose` (`BackoffHolds`) |
| `SessionReaderProofs` | `BudgetNeverLeaks` (`BudgetExact`), `CloseAlwaysLast` (`CloseComesLast`), `ReaderTypeCorrect` (`TypeOK`), `GoneIsNoticed` (`DeadNoticed`), `LiveNeverTaken` (`LiveNotTakenForDead`, from `LimitCovers`), `StallForgotten` (`OneStallForgotten`) |
| `StaggeredDialProofs` | `AddressesAlternate` (`OrderAlternates`), `SilentHoldsNobodyBack` (`NobodyHeldBack`), `GivesUpWhenAllFailed` (`FailsOnlyWhenAllFailed`) |
| `LinkTrustProofs` | `SecretStaysWithTrusted` (`SecretOnlyToTrusted`) |
| `ReleaseStageProofs` | `VerdictAlwaysRight` (`VerdictRight`), `StageTypeCorrect` (`TypeOK`), `StageImplementsGate` (`ImplementsGate`) |
| `UpgradeInstallProofs` | `LinkedAlwaysPresent` (`LinkedVersionPresent`), `UpgradeTypeCorrect` (`TypeOK`), `SequenceKept` (`SequenceNeverFalls`), `TargetKept` (`RollbackTargetKept`), `SettlesOnGood` (`NeverSettlesOnBad`) |

*CommandLink.* From positive bounds, frames that fit an empty budget, and
`get_config` commands being commands. `OneAtATime` is not inductive: it says who is
busy, not why nobody else can become so. The inductive invariant is
`IInv == TypeOK /\ TurnHeld /\ TaskInWorker`. `TurnHeld` says that a worker in or
past its take holds the turn, and that one at the top of its loop holds it or
finds its session over; the second case is the worker that gave up waiting.
`TaskInWorker` ties a task to its worker's wait for it. The turn has one value, so
two busy workers are one. That a session once over stays over (`OverStable`) is
what keeps the second case true while other tasks move. `LateStartsBounded` rests on
`LateOnce`, which counts a late take only for a worker whose look at the token
preceded its session's end and which will find it cancelled at its next look.

`StartOrder` rests on `Ordered`: queues are sorted, an older session's is wholly
before a newer one's, and a worker that may still take has nothing in its queue that
came before a started command. When one takes, `TurnHeld` makes it the only worker
between its look and its take, so any other that may still take belongs to a newer
session. `NoCommandCutOff` rests on `DrainQuiet`: the drain holds the turn when it
ends in time, and after it every session is over. `OneFrameLostPerSession` rests on
`OneToLose`: while a frame is in hand that could be lost, or may still be taken off the
channel, this session has lost none.

`AnswerAccounting` equates the answers of a command with its fate. An answer is a
frame, and every step moves a frame between the channel, the hand, the wire and the
lost, or makes one: the proof counts the copies of a frame over the four places
(`EmitCopies`, `TakeCopies`, `LetGo`), and needs besides that fates are true of what
is queued, running or not yet come (`FatesTrue`), that one worker at most owes an ack
(`OneDebtor`, from `OneAtATime`), and that the loop holds a frame only while it has a
session to write to (`LoopShape`). `BudgetExact` needs the session a worker belongs to
(`SessionShape`) and that the cost of a set grows by what is put in; the cost is a
recursive function (`CostUpTo`), so that it has a value at all is a lemma too
(`CostDefined`).

*ReconnectLoop.* From the assumptions on URLs and the backoff table. `Published`
orders the two stores against `up`; `Kept` says where an issued pair is at each place
of the loop; `Slept` that the delay last slept belongs to the attempt last counted.

*SessionReader.* `Hands` says what the reader and the loop hold at each place. With it
`BudgetExact` is inductive, given lemmas on how many texts a sequence holds. For
`CloseComesLast`, `EndBehind` says that an end, wherever it is, has nothing behind
it and nothing in the queues before it, and that what is not routed is on its way.
The types need `NoneForged`: no more texts are on their way than are not yet routed,
or the count of the unrouted could fall below zero. `DeadNoticed` rests on `CaughtUp`:
once the manager has gone, time passes only while the loop has been in a write all
along, or with nothing to read, and then the silence is counted; a check that has been
made leaves the silence within the limit. That the limit is no longer than
`LongestLimit` whatever the gaps (`LimitBounded`) is a lemma about the median.
`LiveNotTakenForDead` is proved under `LimitCovers`: as many pings as there may be upsets
can be lost in a row without the next one coming later than the floor, or than `Pings`
intervals, each less a frame's delay (one loss at 30 s fits the code's 90 s; the longer
keepalives of `reader` fit the intervals). `Fresh` bounds the silence by the time since
the last ping was due. For a keepalive that fits the floor that is enough, as what the
gaps teach can only lengthen the limit. For any other, a silence past the limit means
that the median gap is shorter than an interval less the delay: pings stamped in a burst,
the exception. Once the session is over nothing moves (`OverStays`).
`OneStallForgotten` holds for all values. `Punctual` says that with one upset at most one
gap is odd, longer than an interval and a delay: until the upset no next gap can be
(`Regular`), and a reader that waits is waiting for the very write that is held up
(`Blocked`, `SettledWaits`), so all is regular again once the odd gap has been stamped,
and the pings behind it were read in the same breath. One odd gap of three is not their
median (`OneOddForgotten`).

*StaggeredDial.* `OrderAlternates` is about a pure function and proved as such: the
recursion that splits the families has a solution (`HalfDefined`), each half is its
family's places in ascending order and together they are all places, and the *i*th of
a half ends up where `LeadPlace` and `OtherPlace` say. For the dial, `DialInv` says
that every address waits, is in flight or has failed (`AddressesKept`), and that each
stagger slept was paid for by a start (`PaceKept`). The order's being a permutation is
where the two meet: no address is left out of what `FailsOnlyWhenAllFailed` counts.

*LinkTrust.* `Checked`: what `validate` and the verifier established was established of
the same copy of the configuration and the same environment that still hold.

*ReleaseStage.* `VerdictAlwaysRight` goes check by check, from the assumptions that
keys sign only what `Signed` says, that Rekor's key signs only `Logged`, and that a
trusted CA certifies runs. The refinement uses `StageInv == Established /\ Held`: what
the checks passed so far have established of the manifest and the request, and that
the guard is held exactly while `stage` is in progress. Each action is mapped to a
step of the gate or to a stutter. The same invariant gives the types.

*UpgradeInstall.* `LinkInv` adds to `LinkedVersionPresent` what a stage has put on disk
and not linked yet, and that collection spares both. It holds with any runtime, any
process ids and any crashes. `TypeInv` adds the buffers of the three tasks. `SeqInv`
adds that one task at a time is between its load and its save and carries a sequence
no lower than the file's. That is so on a current-thread runtime only, and
`SequenceKept` assumes it: `upgrade_lost_update` shows what happens otherwise.

`TargetKept` assumes it too. `FilesInv` says that the versions on disk are in the order
of their sequences, none newer than the file's but the one being staged, so what
`gc_versions` leaves is the newest; and that both versions named by `state.json`, and by
every copy of it in a task's hands, are on disk or behind more than `Keep` newer ones.
That needs every stage to save what it linked, hence `TmpInv`: no temporary file is in a
stage's way. Without crashes only a bad binary that dies in the middle of a promotion
leaves one, and that binary never gets as far as a stage again. After a crash none of
this holds (`upgrade_same_pid`, `upgrade_flip_crash`), which is why the property speaks
of behaviours until the first one.

`SettlesOnGood` assumes nothing but what the property says itself, a current-thread
runtime: it holds for any crashes, process ids, windows and stages in the drain. What has
to be shown is that there is no fourth way. `SoundInv` says so of the file and of every
copy of it in a task's hands (`Sound`): a pending state is of the newest release and goes
back to a good one, or to one staged before it in the drain; any other state names a good
version or is excused. A promotion is the step at which a pending state turns stable, so the
invariant says besides that what is about to be promoted has beaten, or that the window
is short or a stage came in the drain. `GoodRun` is what makes a stage's previous version
good when nothing is staged in the drain: the file names a good version whenever a
process of a good one is up. A crash can break that only between the revert of the
link and the save, and then the next boot takes the same branch again (`Left`). An
excuse, once it holds, must not go away: a directory comes back only by extraction of
the version staged (`NoOtherBrought`), which is newer than the one recorded.

*Sums and recursions.* The library's induction theorems cannot be instantiated here.
Where a recursive function has to be reasoned about (`HalfUpTo`, `CostUpTo`) the proofs
use that a non-empty set of naturals has a least member (`NatLeast`), and `CountUp` from
it: a set with zero and, up to *N*, each member's successor has all of 0..*N*.

Only model-checked: every liveness property (fairness and `ENABLED` are out of the
prover's reach).

## 5. Plan

Done: every component with control of its own is modelled, each module has its
proofs, and one refinement is checked and proved. What is left, in this order:

1. An abstract serial command executor (a command is pending, running, answered,
   refused or dropped; one runs at a time, in order) that `CommandLink` implements,
   the turn, queues and workers hidden. Its two promises are stated and proved
   directly (`OneAtATime`, `StartOrder`).
2. An installer whose version changes atomically, which `UpgradeInstall` implements
   without crashes on a current-thread runtime; then `ReleaseStage` over it.
3. Composition: `SessionReader` with the session loop of `CommandLink` over their
   bounded channel.

## 6. Not modelled

Envelopes, events, error types, the emitter's payloads and the wizard types: JSON
shapes, constructors and enumerations without state or control. The emitter's channel
is in `CommandLink`. Cryptography, DER, base64 and semver appear by what they
establish. Disk-full and permission errors of the staged upgrade appear only where
`ReleaseStage` lets its last steps fail.

## 7. Running

```
tlc -config MCCommandLink.cfg MCCommandLink
tlapm CommandLinkProofs.tla
```

and likewise for the other `MC*.cfg` (`MCCommandLinkLive.cfg` with `MCCommandLink`,
`MCUpgrade*.cfg` with `MCUpgradeInstall`) and `*Proofs.tla`.

`PROJECT.json` lists the runs with their configurations, what each definition
models, and the hazards the properties are for.

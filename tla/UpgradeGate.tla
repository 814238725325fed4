----------------------------- MODULE UpgradeGate -----------------------------
(***************************************************************************)
(* What UpgradeCoordinator promises whoever asks for an upgrade, without   *)
(* how: one request is let in at a time and the others are turned away; it *)
(* is judged by the policy of one moment after it was let in; all that is  *)
(* ever linked is a release that an allowed workflow signed and Rekor      *)
(* logged, that is the one asked for, and that is newer than the last one  *)
(* recorded; and success is answered only for what was linked and recorded.*)
(* ReleaseStage implements it.                                             *)
(***************************************************************************)
EXTENDS ReleaseCheck

CONSTANT Codes       \* answers other than success

VARIABLES
    gate,        \* "open", or how far the request let in has got
    holder,      \* whose it is
    request,     \* what it asks for
    permit,      \* the policy it was judged by
    answer,      \* what each caller was told
    config,      \* the policy in force
    running,     \* the version of the process
    linked,      \* the release the process is respawned from
    last         \* the last recorded sequence, or NoState

gateVars == <<gate, holder, request, permit, answer, config, running, linked,
              last>>

Permitted(cfg, version, req) ==
    /\ cfg.enabled
    /\ req.channel \in cfg.channels
    /\ req.version # NoVersion /\ InVersionWindow(req.version, version, cfg)

Init ==
    /\ gate = "open" /\ holder = Nobody /\ request = NoRequest
    /\ permit = NoConfig
    /\ answer = [c \in Callers |-> "none"]
    /\ config \in Configs
    /\ running = Installer.version /\ linked = Installer /\ last = NoState

Open == gate' = "open" /\ holder' = Nobody /\ request' = NoRequest
        /\ permit' = NoConfig

Ask(c, q) ==
    /\ gate = "open" /\ answer[c] = "none"
    /\ gate' = "asked" /\ holder' = c /\ request' = q
    /\ answer' = [answer EXCEPT ![c] = "waiting"]
    /\ UNCHANGED <<permit, config, running, linked, last>>

TurnAway(c) ==
    /\ gate # "open" /\ answer[c] = "none"
    /\ answer' = [answer EXCEPT ![c] = "upgrade_in_progress"]
    /\ UNCHANGED <<gate, holder, request, permit, config, running, linked, last>>

Permit ==
    /\ gate = "asked" /\ Permitted(config, running, request)
    /\ gate' = "permitted" /\ permit' = config
    /\ UNCHANGED <<holder, request, answer, config, running, linked, last>>

\* Up to the recording anything may fail; past the link, the link stays.
Refuse(code) ==
    /\ gate \in {"asked", "permitted", "linked"}
    /\ Open /\ answer' = [answer EXCEPT ![holder] = code]
    /\ UNCHANGED <<config, running, linked, last>>

Link(m) ==
    /\ gate = "permitted" /\ ~permit.manual
    /\ m \in Endorsed
    /\ m.version = request.version /\ m.channel = request.channel
    /\ m.device = DeviceType
    /\ Targets(m, request) # {}
    /\ m.sequence > last
    /\ gate' = "linked" /\ linked' = m
    /\ UNCHANGED <<holder, request, permit, answer, config, running, last>>

Record ==
    /\ gate = "linked"
    /\ gate' = "recorded" /\ last' = linked.sequence
    /\ UNCHANGED <<holder, request, permit, answer, config, running, linked>>

Confirm ==
    /\ gate = "recorded"
    /\ Open /\ answer' = [answer EXCEPT ![holder] = "staged"]
    /\ UNCHANGED <<config, running, linked, last>>

\* Whoever asked goes away.
Abandon ==
    /\ gate # "open"
    /\ Open /\ answer' = [answer EXCEPT ![holder] = "gone"]
    /\ UNCHANGED <<config, running, linked, last>>

Reconfigure ==
    /\ config' \in Configs
    /\ UNCHANGED <<gate, holder, request, permit, answer, running, linked, last>>

\* The record may be lost on the way.
Restart ==
    /\ Open /\ answer' = [c \in Callers |-> "none"]
    /\ running' = linked.version /\ last' \in {last, NoState}
    /\ UNCHANGED <<config, linked>>

Next ==
    \/ \E c \in Callers : TurnAway(c) \/ \E q \in Requests : Ask(c, q)
    \/ Permit \/ \E code \in Codes : Refuse(code)
    \/ \E m \in Manifests : Link(m)
    \/ Record \/ Confirm \/ Abandon \/ Reconfigure \/ Restart

Spec == Init /\ [][Next]_gateVars
=============================================================================

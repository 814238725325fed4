-------------------------- MODULE LinkTrustProofs --------------------------
(***************************************************************************)
(* Proofs about LinkTrust, for any URLs, servers and configurations.       *)
(***************************************************************************)
EXTENDS LinkTrust, TLAPS

\* What the checks of the client's start and of the present connection have
\* established, and that nobody took back since: the environment only changes
\* while the process is down, and the client's copy of the configuration only
\* when it starts.
Checked ==
    /\ cfg \in Files /\ file \in Files
    /\ pc \in {"running", "linked"} =>
         /\ Valid(cfg, env)
         /\ cursor \in DOMAIN cfg.urls
    /\ pc = "linked" =>
         /\ \E i \in DOMAIN cfg.urls : peer.url = cfg.urls[i]
         /\ Connects(peer.url, cfg, env, peer.server)

\* The rotation stays on the list.
LEMMA NextInRange ==
    ASSUME cfg \in Files, Valid(cfg, env), cursor \in DOMAIN cfg.urls
    PROVE  NextUrl \in DOMAIN cfg.urls
<1> DEFINE n == Len(cfg.urls)
<1>1. n \in Nat /\ n > 0 /\ DOMAIN cfg.urls = 1..n
  BY TrustAssumption DEF Valid
<1>2. cursor \in Nat /\ cursor % n \in 0..(n - 1)
  BY <1>1
<1> QED BY <1>1, <1>2 DEF NextUrl

\* Every step keeps it: whoever changes cfg or env has let go of the link.
LEMMA CheckedStep == Checked /\ [Next]_vars => Checked'
<1> SUFFICES ASSUME Checked, [Next]_vars PROVE Checked'
  OBVIOUS
<1>1. CASE Connect
  <2>1. Valid(file, env) => 1 \in DOMAIN file.urls
    BY TrustAssumption DEF Valid, Checked
  <2>2. cfg' = file /\ UNCHANGED <<file, env>> /\ cursor' = 1
    BY <1>1 DEF Connect
  <2>3. pc' # "linked" /\ (pc' = "running" => Valid(file, env))
    BY <1>1 DEF Connect
  <2> QED BY <2>1, <2>2, <2>3 DEF Checked
<1>2. CASE Authenticate
  <2>1. /\ pc = "running" /\ UNCHANGED <<file, env, cfg, cursor>>
        /\ peer' = [url |-> Current, server |-> at[Current]]
        /\ Connects(Current, cfg, env, at[Current])
    BY <1>2 DEF Authenticate
  <2> QED BY <2>1 DEF Checked, Current
<1>3. CASE AttemptFails \/ LinkEnds
  <2>1. NextUrl \in DOMAIN cfg.urls
    BY <1>3, NextInRange DEF AttemptFails, LinkEnds, Checked
  <2>2. pc \in {"running", "linked"} /\ UNCHANGED <<file, env, cfg>>
        /\ pc' = "running" /\ cursor' = NextUrl
    BY <1>3 DEF AttemptFails, LinkEnds
  <2> QED BY <2>1, <2>2 DEF Checked
<1>4. CASE Stop
  BY <1>4 DEF Stop, Checked
<1>5. CASE \/ Edit \/ UNCHANGED vars
           \/ \E url \in Urls, server \in Servers : LeadsTo(url, server)
  <2>1. file' \in Files /\ UNCHANGED <<env, pc, cfg, cursor, peer>>
    BY <1>5 DEF Edit, LeadsTo, vars, Checked
  <2>2. Valid(cfg, env)' = Valid(cfg, env)
    BY <2>1
  <2>3. Connects(peer.url, cfg, env, peer.server)'
          = Connects(peer.url, cfg, env, peer.server)
    BY <2>1
  <2> QED BY <2>1, <2>2, <2>3 DEF Checked
<1> QED BY <1>1, <1>2, <1>3, <1>4, <1>5 DEF Next

\* What the verifiers of the two modes that check anything have checked.
LEMMA AcceptsOf ==
    ASSUME NEW mode, NEW c, NEW server, Accepts(mode, c, server)
    PROVE  /\ mode = "standard" => server.chain /\ server.owns
           /\ mode = "pinned" =>
                server.chain /\ server.owns /\ server.leaf = c.pin.leaf
BY DEF Accepts

\* What the verifier accepts is what the property allows.
LEMMA CheckedSuffices == Checked => SecretOnlyToTrusted
<1> SUFFICES ASSUME Checked, pc = "linked" PROVE SecretOnlyToTrusted
  BY DEF SecretOnlyToTrusted
<1>1. Connects(peer.url, cfg, env, peer.server)
  BY DEF Checked
<1>2. CASE ~peer.url.wss
  <2>1. PICK i \in DOMAIN cfg.urls : peer.url = cfg.urls[i]
    BY DEF Checked
  <2>2. UrlPermitted(cfg.urls[i], cfg, env)
    BY <2>1 DEF Checked, Valid
  <2> QED BY <1>2, <2>1, <2>2 DEF UrlPermitted, SecretOnlyToTrusted
<1>3. CASE peer.url.wss
  <2>1. /\ Mode(cfg, env) \in {"standard", "pinned", "insecure"}
        /\ Accepts(Mode(cfg, env), cfg, peer.server)
    BY <1>1, <1>3 DEF Connects, Mode, InsecureMode
  <2>2. CASE Mode(cfg, env) = "standard"
    <3>1. peer.server.chain /\ peer.server.owns
      BY <2>1, <2>2, AcceptsOf
    <3>2. ~Pinned(cfg)
      BY <2>2 DEF Mode, InsecureMode
    <3> QED BY <1>3, <3>1, <3>2 DEF SecretOnlyToTrusted
  <2>3. CASE Mode(cfg, env) = "pinned"
    BY <1>3, <2>1, <2>3, AcceptsOf DEF SecretOnlyToTrusted
  <2>4. CASE Mode(cfg, env) = "insecure"
    BY <2>4 DEF Mode, InsecureMode, Pinned, SecretOnlyToTrusted
  <2> QED BY <2>1, <2>2, <2>3, <2>4
<1> QED BY <1>2, <1>3

\* Whatever URLs, servers and configurations there are, however they are edited
\* and exchanged: the secret the auth frame holds is shown only to a server that
\* the mode built from the configuration and the environment accepts.
THEOREM SecretStaysWithTrusted == Spec => []SecretOnlyToTrusted
<1>1. Init => Checked
  BY DEF Init, Checked
<1> QED BY <1>1, CheckedStep, CheckedSuffices, PTL DEF Spec
=============================================================================

------------------------------ MODULE LinkTrust ------------------------------
(***************************************************************************)
(* Whom the gateway shows its secret: what GatewayConfig::validate lets    *)
(* start, the TLS mode each attempt of one_connection builds from the      *)
(* configuration and the environment, and what its certificate verifier    *)
(* makes of the server that answers (config.rs, tls.rs).  The operator     *)
(* edits the file and restarts the process; certificates are renewed and   *)
(* addresses come to lead elsewhere while the client runs.                 *)
(*                                                                         *)
(* What webpki establishes of a certificate is one bit (chain, name and    *)
(* expiry), and so is what the handshake signature does (the server holds  *)
(* the certificate's key).  Backoff, deadlines and what follows the auth   *)
(* frame are ReconnectLoop's subject.                                      *)
(*                                                                         *)
(* A definition directly above another and named after it with a suffix is *)
(* a plausible bug in the one below it; no specification uses it.          *)
(***************************************************************************)
EXTENDS Integers, Sequences

CONSTANTS
    Urls,     \* URLs: each a name, and whether its scheme is wss
    Files,    \* the configurations the operator may write
    Servers,  \* what may answer at an address
    Start     \* the server behind each URL at first

ASSUME TrustAssumption ==
    /\ \A f \in Files : f.urls \in Seq(Urls)
    /\ Start \in [Urls -> Servers]

VARIABLES
    file,     \* the configuration as the operator has it
    env,      \* the process environment: the two confirmations
    pc,       \* "stopped", "refused" by validate, "running", or "linked"
    cfg,      \* the client's own copy of the configuration
    cursor,   \* the URL tried next
    at,       \* the server an address leads to
    peer      \* whom the secret was shown to on the present connection

vars == <<file, env, pc, cfg, cursor, at, peer>>

Envs == [plaintext : BOOLEAN, insecure : BOOLEAN]

Nobody == [reached |-> FALSE, chain |-> FALSE, leaf |-> "none", owns |-> FALSE]
NoPeer == [url |-> "none", server |-> Nobody]

-----------------------------------------------------------------------------

MaxUrls == 16

\* validate: every URL is wss, or both keys to plaintext are turned.  It does not
\* look at the fingerprint.
UrlPermittedByEither(url, c, e) == url.wss \/ c.plaintext \/ e.plaintext
UrlPermitted(url, c, e) == url.wss \/ (c.plaintext /\ e.plaintext)

Valid(c, e) ==
    /\ Len(c.urls) \in 1..MaxUrls
    /\ \A i \in DOMAIN c.urls :
         /\ UrlPermitted(c.urls[i], c, e)
         /\ \A j \in 1..(i - 1) : c.urls[j] # c.urls[i]
    /\ c.id = c.secret /\ (c.id \/ c.token)
    /\ c.heartbeat \in 5..300

\* normalise_fingerprint takes a pin in either notation.
FingerprintReads(pin) == pin.form \in {"colons", "plain"}

\* build_insecure_config wants the environment's confirmation as well, and looks
\* it up at each attempt.
InsecureMode(e) == IF e.insecure THEN "insecure" ELSE "error"

\* build_tls_config.  A pin comes before accept_self_signed_cert; one of blanks
\* only is none.
PinnedIfThere(c) == c.pin.form # "none"
Pinned(c) == c.pin.form \notin {"none", "blank"}

Mode(c, e) ==
    IF Pinned(c) THEN IF FingerprintReads(c.pin) THEN "pinned" ELSE "error"
    ELSE IF c.selfSigned THEN InsecureMode(e)
    ELSE "standard"

\* The verifiers.  PinnedCertVerifier leaves the chain and the handshake
\* signature to webpki and adds the fingerprint, in either notation.
AcceptsUnsigned(mode, c, server) ==
    CASE mode = "standard" -> server.chain /\ server.owns
      [] mode = "pinned" -> server.chain /\ server.leaf = c.pin.leaf
      [] mode = "insecure" -> TRUE
      [] mode = "error" -> FALSE
Accepts(mode, c, server) ==
    CASE mode = "standard" -> server.chain /\ server.owns
      [] mode = "pinned" -> /\ server.chain /\ server.owns
                            /\ server.leaf = c.pin.leaf
      [] mode = "insecure" -> TRUE
      [] mode = "error" -> FALSE

\* Without a TLS configuration not even a plaintext URL is dialled; with one, it
\* is not used there.
Connects(url, c, e, server) ==
    /\ Mode(c, e) # "error" /\ server.reached
    /\ url.wss => Accepts(Mode(c, e), c, server)

-----------------------------------------------------------------------------

Init ==
    /\ file \in Files /\ env \in Envs
    /\ pc = "stopped" /\ cfg = file /\ cursor = 1
    /\ at = Start /\ peer = NoPeer

\* GatewayClient::connect takes the configuration over, or refuses it.
Connect ==
    /\ pc = "stopped"
    /\ pc' = IF Valid(file, env) THEN "running" ELSE "refused"
    /\ cfg' = file /\ cursor' = 1
    /\ UNCHANGED <<file, env, at, peer>>

Current == cfg.urls[cursor]
NextUrl == (cursor % Len(cfg.urls)) + 1

\* one_connection up to the auth frame, which holds the secret or the token.
Authenticate ==
    /\ pc = "running"
    /\ Connects(Current, cfg, env, at[Current])
    /\ pc' = "linked" /\ peer' = [url |-> Current, server |-> at[Current]]
    /\ UNCHANGED <<file, env, cfg, cursor, at>>

\* A configuration that cannot be built, a server that is not there and one that
\* is not accepted are one error to run: it goes on to the next URL.
AttemptFailsStaysPut ==
    /\ pc = "running"
    /\ ~Connects(Current, cfg, env, at[Current])
    /\ UNCHANGED vars
AttemptFails ==
    /\ pc = "running"
    /\ ~Connects(Current, cfg, env, at[Current])
    /\ cursor' = NextUrl
    /\ UNCHANGED <<file, env, pc, cfg, at, peer>>

LinkEnds ==
    /\ pc = "linked"
    /\ pc' = "running" /\ peer' = NoPeer /\ cursor' = NextUrl
    /\ UNCHANGED <<file, env, cfg, at>>

\* The operator, and the world.
Edit ==
    /\ file' \in Files
    /\ UNCHANGED <<env, pc, cfg, cursor, at, peer>>

Stop ==
    /\ pc # "stopped"
    /\ pc' = "stopped" /\ env' \in Envs /\ peer' = NoPeer
    /\ UNCHANGED <<file, cfg, cursor, at>>

LeadsTo(url, server) ==
    /\ at' = [at EXCEPT ![url] = server]
    /\ UNCHANGED <<file, env, pc, cfg, cursor, peer>>

Next ==
    \/ Connect \/ Authenticate \/ AttemptFails \/ LinkEnds \/ Edit \/ Stop
    \/ \E url \in Urls, server \in Servers : LeadsTo(url, server)

Spec == Init /\ [][Next]_vars

\* Every attempt and every backoff is bounded by a timer (ReconnectLoop).
FairSpec == Spec /\ WF_vars(Authenticate \/ AttemptFails)

-----------------------------------------------------------------------------
(* Properties.                                                              *)

\* The secret goes to a server whose certificate holds, that has its key and
\* that the pin names if there is one; anything less was agreed to twice, in the
\* configuration the client started with and in the environment, and never for
\* a TLS connection with a pin.  So it stays while files are edited, processes
\* restarted and certificates exchanged.
SecretOnlyToTrusted ==
    pc = "linked" =>
      \/ /\ peer.url.wss /\ peer.server.chain /\ peer.server.owns
         /\ Pinned(cfg) => peer.server.leaf = cfg.pin.leaf
      \/ ~peer.url.wss /\ cfg.plaintext /\ env.plaintext
      \/ cfg.selfSigned /\ env.insecure /\ cfg.pin.form \in {"none", "blank"}

\* The server a URL leads to is one the running client was configured for.
Meant(url) ==
    /\ pc \in {"running", "linked"}
    /\ \E i \in DOMAIN cfg.urls : cfg.urls[i] = url
    /\ at[url].chain /\ at[url].owns
    /\ \/ FingerprintReads(cfg.pin) /\ cfg.pin.leaf = at[url].leaf
       \/ cfg.pin.form \in {"none", "blank"} /\ ~cfg.selfSigned

\* One URL that keeps leading to such a server is enough: neither a blank pin nor
\* servers behind the other URLs that are not accepted, as when one pin is set
\* for several managers, keep the gateway from it.
TrustedReached ==
    \A url \in Urls : <>[]Meant(url) => []<>(pc = "linked")
=============================================================================

---------------------------- MODULE ReleaseCheck ----------------------------
(***************************************************************************)
(* What stands between a release on the network and the disk: the version  *)
(* window (manifest.rs), the Sigstore checks of a manifest and its bundle  *)
(* (verify.rs), the identity allowlist (trust.rs), the checks of the       *)
(* manifest's contents, and where a download may be redirected to.  All of *)
(* it is without state; ReleaseStage is what calls it.                     *)
(*                                                                         *)
(* Cryptography is what it establishes: a signature is a key and what that *)
(* key signed, and verifies under that key over just that; a hash is what  *)
(* was hashed.  A string that is only compared is a value, one of which a  *)
(* part counts is a sequence of parts, and an absent string is the empty   *)
(* one (der_utf8 and raw_utf8 read an empty claim as none).                *)
(***************************************************************************)
EXTENDS Integers, Sequences, SequencesExt

CONSTANTS
    Manifests,   \* what a manifest.json may hold
    Bundles,     \* what a manifest.sig.bundle may hold
    Runs,        \* the workflow runs Fulcio issued a certificate to
    Signed,      \* pairs of a run and a manifest it signed
    Logged,      \* the entries Rekor logged
    Trusted,     \* keys of the Fulcio CAs in the trust root
    RekorKeys,   \* Rekor's keys in the trust root
    Signers,     \* UpgradeProfile.allowed_signers
    DeviceType,  \* UpgradeProfile.device_type
    Installer,   \* the release the installer put there
    Callers,     \* whoever may call stage
    Requests,    \* what they may ask for
    Configs,     \* upgrade policies
    Width        \* bound: minor versions are integers modulo this

Nobody == "nobody"
NoVersion == <<>>       \* a string that is not semver
NoState == -1           \* no sequence: state.json is missing or unreadable
NoRequest == [version |-> NoVersion, channel |-> "", arch |-> "", variant |-> ""]
NoConfig == [enabled |-> FALSE, manual |-> FALSE, channels |-> {},
             min |-> <<>>, grace |-> 0]

-----------------------------------------------------------------------------
(* Versions: triples; the pre-release and build parts are left out.         *)

VersionLess(a, b) ==
    \E i \in 1..3 : a[i] < b[i] /\ \A j \in 1..(i - 1) : a[j] = b[j]

\* check_version_window.  A min_version that does not parse refuses everything.
\* min is none (no min_version) or one element.
InVersionWindow(target, current, cfg) ==
    /\ \A i \in DOMAIN cfg.min : /\ cfg.min[i] # NoVersion
                                 /\ ~VersionLess(target, cfg.min[i])
    /\ target # current
    /\ target[1] = current[1]
    /\ ~((target[2] + cfg.grace) % Width < current[2])

-----------------------------------------------------------------------------
(* URLs: a scheme, the labels of the host, and whether it is overlong.      *)

GitHub == <<"github", "com">>
Cdn == <<"githubusercontent", "com">>
AllowedUrlHosts ==
    {GitHub, <<"release-assets">> \o Cdn, <<"objects">> \o Cdn}

UrlAllowed(url) ==
    url.scheme = "https" /\ url.host \in AllowedUrlHosts /\ ~url.overlong

RedirectHostAllowed(host) == host = GitHub \/ IsSuffix(Cdn, host)

\* The policy's previous() counts the URL first asked for.
MaxHops == 4
RedirectsFollowed(chain) ==
    /\ Len(chain) <= MaxHops
    /\ \A i \in DOMAIN chain :
         chain[i].scheme = "https" /\ RedirectHostAllowed(chain[i].host)

-----------------------------------------------------------------------------
(* Certificates.                                                            *)

GitHubPrefix == "https://github.com/"
AtGitHub(repo) == <<GitHubPrefix>> \o repo

\* The certificate Fulcio issues to a run: each claim in a current extension,
\* a deprecated one, or both; the repository differs between the two.  The
\* subject's URI is the workflow's path, which holds no @, and after an @ the
\* ref.
CertOf(run) ==
    LET new(s) == IF run.form = "deprecated" THEN <<>> ELSE s
        old(s) == IF run.form = "current" THEN <<>> ELSE s
    IN  [by |-> run.ca, key |-> run.key, from |-> run.from, until |-> run.until,
         path |-> run.path,
         issuer |-> new(run.issuer), issuerV1 |-> old(run.issuer),
         repo |-> new(AtGitHub(run.repo)), repoV1 |-> old(run.repo),
         ref |-> new(run.ref), refV1 |-> old(run.ref)]

\* pem_to_der, none or one certificate: cosign writes the base64 of a PEM
\* block; a PEM block is taken too.  A corrupt block is not tried as base64.
Encodings == {"pem", "base64 of pem"}
PemToDerRawOnly(field) == IF field.form = "pem" THEN <<field.der>> ELSE <<>>
PemToDer(field) == IF field.form \in Encodings THEN <<field.der>> ELSE <<>>

\* extract_identity_claims
Or(a, b) == IF a # <<>> THEN a ELSE b

IdentityOfBareRepo(cert) ==
    [issuer |-> Or(cert.issuer, cert.issuerV1),
     repo |-> Or(cert.repoV1, cert.repo),
     path |-> cert.path,
     ref |-> Or(cert.ref, cert.refV1)]
IdentityOf(cert) ==
    [issuer |-> Or(cert.issuer, cert.issuerV1),
     repo |-> Or(cert.repo,
                 IF cert.repoV1 = <<>> THEN <<>> ELSE AtGitHub(cert.repoV1)),
     path |-> cert.path,
     ref |-> Or(cert.ref, cert.refV1)]

RefMatches(signer, ref) ==
    IF signer.star THEN IsPrefix(signer.pattern, ref) ELSE ref = signer.pattern

\* identity_matches_allowlist: all four claims are there and match.  The path
\* must end where the subject's @ begins.
IdentityAllowedByPrefix(id) ==
    \E s \in Signers :
      /\ id.issuer = s.issuer /\ id.repo = s.repo
      /\ IsPrefix(s.workflow, id.path)
      /\ RefMatches(s, id.ref)
IdentityAllowed(id) ==
    \E s \in Signers :
      /\ id.issuer # <<>> /\ id.repo # <<>> /\ id.path # <<>> /\ id.ref # <<>>
      /\ id.issuer = s.issuer /\ id.repo = s.repo
      /\ id.path = s.workflow
      /\ RefMatches(s, id.ref)

-----------------------------------------------------------------------------
(* The bundle.  A complete one parses and has a certificate and a signature; *)
(* its Rekor part is none or one element.                                   *)

Verifies(sig, key, over) == sig = [key |-> key, over |-> over]

VerifyCertChain(cert) == cert.by \in Trusted

VerifyValidityWindow(cert, time) == cert.from <= time /\ time <= cert.until

VerifyRekorBodyBindingHashOnly(entry, m, cert) == entry.hash = m
VerifyRekorBodyBinding(entry, m, cert) ==
    entry.hash = m /\ PemToDer(entry.cert) = <<cert>>

VerifyRekorSet(rekor) ==
    \E k \in RekorKeys : Verifies(rekor.set, k, rekor.entry)

CertIn(bundle) == PemToDer(bundle.cert)[1]
EntryIn(bundle) == bundle.rekor[1].entry

\* verify_cert_and_rekor: the first check that fails, in the order made.  roots:
\* the trust root could be loaded.
VerifyCertAndRekor(m, bundle, roots) ==
    IF ~roots THEN "roots"
    ELSE IF bundle.rekor = <<>> THEN "rekor missing"
    ELSE IF PemToDer(bundle.cert) = <<>> THEN "certificate"
    ELSE IF ~VerifyCertChain(CertIn(bundle)) THEN "chain"
    ELSE IF ~VerifyValidityWindow(CertIn(bundle), EntryIn(bundle).time)
      THEN "window"
    ELSE IF ~VerifyRekorBodyBinding(EntryIn(bundle), m, CertIn(bundle))
      THEN "rekor body"
    ELSE IF ~VerifyRekorSet(bundle.rekor[1]) THEN "rekor set"
    ELSE "none"

\* verify_manifest_bundle, likewise.
VerifyFault(m, bundle, roots) ==
    LET inner == VerifyCertAndRekor(m, bundle, roots)
    IN  IF Signers = {} THEN "no signers"
        ELSE IF ~bundle.complete THEN "bundle"
        ELSE IF inner # "none" THEN inner
        ELSE IF ~IdentityAllowed(IdentityOf(CertIn(bundle))) THEN "identity"
        ELSE IF ~Verifies(bundle.sig, CertIn(bundle).key, m) THEN "signature"
        ELSE "none"

\* map_verify_error looks for "identity", then "rekor", in the outermost
\* message of the chain.  For a fault of the certificate or of Rekor that is
\* "Sigstore Fulcio + Rekor verification failed", which holds neither.
MapVerifyError(fault) ==
    IF fault \in {"no signers", "identity"}
      THEN "upgrade_identity_not_allowed" ELSE "upgrade_signature_invalid"

-----------------------------------------------------------------------------
(* The manifest's contents.                                                 *)

\* validate_request
ValidateRequest(m, req) ==
    /\ m.version = req.version
    /\ m.channel = req.channel
    /\ m.device = DeviceType
    /\ m.artefacts # <<>>
    /\ \A i \in DOMAIN m.artefacts :
         UrlAllowed(m.artefacts[i].url) /\ m.artefacts[i].wellFormed

\* pick_artefact takes the first of these, if there is one.
Targets(m, req) ==
    {i \in DOMAIN m.artefacts :
       /\ m.artefacts[i].arch = req.arch
       /\ m.artefacts[i].variant = req.variant}

-----------------------------------------------------------------------------
(* What the checks are for: a manifest that a run of an allowed workflow    *)
(* signed, with the signing logged while the run's certificate was valid.   *)

AllowedRun(run) ==
    /\ run.ca \in Trusted
    /\ \E s \in Signers :
         /\ run.issuer = s.issuer /\ AtGitHub(run.repo) = s.repo
         /\ run.path = s.workflow /\ RefMatches(s, run.ref)

\* The bundle cosign writes for a manifest, in any form it may come in.
GenuineFor(m, bundle) ==
    /\ bundle.complete
    /\ \E run \in Runs, entry \in Logged, k \in RekorKeys :
         /\ AllowedRun(run) /\ <<run, m>> \in Signed
         /\ Verifies(bundle.sig, run.key, m)
         /\ bundle.rekor # <<>> /\ EntryIn(bundle) = entry
         /\ Verifies(bundle.rekor[1].set, k, entry)
         /\ entry.hash = m
         /\ run.from <= entry.time /\ entry.time <= run.until
         /\ \A field \in {bundle.cert, entry.cert} :
              field.form \in Encodings /\ field.der = CertOf(run)

\* The manifests such a run signed and Rekor has a timely entry of.
Endorsed ==
    {m \in Manifests :
       \E run \in Runs, entry \in Logged :
         /\ AllowedRun(run) /\ <<run, m>> \in Signed
         /\ entry.hash = m /\ entry.cert.der = CertOf(run)
         /\ run.from <= entry.time /\ entry.time <= run.until}

\* Nobody but their owners signs with Fulcio's, Rekor's or a run's key.
CryptographyHolds ==
    \A b \in Bundles :
      /\ b.cert.der.by \in Trusted => \E run \in Runs : b.cert.der = CertOf(run)
      /\ \A run \in Runs : b.sig.key = run.key => <<run, b.sig.over>> \in Signed
      /\ b.rekor # <<>> /\ b.rekor[1].set.key \in RekorKeys
           => b.rekor[1].set.over \in Logged

\* No part of a run's identity is empty.
RunAssumption ==
    \A r \in Runs :
      /\ r.issuer # <<>> /\ r.path # <<>> /\ r.ref # <<>>
      /\ r.repo # <<>> /\ r.repo \in Seq(STRING)

ASSUME ReleaseAssumption ==
    /\ CryptographyHolds /\ RunAssumption
    /\ \A m \in Manifests : m.sequence \in Nat
    /\ Width \in Nat \ {0}
=============================================================================

--------------------------- MODULE MCReleaseStage ---------------------------
(***************************************************************************)
(* ReleaseStage with a handful of releases and of workflow runs.  What is  *)
(* served for a bundle is a run's own, whole or damaged, or one with a     *)
(* part of another run's in it, as when the assets of two releases have    *)
(* been mixed up.                                                          *)
(***************************************************************************)
EXTENDS ReleaseStage

MCTrusted == {"fulcio"}
MCRekorKeys == {"rekor"}

Issuer == <<"https://token.actions.githubusercontent.com">>
Repo == <<"vendor/gateway">>
Workflow == <<"vendor/gateway/.github/workflows/nightly-release.yml">>
TagRef == <<"refs/tags/v", "1.2.0">>

MCSigners ==
    {[issuer |-> Issuer, repo |-> AtGitHub(Repo), workflow |-> Workflow,
      pattern |-> <<"refs/tags/v">>, star |-> TRUE]}

-----------------------------------------------------------------------------
(* Releases.  Version 1.1.0 is installed.                                   *)

Url(host) == [scheme |-> "https", host |-> host, overlong |-> FALSE]

Artefact(arch, host) ==
    [arch |-> arch, variant |-> "default", url |-> Url(host), wellFormed |-> TRUE]

Release(version, sequence) ==
    [json |-> TRUE, version |-> version, channel |-> "stable",
     device |-> "gateway", sequence |-> sequence,
     artefacts |-> <<Artefact("x86_64", GitHub)>>]

MCInstaller == Release(<<1, 1, 0>>, 0)
Next1 == Release(<<1, 2, 0>>, 2)
Next2 == Release(<<1, 3, 0>>, 3)
\* 1.2.0 built again with the sequence of an older one.
Rebuilt == [Release(<<1, 2, 0>>, 1) EXCEPT !.artefacts =
              <<Artefact("aarch64", GitHub), Artefact("x86_64", Cdn)>>]
OtherDevice == [Release(<<1, 2, 0>>, 4) EXCEPT !.device = "edge"]

MCManifests == {Next1, Next2, Rebuilt, OtherDevice}

Ask(version, arch) ==
    [version |-> version, channel |-> "stable", arch |-> arch,
     variant |-> "default"]

\* One that overflows a minor version is too old for the window.
MCRequests ==
    {Ask(<<1, 2, 0>>, "x86_64"), Ask(<<1, 3, 0>>, "x86_64"),
     Ask(<<1, 2, 0>>, "arm"), Ask(<<1, 7, 0>>, "x86_64"), Ask(NoVersion, "x86_64")}
MCWidth == 8

Policy(enabled, manual) ==
    [enabled |-> enabled, manual |-> manual, channels |-> {"stable"},
     min |-> <<<<1, 1, 0>>>>, grace |-> 1]
MCConfigs == {Policy(TRUE, FALSE), Policy(FALSE, FALSE), Policy(TRUE, TRUE)}

MCChains ==
    {<<Url(<<"some-cdn">> \o Cdn)>>, <<Url(<<"mirror", "net">>)>>}

-----------------------------------------------------------------------------
(* Runs: one per form of certificate, and others that must not pass: a      *)
(* second workflow whose file name starts alike, a branch build, the same   *)
(* workflow in a sibling repository, a certificate of another CA, and a     *)
(* signing that was logged after the certificate had run out.               *)

Run(key, form) ==
    [key |-> key, form |-> form, ca |-> "fulcio", from |-> 10, until |-> 20,
     issuer |-> Issuer, repo |-> Repo, path |-> Workflow, ref |-> TagRef]

Current == Run("k1", "current")
Deprecated == Run("k2", "deprecated")
Both == Run("k3", "both")
SecondWorkflow == [Run("k4", "both") EXCEPT !.path = Workflow \o <<".old.yml">>]
BranchBuild == [Run("k5", "current") EXCEPT !.ref = <<"refs/heads/main">>]
Sibling == [Run("k6", "deprecated") EXCEPT !.repo = <<"vendor/edge">>]
OtherCa == [Run("k7", "both") EXCEPT !.ca = "staging"]
Late == Run("k8", "both")

MCRuns == {Current, Deprecated, Both, SecondWorkflow, BranchBuild, Sibling,
           OtherCa, Late}

ManifestOf(run) ==
    CASE run \in {Current, SecondWorkflow} -> Next1
      [] run \in {Deprecated, BranchBuild, OtherCa} -> Next2
      [] run \in {Both, Late} -> Rebuilt
      [] run = Sibling -> OtherDevice

MCSigned ==
    {<<run, ManifestOf(run)>> : run \in MCRuns} \cup
      {<<Current, OtherDevice>>}

Entry(run, m) ==
    [hash |-> m,
     cert |-> [form |-> "base64 of pem", der |-> CertOf(run)],
     time |-> IF run = Late THEN run.until + 1 ELSE run.until]

MCLogged == {Entry(s[1], s[2]) : s \in MCSigned}

BundleOf(s) ==
    [complete |-> TRUE,
     cert |-> [form |-> "base64 of pem", der |-> CertOf(s[1])],
     sig |-> [key |-> s[1].key, over |-> s[2]],
     rekor |-> <<[entry |-> Entry(s[1], s[2]),
                  set |-> [key |-> "rekor", over |-> Entry(s[1], s[2])]]>>]

Whole == {BundleOf(s) : s \in MCSigned}

MCBundles ==
    UNION {
      Whole,
      {[b EXCEPT !.complete = FALSE] : b \in Whole},
      {[b EXCEPT !.cert.form = f] : b \in Whole, f \in {"pem", "corrupt"}},
      {[b EXCEPT !.cert = o.cert] : b, o \in Whole},
      {[b EXCEPT !.sig = o.sig] : b, o \in Whole},
      {[b EXCEPT !.cert = o.cert, !.sig = o.sig] : b, o \in Whole},
      {[b EXCEPT !.rekor = <<>>] : b \in Whole},
      {[b EXCEPT !.rekor = o.rekor] : b, o \in Whole},
      {[b EXCEPT !.rekor[1].entry = o.rekor[1].entry] : b, o \in Whole},
      {[b EXCEPT !.rekor[1].entry.time = @ - 1] : b \in Whole},
      {[b EXCEPT !.rekor[1].set.key = "another log"] : b \in Whole}}
=============================================================================

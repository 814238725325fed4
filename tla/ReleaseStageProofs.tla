------------------------- MODULE ReleaseStageProofs -------------------------
(***************************************************************************)
(* Proofs about ReleaseStage for any releases, bundles, workflow runs,     *)
(* policies and callers: what verify_manifest_bundle accepts is what it    *)
(* should, no variable leaves its type, and the coordinator implements     *)
(* UpgradeGate.                                                            *)
(***************************************************************************)
EXTENDS ReleaseStage, TLAPS

-----------------------------------------------------------------------------
(* The verdict on a bundle.                                                 *)

\* The identity is read whole from a certificate of any form.
LEMMA IdentityRead ==
    ASSUME NEW run \in Runs
    PROVE  IdentityOf(CertOf(run)) =
             [issuer |-> run.issuer, repo |-> AtGitHub(run.repo),
              path |-> run.path, ref |-> run.ref]
<1>1. run.repo # <<>>
  BY ReleaseAssumption DEF RunAssumption
<1>2. CASE run.form = "deprecated"
  BY <1>1, <1>2 DEF IdentityOf, CertOf, Or
<1>3. CASE run.form = "current"
  BY <1>1, <1>3 DEF IdentityOf, CertOf, Or
<1>4. CASE run.form \notin {"deprecated", "current"}
  BY <1>1, <1>4 DEF IdentityOf, CertOf, Or
<1> QED BY <1>2, <1>3, <1>4

\* The allowlist lets through the identities of allowed workflows and no other.
LEMMA AllowlistExact ==
    ASSUME NEW run \in Runs
    PROVE  IdentityAllowed(IdentityOf(CertOf(run))) /\ run.ca \in Trusted
             <=> AllowedRun(run)
<1>1. /\ run.issuer # <<>> /\ run.path # <<>> /\ run.ref # <<>>
      /\ run.repo \in Seq(STRING)
  BY ReleaseAssumption DEF RunAssumption
<1>2. AtGitHub(run.repo) # <<>>
  BY <1>1 DEF AtGitHub, GitHubPrefix
<1> QED BY <1>1, <1>2, IdentityRead DEF IdentityAllowed, AllowedRun

\* What an accepted bundle is made of.
LEMMA Accepted ==
    ASSUME NEW m, NEW b, NEW roots, VerifyFault(m, b, roots) = "none"
    PROVE  /\ b.complete /\ b.rekor # <<>>
           /\ PemToDer(b.cert) # <<>> /\ CertIn(b).by \in Trusted
           /\ VerifyValidityWindow(CertIn(b), EntryIn(b).time)
           /\ VerifyRekorBodyBinding(EntryIn(b), m, CertIn(b))
           /\ VerifyRekorSet(b.rekor[1])
           /\ IdentityAllowed(IdentityOf(CertIn(b)))
           /\ Verifies(b.sig, CertIn(b).key, m)
BY DEF VerifyFault, VerifyCertAndRekor, VerifyCertChain

\* A certificate is read from both encodings, and from no other.
LEMMA CertRead ==
    ASSUME NEW field, PemToDer(field) # <<>>
    PROVE  field.form \in Encodings /\ PemToDer(field) = <<field.der>>
BY DEF PemToDer

\* No mix-up of parts passes.
LEMMA AcceptedIsGenuine ==
    ASSUME NEW m, NEW b \in Bundles, NEW roots,
           VerifyFault(m, b, roots) = "none"
    PROVE  GenuineFor(m, b)
<1> DEFINE entry == EntryIn(b)
           set == b.rekor[1].set
<1>1. CertIn(b) = b.cert.der /\ b.cert.form \in Encodings
  BY Accepted, CertRead DEF CertIn
<1>2. PICK run \in Runs : b.cert.der = CertOf(run)
  BY <1>1, Accepted, ReleaseAssumption DEF CryptographyHolds
<1>3. /\ CertOf(run).by = run.ca /\ CertOf(run).key = run.key
      /\ CertOf(run).from = run.from /\ CertOf(run).until = run.until
  BY DEF CertOf
<1>4. AllowedRun(run)
  BY <1>1, <1>2, <1>3, Accepted, AllowlistExact
<1>5. Verifies(b.sig, run.key, m) /\ <<run, m>> \in Signed
  <2>1. Verifies(b.sig, run.key, m)
    BY <1>1, <1>2, <1>3, Accepted
  <2>2. b.sig.key = run.key /\ b.sig.over = m
    BY <2>1 DEF Verifies
  <2> QED BY <2>1, <2>2, ReleaseAssumption DEF CryptographyHolds
<1>6. PICK k \in RekorKeys : Verifies(set, k, entry)
  BY Accepted DEF VerifyRekorSet, EntryIn
<1>7. entry \in Logged
  <2>1. set.key \in RekorKeys /\ set.over = entry
    BY <1>6 DEF Verifies
  <2> QED BY <2>1, Accepted, ReleaseAssumption DEF CryptographyHolds
<1>8. /\ entry.hash = m /\ entry.cert.form \in Encodings
      /\ entry.cert.der = CertOf(run)
  <2>1. entry.hash = m /\ PemToDer(entry.cert) = <<CertOf(run)>>
    BY <1>1, <1>2, Accepted DEF VerifyRekorBodyBinding
  <2>2. PemToDer(entry.cert) # <<>>
    BY <2>1
  <2>3. entry.cert.form \in Encodings /\ <<entry.cert.der>> = <<CertOf(run)>>
    BY <2>1, <2>2, CertRead
  <2> QED BY <2>1, <2>3
<1>9. run.from <= entry.time /\ entry.time <= run.until
  BY <1>1, <1>2, <1>3, Accepted DEF VerifyValidityWindow
<1>10. b.complete /\ b.rekor # <<>>
  BY Accepted
<1> QED BY <1>1, <1>2, <1>4, <1>5, <1>6, <1>7, <1>8, <1>9, <1>10 DEF GenuineFor

\* No genuine release is turned away.
LEMMA GenuineIsAccepted ==
    ASSUME NEW m, NEW b \in Bundles, GenuineFor(m, b)
    PROVE  VerifyFault(m, b, TRUE) = "none"
<1>1. PICK run \in Runs, entry \in Logged, k \in RekorKeys :
        /\ AllowedRun(run)
        /\ Verifies(b.sig, run.key, m)
        /\ b.rekor # <<>> /\ EntryIn(b) = entry
        /\ Verifies(b.rekor[1].set, k, entry)
        /\ entry.hash = m
        /\ run.from <= entry.time /\ entry.time <= run.until
        /\ \A field \in {b.cert, entry.cert} :
             field.form \in Encodings /\ field.der = CertOf(run)
  BY DEF GenuineFor
<1>2. /\ PemToDer(b.cert) = <<CertOf(run)>>
      /\ PemToDer(entry.cert) = <<CertOf(run)>>
  BY <1>1 DEF PemToDer
<1>3. CertIn(b) = CertOf(run) /\ PemToDer(b.cert) # <<>>
  BY <1>2 DEF CertIn
<1>4. /\ CertOf(run).by = run.ca /\ CertOf(run).key = run.key
      /\ CertOf(run).from = run.from /\ CertOf(run).until = run.until
  BY DEF CertOf
<1>5. Signers # {} /\ VerifyCertChain(CertIn(b))
  BY <1>1, <1>3, <1>4 DEF AllowedRun, VerifyCertChain
<1>6. VerifyValidityWindow(CertIn(b), EntryIn(b).time)
  BY <1>1, <1>3, <1>4 DEF VerifyValidityWindow
<1>7. VerifyRekorBodyBinding(EntryIn(b), m, CertIn(b))
  BY <1>1, <1>2, <1>3 DEF VerifyRekorBodyBinding
<1>8. VerifyRekorSet(b.rekor[1])
  BY <1>1 DEF VerifyRekorSet, EntryIn
<1>9. IdentityAllowed(IdentityOf(CertIn(b)))
  BY <1>1, <1>3, AllowlistExact
<1>10. Verifies(b.sig, CertIn(b).key, m)
  BY <1>1, <1>3, <1>4
<1>11. b.complete /\ b.rekor # <<>>
  BY <1>1 DEF GenuineFor
<1> QED
  BY <1>3, <1>5, <1>6, <1>7, <1>8, <1>9, <1>10, <1>11
  DEF VerifyFault, VerifyCertAndRekor

\* So every manifest is judged rightly.
LEMMA JudgedRight == RightlyJudged = Manifests
BY AcceptedIsGenuine, GenuineIsAccepted DEF RightlyJudged

\* A genuine bundle stands for an endorsed manifest.
LEMMA GenuineEndorsed ==
    ASSUME NEW m \in Manifests, NEW b, GenuineFor(m, b)
    PROVE  m \in Endorsed
BY DEF GenuineFor, Endorsed

-----------------------------------------------------------------------------
(* What stage has established at each place in it.                          *)

Established ==
    /\ pc \notin {"idle", "policy", "announce", "manifest"}
         => manifest \in Manifests
    /\ pc \in {"tarball", "downloaded", "apply"}
         => /\ manifest \in Endorsed /\ Newer(manifest)
            /\ ValidateRequest(manifest, request)
            /\ Targets(manifest, request) # {}
    /\ pc = "apply" => ~snap.manual
    /\ pc \in {"record", "report"} => linked = manifest

Held ==
    /\ (holder = Nobody) = (pc = "idle") /\ holder \in Callers \cup {Nobody}
    /\ pc \in {"idle", "policy", "announce", "manifest", "bundle", "tarball",
               "downloaded", "apply", "record", "report"}

StageInv == Established /\ Held

\* Nothing is under way at first.
LEMMA InitStage == Init => StageInv
BY DEF Init, StageInv, Established, Held

\* Nothing is left to establish once stage has returned.
LEMMA IdleStage == Idle => StageInv'
BY DEF Idle, StageInv, Established, Held

\* A verdict is that on some bundle under some trust root.
LEMMA VerdictFromBundle ==
    ASSUME NEW m \in Manifests, NEW fault,
           fault \in {v[2] : v \in {w \in Verdicts : w[1] = m}}
    PROVE  \E b \in Bundles, roots \in BOOLEAN :
             fault = VerifyFault(m, b, roots)
BY DEF Verdicts

\* A manifest with a bundle that passes is endorsed.
LEMMA PassedEndorsed ==
    ASSUME NEW m \in Manifests,
           "none" \in {v[2] : v \in {w \in Verdicts : w[1] = m}}
    PROVE  m \in Endorsed
<1>1. PICK b \in Bundles, roots \in BOOLEAN : VerifyFault(m, b, roots) = "none"
  BY VerdictFromBundle
<1>2. GenuineFor(m, b)
  BY <1>1, AcceptedIsGenuine
<1> QED BY <1>2, GenuineEndorsed

\* Every step establishes what the next place relies on.
LEMMA StageStep == StageInv /\ [Next]_vars => StageInv'
<1> SUFFICES ASSUME StageInv, [Next]_vars PROVE StageInv'
  OBVIOUS
<1> USE DEF StageInv
<1>1. ASSUME NEW c \in Callers, NEW q \in Requests, Call(c, q)
      PROVE  StageInv'
  BY <1>1, StageAssumption DEF Call, Established, Held, diskVars, Newer
<1>2. CASE ReadPolicy
  BY <1>2, IdleStage
  DEF ReadPolicy, Return, GoTo, Established, Held, diskVars, Newer
<1>3. CASE Announce
  BY <1>3 DEF Announce, GoTo, Established, Held, diskVars, Newer
<1>4. ASSUME NEW o \in Outcomes, FetchAgain(o) \/ FetchFails(o)
      PROVE  StageInv'
  BY <1>4, IdleStage
  DEF FetchAgain, FetchFails, Return, Established, Held, diskVars, Newer
<1>5. ASSUME NEW o \in Outcomes, NEW m \in Manifests, ManifestArrives(o, m)
      PROVE  StageInv'
  BY <1>5 DEF ManifestArrives, GoTo, Established, Held, diskVars, Newer
<1>6. ASSUME NEW o \in Outcomes, BundleArrives(o) PROVE StageInv'
  <2>1. PICK fault \in {v[2] : v \in {w \in Verdicts : w[1] = manifest}} :
          \/ fault # "none" /\ Return(MapVerifyError(fault))
          \/ /\ fault = "none"
             /\ \/ /\ ManifestCode(manifest) = "ok"
                   /\ attempt' = 0 /\ GoTo("tarball")
                   /\ UNCHANGED <<snap, manifest>>
                \/ /\ ManifestCode(manifest) # "ok"
                   /\ Return(ManifestCode(manifest))
    BY <1>6 DEF BundleArrives
  <2>2. CASE Idle
    BY <2>2, IdleStage
  <2>3. CASE fault = "none" /\ ManifestCode(manifest) = "ok" /\ GoTo("tarball")
             /\ UNCHANGED <<snap, manifest>>
    <3>1. manifest \in Manifests
      BY <1>6 DEF BundleArrives, Established
    <3>2. manifest \in Endorsed
      BY <2>1, <2>3, <3>1, PassedEndorsed
    <3>3. /\ ValidateRequest(manifest, request) /\ Newer(manifest)
          /\ Targets(manifest, request) # {}
      BY <2>3 DEF ManifestCode
    <3> QED
      BY <1>6, <2>3, <3>1, <3>2, <3>3
      DEF BundleArrives, GoTo, Established, Held, diskVars, Newer
  <2> QED BY <2>1, <2>2, <2>3 DEF Return
<1>7. ASSUME NEW o \in Outcomes, TarballArrives(o) PROVE StageInv'
  BY <1>7, IdleStage
  DEF TarballArrives, Return, GoTo, Established, Held, diskVars, Newer
<1>8. CASE Downloaded
  BY <1>8, IdleStage
  DEF Downloaded, Return, GoTo, Established, Held, diskVars, Newer
<1>9. CASE Apply \/ Record \/ Report
  BY <1>9, IdleStage
  DEF Apply, Record, Report, Return, GoTo, Established, Held, diskVars, Newer
<1>10. CASE Abandon \/ Restart
  BY <1>10, IdleStage DEF Abandon, Restart, Return
<1>11. CASE SetConfig \/ Forward \/ CloseEvents
  BY <1>11 DEF SetConfig, Forward, CloseEvents, stageVars, Established, Held,
               diskVars, Newer
<1>12. CASE UNCHANGED vars
  BY <1>12 DEF vars, stageVars, Established, Held, diskVars, Newer
<1> QED
  BY <1>1, <1>2, <1>3, <1>4, <1>5, <1>6, <1>7, <1>8, <1>9, <1>10, <1>11, <1>12
  DEF Next, StageNext

\* So it holds throughout.
LEMMA StageInvariant == Spec => []StageInv
BY InitStage, StageStep, PTL DEF Spec

\* verify_manifest_bundle accepts exactly the bundles an allowed workflow made
\* for the manifest at hand, for any runs, certificates and mix-ups of parts.
THEOREM VerdictAlwaysRight == Spec => []VerdictRight
<1>1. StageInv => VerdictRight
  BY JudgedRight DEF StageInv, Established, VerdictRight
<1> QED BY StageInvariant, <1>1, PTL

-----------------------------------------------------------------------------
(* Types.                                                                   *)

\* Whatever stage answers, it has a code of its own or says "staged" or "gone".
LEMMA IdleTyped ==
    ASSUME TypeOK, NEW code \in Codes \cup {"staged", "gone"}, Return(code)
    PROVE  /\ snap' \in Configs \cup {NoConfig}
           /\ manifest' \in Manifests \cup {NoManifest}
           /\ answer' \in
                [Callers -> Codes \cup {"none", "waiting", "staged", "gone",
                                        "upgrade_in_progress"}]
           /\ holder' \in Callers \cup {Nobody}
           /\ request' \in Requests \cup {NoRequest}
           /\ pc' = "idle" /\ attempt' = 0
BY DEF TypeOK, Return, Idle

\* Every step keeps the types.
LEMMA TypeStep == TypeOK /\ StageInv /\ [Next]_vars => TypeOK'
<1> SUFFICES ASSUME TypeOK, StageInv, [Next]_vars PROVE TypeOK'
  OBVIOUS
<1> USE DEF MaxAttempts
<1>0. EventRoom \in Nat \ {0} /\ MaxRestarts \in Nat
  BY StageAssumption
<1>1. ASSUME NEW c \in Callers, NEW q \in Requests, Call(c, q)
      PROVE  TypeOK'
  BY <1>1 DEF Call, TypeOK, diskVars
<1>2. CASE ReadPolicy
  <2> DEFINE code == PolicyCode(config, running, request)
  <2>1. CASE code = "ok" /\ snap' = config /\ GoTo("announce")
             /\ UNCHANGED <<manifest, attempt>>
    BY <1>2, <2>1 DEF ReadPolicy, GoTo, TypeOK, diskVars
  <2>2. CASE code # "ok" /\ Return(code)
    <3>1. code \in Codes
      BY <2>2 DEF PolicyCode, Codes
    <3> QED BY <1>2, <2>2, <3>1, IdleTyped DEF ReadPolicy, TypeOK, diskVars
  <2> QED BY <1>2, <2>1, <2>2 DEF ReadPolicy
<1>3. CASE Announce
  BY <1>0, <1>3 DEF Announce, SendEvent, GoTo, TypeOK, diskVars
<1>4. ASSUME NEW o \in Outcomes, FetchAgain(o) PROVE TypeOK'
  BY <1>4 DEF FetchAgain, TypeOK, diskVars
<1>5. ASSUME NEW o \in Outcomes, FetchFails(o) PROVE TypeOK'
  <2>1. "upgrade_network_error" \in Codes
    BY DEF Codes
  <2> QED BY <1>5, <2>1, IdleTyped DEF FetchFails, TypeOK, diskVars
<1>6. ASSUME NEW o \in Outcomes, NEW m \in Manifests, ManifestArrives(o, m)
      PROVE  TypeOK'
  BY <1>6 DEF ManifestArrives, GoTo, TypeOK, diskVars
<1>7. ASSUME NEW o \in Outcomes, BundleArrives(o) PROVE TypeOK'
  <2>1. PICK fault :
          \/ fault # "none" /\ Return(MapVerifyError(fault))
          \/ /\ attempt' = 0 /\ GoTo("tarball")
             /\ UNCHANGED <<snap, manifest>>
          \/ /\ ManifestCode(manifest) # "ok"
             /\ Return(ManifestCode(manifest))
    BY <1>7 DEF BundleArrives
  <2>2. MapVerifyError(fault) \in Codes
    BY DEF MapVerifyError, Codes
  <2>3. ManifestCode(manifest) # "ok" => ManifestCode(manifest) \in Codes
    BY DEF ManifestCode, Codes
  <2>4. UNCHANGED <<config, running, diskVars, events, listening, restarts>>
    BY <1>7 DEF BundleArrives
  <2>5. CASE attempt' = 0 /\ GoTo("tarball") /\ UNCHANGED <<snap, manifest>>
    BY <2>4, <2>5 DEF GoTo, TypeOK, diskVars
  <2>6. ASSUME NEW code \in Codes, Return(code) PROVE TypeOK'
    BY <2>4, <2>6, IdleTyped DEF TypeOK, diskVars
  <2> QED BY <2>1, <2>2, <2>3, <2>5, <2>6
<1>8. ASSUME NEW o \in Outcomes, TarballArrives(o) PROVE TypeOK'
  <2>1. "upgrade_checksum_mismatch" \in Codes
    BY DEF Codes
  <2>2. CASE Return("upgrade_checksum_mismatch")
    BY <1>8, <2>1, <2>2, IdleTyped DEF TarballArrives, TypeOK, diskVars
  <2>3. CASE attempt' = 0 /\ GoTo("downloaded") /\ UNCHANGED <<snap, manifest>>
    BY <1>8, <2>3 DEF TarballArrives, GoTo, TypeOK, diskVars
  <2> QED BY <1>8, <2>2, <2>3 DEF TarballArrives
<1>9. CASE Downloaded
  <2>1. "upgrade_staged_manual" \in Codes
    BY DEF Codes
  <2>2. events' \in 0..EventRoom
    BY <1>0, <1>9 DEF Downloaded, SendEvent, TypeOK
  <2>3. CASE Return("upgrade_staged_manual")
    BY <1>9, <2>1, <2>2, <2>3, IdleTyped DEF Downloaded, TypeOK, diskVars
  <2>4. CASE GoTo("apply") /\ UNCHANGED <<snap, manifest, attempt>>
    BY <1>9, <2>2, <2>4 DEF Downloaded, GoTo, TypeOK, diskVars
  <2> QED BY <1>9, <2>3, <2>4 DEF Downloaded
<1>10. CASE Apply
  <2>1. "upgrade_extract_failed" \in Codes
    BY DEF Codes
  <2>2. manifest \in Manifests
    BY <1>10 DEF Apply, StageInv, Established
  <2>3. CASE Return("upgrade_extract_failed") /\ UNCHANGED linked
    BY <1>10, <2>1, <2>3, IdleTyped DEF Apply, TypeOK
  <2>4. CASE linked' = manifest /\ GoTo("record")
             /\ UNCHANGED <<snap, manifest, attempt>>
    BY <1>10, <2>2, <2>4 DEF Apply, GoTo, TypeOK
  <2> QED BY <1>10, <2>3, <2>4 DEF Apply
<1>11. CASE Record
  <2>1. "upgrade_extract_failed" \in Codes
    BY DEF Codes
  <2>2. manifest \in Manifests
    BY <1>11 DEF Record, StageInv, Established
  <2>3. CASE Return("upgrade_extract_failed") /\ UNCHANGED last
    BY <1>11, <2>1, <2>3, IdleTyped DEF Record, TypeOK
  <2>4. CASE last' = manifest.sequence /\ GoTo("report")
             /\ UNCHANGED <<snap, manifest, attempt>>
    BY <1>11, <2>2, <2>4 DEF Record, GoTo, TypeOK
  <2> QED BY <1>11, <2>3, <2>4 DEF Record
<1>12. CASE Report
  <2>1. events' \in 0..EventRoom
    BY <1>0, <1>12 DEF Report, SendEvent, TypeOK
  <2> QED BY <1>12, <2>1, IdleTyped DEF Report, TypeOK, diskVars
<1>13. CASE Abandon
  BY <1>13, IdleTyped DEF Abandon, TypeOK, diskVars
<1>14. CASE SetConfig
  BY <1>14 DEF SetConfig, stageVars, TypeOK, diskVars
<1>15. CASE Forward \/ CloseEvents
  <2>1. events \in 0..EventRoom /\ listening \in BOOLEAN
    BY DEF TypeOK
  <2>2. CASE Forward
    <3>1. events > 0 /\ events' = events - 1
      BY <2>2 DEF Forward
    <3>2. events' \in 0..EventRoom
      BY <1>0, <2>1, <3>1
    <3> QED BY <2>1, <2>2, <3>2 DEF Forward, stageVars, TypeOK, diskVars
  <2>3. CASE CloseEvents
    <3>1. events' \in 0..EventRoom
      BY <1>0, <2>3 DEF CloseEvents
    <3>2. listening' \in BOOLEAN
      BY <2>3 DEF CloseEvents
    <3> QED BY <2>3, <3>1, <3>2 DEF CloseEvents, stageVars, TypeOK, diskVars
  <2> QED BY <1>15, <2>2, <2>3
<1>16. CASE Restart
  BY <1>0, <1>16 DEF Restart, Idle, TypeOK
<1>17. CASE UNCHANGED vars
  BY <1>17 DEF vars, stageVars, diskVars, TypeOK
<1> QED
  BY <1>1, <1>2, <1>3, <1>4, <1>5, <1>6, <1>7, <1>8, <1>9, <1>10, <1>11, <1>12,
     <1>13, <1>14, <1>15, <1>16, <1>17
  DEF Next, StageNext

\* Nothing else is ever in a variable than what stage puts there: above all,
\* three attempts of a download and no more, no more events than the channel
\* has room for, and no answer but the codes the crate documents.
THEOREM StageTypeCorrect == Spec => []TypeOK
<1>1. Init => TypeOK
  BY StageAssumption DEF Init, TypeOK, MaxAttempts
<1> QED BY <1>1, StageInvariant, TypeStep, PTL DEF Spec

-----------------------------------------------------------------------------
(* UpgradeGate.                                                             *)

\* UpgradeGate has the operators of ReleaseCheck from its own instance of it.
LEMMA SameEndorsed == Gate!Endorsed = Endorsed
<1>1. \A run : Gate!CertOf(run) = CertOf(run)
  BY DEF Gate!CertOf, CertOf, Gate!AtGitHub, AtGitHub, Gate!GitHubPrefix,
         GitHubPrefix
<1>2. \A s, ref : Gate!RefMatches(s, ref) <=> RefMatches(s, ref)
  BY DEF Gate!RefMatches, RefMatches, Gate!IsPrefix, IsPrefix
<1>3. \A run : Gate!AllowedRun(run) <=> AllowedRun(run)
  BY <1>2 DEF Gate!AllowedRun, AllowedRun, Gate!AtGitHub, AtGitHub,
              Gate!GitHubPrefix, GitHubPrefix
<1> QED BY <1>1, <1>3 DEF Gate!Endorsed, Endorsed

\* The gate's instance of ReleaseCheck judges versions as this one does,
LEMMA SameWindow ==
    ASSUME NEW v, NEW w, NEW c
    PROVE  Gate!InVersionWindow(v, w, c) <=> InVersionWindow(v, w, c)
BY DEF Gate!InVersionWindow, InVersionWindow, Gate!VersionLess, VersionLess,
       Gate!NoVersion, NoVersion

\* picks the same artefacts,
LEMMA SameTargets == \A m, q : Gate!Targets(m, q) = Targets(m, q)
BY DEF Gate!Targets, Targets

\* and has the same values for what is absent.
LEMMA SameNone ==
    /\ Gate!Nobody = Nobody /\ Gate!NoRequest = NoRequest
    /\ Gate!NoConfig = NoConfig /\ Gate!NoState = NoState
    /\ Gate!NoVersion = NoVersion
BY DEF Gate!Nobody, Nobody, Gate!NoRequest, NoRequest, Gate!NoConfig, NoConfig,
       Gate!NoState, NoState, Gate!NoVersion, NoVersion

\* A step that neither lets a request in, judges one, touches the disk nor
\* answers is none of the gate's.
LEMMA Unseen ==
    ASSUME Progress' = Progress,
           UNCHANGED <<holder, request, snap, answer, config, running, linked,
                       last>>
    PROVE  UNCHANGED Gate!gateVars
BY DEF Gate!gateVars

\* Wherever stage returns an error, the gate may refuse.
LEMMA Refused ==
    ASSUME NEW code \in Codes,
           pc \in {"policy", "manifest", "bundle", "tarball", "downloaded",
                  "apply", "record"},
           Return(code), UNCHANGED <<config, running, linked, last>>
    PROVE  Gate!Next
<1>1. Progress \in {"asked", "permitted", "linked"} /\ Progress' = "open"
  BY DEF Progress, Return, Idle
<1>2. Gate!Refuse(code)
  BY <1>1, SameNone DEF Gate!Refuse, Gate!Open, Return, Idle
<1> QED BY <1>2 DEF Gate!Next

\* Every step is one of the gate's, or a stutter.
LEMMA StepIsGates == StageInv /\ [Next]_vars => [Gate!Next]_(Gate!gateVars)
<1> SUFFICES ASSUME StageInv, [Next]_vars
             PROVE  Gate!Next \/ UNCHANGED Gate!gateVars
  OBVIOUS
<1>1. ASSUME NEW c \in Callers, NEW q \in Requests, Call(c, q)
      PROVE  Gate!Next
  <2>1. CASE holder = Nobody
    <3>1. Progress = "open" /\ Progress' = "asked"
      BY <1>1, <2>1 DEF Call, Progress, StageInv, Held
    <3>2. Gate!Ask(c, q)
      BY <1>1, <2>1, <3>1 DEF Call, Gate!Ask, diskVars
    <3> QED BY <3>2 DEF Gate!Next
  <2>2. CASE holder # Nobody
    <3>1. Progress # "open" /\ Progress' = Progress
      BY <1>1, <2>2 DEF Call, Progress, StageInv, Held
    <3>2. Gate!TurnAway(c)
      BY <1>1, <2>2, <3>1 DEF Call, Gate!TurnAway, diskVars
    <3> QED BY <3>2 DEF Gate!Next
  <2> QED BY <2>1, <2>2
<1>2. CASE ReadPolicy
  <2> DEFINE code == PolicyCode(config, running, request)
  <2>1. CASE code = "ok" /\ snap' = config /\ GoTo("announce")
    <3>1. Gate!Permitted(config, running, request)
      BY <2>1, SameWindow, SameNone DEF PolicyCode, Gate!Permitted
    <3>2. Progress = "asked" /\ Progress' = "permitted"
      BY <1>2, <2>1 DEF ReadPolicy, GoTo, Progress
    <3>3. Gate!Permit
      BY <1>2, <2>1, <3>1, <3>2 DEF ReadPolicy, GoTo, Gate!Permit, diskVars
    <3> QED BY <3>3 DEF Gate!Next
  <2>2. CASE code # "ok" /\ Return(code)
    <3>1. code \in Codes
      BY <2>2 DEF PolicyCode, Codes
    <3> QED BY <1>2, <2>2, <3>1, Refused DEF ReadPolicy, diskVars
  <2> QED BY <1>2, <2>1, <2>2 DEF ReadPolicy
<1>3. CASE Announce
  <2>1. Progress' = Progress
    BY <1>3 DEF Announce, GoTo, Progress
  <2> QED BY <1>3, <2>1, Unseen DEF Announce, GoTo, diskVars
<1>4. ASSUME NEW o \in Outcomes,
             FetchAgain(o) \/ \E m \in Manifests : ManifestArrives(o, m)
      PROVE  UNCHANGED Gate!gateVars
  <2>1. Progress' = Progress
    BY <1>4 DEF FetchAgain, ManifestArrives, GoTo, Progress
  <2> QED BY <1>4, <2>1, Unseen DEF FetchAgain, ManifestArrives, GoTo, diskVars
<1>5. ASSUME NEW o \in Outcomes, FetchFails(o) PROVE Gate!Next
  BY <1>5, Refused DEF FetchFails, Fetching, Codes, diskVars
<1>6. ASSUME NEW o \in Outcomes, BundleArrives(o) PROVE [Gate!Next]_(Gate!gateVars)
  <2>1. PICK fault :
          \/ fault # "none" /\ Return(MapVerifyError(fault))
          \/ fault = "none" /\ GoTo("tarball") /\ UNCHANGED <<snap, manifest>>
          \/ /\ ManifestCode(manifest) # "ok"
             /\ Return(ManifestCode(manifest))
    BY <1>6 DEF BundleArrives
  <2>2. MapVerifyError(fault) \in Codes
    BY DEF MapVerifyError, Codes
  <2>3. ManifestCode(manifest) # "ok" => ManifestCode(manifest) \in Codes
    BY DEF ManifestCode, Codes
  <2>4. pc = "bundle" /\ UNCHANGED <<config, running, linked, last>>
    BY <1>6 DEF BundleArrives, diskVars
  <2>5. CASE GoTo("tarball") /\ UNCHANGED <<snap, manifest>>
    <3>1. Progress' = Progress
      BY <2>4, <2>5 DEF GoTo, Progress
    <3> QED BY <2>4, <2>5, <3>1, Unseen DEF GoTo
  <2> QED BY <2>1, <2>2, <2>3, <2>4, <2>5, Refused
<1>7. ASSUME NEW o \in Outcomes, TarballArrives(o) PROVE [Gate!Next]_(Gate!gateVars)
  <2>1. CASE GoTo("downloaded") /\ UNCHANGED <<snap, manifest>>
    <3>1. Progress' = Progress
      BY <1>7, <2>1 DEF TarballArrives, GoTo, Progress
    <3> QED BY <1>7, <2>1, <3>1, Unseen DEF TarballArrives, GoTo, diskVars
  <2>2. CASE Return("upgrade_checksum_mismatch")
    BY <1>7, <2>2, Refused DEF TarballArrives, Codes, diskVars
  <2> QED BY <1>7, <2>1, <2>2 DEF TarballArrives
<1>8. CASE Downloaded
  <2>1. CASE GoTo("apply") /\ UNCHANGED <<snap, manifest>>
    <3>1. Progress' = Progress
      BY <1>8, <2>1 DEF Downloaded, GoTo, Progress
    <3> QED BY <1>8, <2>1, <3>1, Unseen DEF Downloaded, GoTo, diskVars
  <2>2. CASE Return("upgrade_staged_manual")
    BY <1>8, <2>2, Refused DEF Downloaded, Codes, diskVars
  <2> QED BY <1>8, <2>1, <2>2 DEF Downloaded
<1>9. CASE Apply
  <2>1. CASE linked' = manifest /\ GoTo("record") /\ UNCHANGED <<snap, manifest>>
    <3>1. Progress = "permitted" /\ Progress' = "linked"
      BY <1>9, <2>1 DEF Apply, GoTo, Progress
    <3>2. /\ ~snap.manual /\ manifest \in Endorsed /\ Newer(manifest)
          /\ ValidateRequest(manifest, request)
          /\ Targets(manifest, request) # {} /\ manifest \in Manifests
      BY <1>9 DEF Apply, StageInv, Established
    <3>3. manifest.sequence > last
      BY <3>2, ReleaseAssumption DEF Newer, NoState
    <3>4. Gate!Link(manifest)
      BY <1>9, <2>1, <3>1, <3>2, <3>3, SameEndorsed, SameTargets
      DEF Apply, GoTo, Gate!Link, ValidateRequest
    <3> QED BY <3>2, <3>4 DEF Gate!Next
  <2>2. CASE Return("upgrade_extract_failed") /\ UNCHANGED linked
    BY <1>9, <2>2, Refused DEF Apply, Codes
  <2> QED BY <1>9, <2>1, <2>2 DEF Apply
<1>10. CASE Record
  <2>1. CASE last' = manifest.sequence /\ GoTo("report")
             /\ UNCHANGED <<snap, manifest>>
    <3>1. Progress = "linked" /\ Progress' = "recorded" /\ linked = manifest
      BY <1>10, <2>1 DEF Record, GoTo, Progress, StageInv, Established
    <3>2. Gate!Record
      BY <1>10, <2>1, <3>1 DEF Record, GoTo, Gate!Record
    <3> QED BY <3>2 DEF Gate!Next
  <2>2. CASE Return("upgrade_extract_failed") /\ UNCHANGED last
    BY <1>10, <2>2, Refused DEF Record, Codes
  <2> QED BY <1>10, <2>1, <2>2 DEF Record
<1>11. CASE Report
  <2>1. Progress = "recorded" /\ Progress' = "open"
    BY <1>11 DEF Report, Return, Idle, Progress
  <2>2. Gate!Confirm
    BY <1>11, <2>1, SameNone
    DEF Report, Return, Idle, Gate!Confirm, Gate!Open, diskVars
  <2> QED BY <2>2 DEF Gate!Next
<1>12. CASE Abandon
  <2>1. Progress # "open" /\ Progress' = "open"
    BY <1>12 DEF Abandon, Return, Idle, Progress, StageInv, Held
  <2>2. Gate!Abandon
    BY <1>12, <2>1, SameNone
    DEF Abandon, Return, Idle, Gate!Abandon, Gate!Open, diskVars
  <2> QED BY <2>2 DEF Gate!Next
<1>13. CASE SetConfig
  <2>1. Progress' = Progress
    BY <1>13 DEF SetConfig, stageVars, Progress
  <2>2. Gate!Reconfigure
    BY <1>13, <2>1 DEF SetConfig, Gate!Reconfigure, stageVars, diskVars
  <2> QED BY <2>2 DEF Gate!Next
<1>14. CASE Forward \/ CloseEvents \/ UNCHANGED vars
  <2>1. Progress' = Progress
    BY <1>14 DEF Forward, CloseEvents, vars, stageVars, Progress
  <2> QED
    BY <1>14, <2>1, Unseen DEF Forward, CloseEvents, vars, stageVars, diskVars
<1>15. CASE Restart
  <2>1. Progress' = "open"
    BY <1>15 DEF Restart, Idle, Progress
  <2>2. Gate!Restart
    BY <1>15, <2>1, SameNone DEF Restart, Idle, Gate!Restart, Gate!Open
  <2> QED BY <2>2 DEF Gate!Next
<1> QED
  BY <1>1, <1>2, <1>3, <1>4, <1>5, <1>6, <1>7, <1>8, <1>9, <1>10, <1>11,
     <1>12, <1>13, <1>14, <1>15
  DEF Next, StageNext

\* So is the start.
LEMMA InitIsGates == Init => Gate!Init
BY SameNone DEF Init, Gate!Init, Progress

\* For any releases, policies, callers and failures, the coordinator implements
\* UpgradeGate: only an endorsed, permitted, newer release that was asked for is
\* ever linked (stage, verify_manifest_bundle, check_version_window).
THEOREM StageImplementsGate == Spec => ImplementsGate
BY StageInvariant, InitIsGates, StepIsGates, PTL DEF Spec, ImplementsGate, Gate!Spec
=============================================================================

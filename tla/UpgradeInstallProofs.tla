------------------------ MODULE UpgradeInstallProofs ------------------------
(***************************************************************************)
(* Proofs about UpgradeInstall for any number of releases, any of them     *)
(* bad, any number of crashes, and whether or not process ids come back:   *)
(* what `current` links to is always on disk, every file and buffer holds  *)
(* what its type says, and on a current-thread runtime the installed       *)
(* sequence never falls, a bad version is called stable only in the ways   *)
(* Excused lists and, until something crashes, what a rollback would       *)
(* return to is kept.                                                      *)
(***************************************************************************)
EXTENDS UpgradeInstall, SequenceTheorems, TLAPS

\* What a stage has put on disk stays there until it is linked, and what is
\* linked is what is being collected around.
StageOnDisk ==
    /\ spc # "idle" => Running /\ sver \in Versions
    /\ spc = "extracted" => OnDisk(sver)
    /\ spc = "linked" => current = sver

LinkInv == dirs \in Seq(Versions) /\ LinkedVersionPresent /\ StageOnDisk

-----------------------------------------------------------------------------
(* The helpers on the list of version directories.                          *)

\* Removing one version leaves every other one.
LEMMA OthersKeep ==
    ASSUME dirs \in Seq(Versions), NEW v \in Versions
    PROVE  /\ Others(v) \in Seq(Versions)
           /\ \A u : u # v /\ OnDisk(u)
                => \E i \in DOMAIN Others(v) : Others(v)[i] = u
<1>1. CASE ~OnDisk(v)
  BY <1>1 DEF Others, OnDisk
<1>2. CASE OnDisk(v)
  <2> DEFINE p == PlaceOf(v)
             n == Len(dirs)
             a == SubSeq(dirs, 1, p - 1)
             b == SubSeq(dirs, p + 1, n)
  <2>1. n \in Nat /\ DOMAIN dirs = 1..n
    BY LenProperties
  <2>2. p \in 1..n /\ dirs[p] = v
    BY <1>2, <2>1 DEF OnDisk, PlaceOf
  <2>3. \A i \in 1..n : dirs[i] \in Versions
    BY ElementOfSeq
  <2>4. /\ a \in Seq(Versions) /\ Len(a) = p - 1
        /\ \A i \in 1..(p - 1) : a[i] = dirs[i]
    <3>1. 1 \in Int /\ p - 1 \in Int /\ 1..(p - 1) \subseteq 1..n
      BY <2>1, <2>2
    <3>2. \A i \in 1..(p - 1) : dirs[i] \in Versions
      BY <2>3, <3>1
    <3> QED BY <2>1, <2>2, <3>1, <3>2, SubSeqProperties
  <2>5. /\ b \in Seq(Versions) /\ Len(b) = n - p
        /\ \A i \in 1..(n - p) : b[i] = dirs[i + p]
    <3>1. p + 1 \in Int /\ n \in Int /\ (p + 1)..n \subseteq 1..n
      BY <2>1, <2>2
    <3>2. \A i \in (p + 1)..n : dirs[i] \in Versions
      BY <2>3, <3>1
    <3> QED BY <2>1, <2>2, <3>1, <3>2, SubSeqProperties
  <2>6. Others(v) = a \o b
    BY <1>2 DEF Others, RemoveAt
  <2> HIDE DEF p, n, a, b
  <2>7. /\ a \o b \in Seq(Versions) /\ Len(a \o b) = n - 1
        /\ \A i \in 1..(p - 1) : (a \o b)[i] = dirs[i]
        /\ \A i \in p..(n - 1) : (a \o b)[i] = dirs[i + 1]
    <3>1. /\ a \o b \in Seq(Versions) /\ Len(a \o b) = Len(a) + Len(b)
          /\ \A i \in 1..(Len(a) + Len(b)) :
               (a \o b)[i] = IF i <= Len(a) THEN a[i] ELSE b[i - Len(a)]
      BY <2>4, <2>5, ConcatProperties
    <3>2. Len(a) + Len(b) = n - 1
      BY <2>1, <2>2, <2>4, <2>5
    <3>3. ASSUME NEW i \in 1..(p - 1) PROVE (a \o b)[i] = dirs[i]
      <4>1. i \in 1..(Len(a) + Len(b)) /\ i <= Len(a)
        BY <2>1, <2>2, <2>4, <3>2
      <4> QED BY <2>4, <3>1, <4>1
    <3>4. ASSUME NEW i \in p..(n - 1) PROVE (a \o b)[i] = dirs[i + 1]
      <4>1. i \in 1..(Len(a) + Len(b)) /\ ~(i <= Len(a))
        BY <2>1, <2>2, <2>4, <3>2
      <4>2. i - Len(a) \in 1..(n - p) /\ (i - Len(a)) + p = i + 1
        BY <2>1, <2>2, <2>4
      <4>3. (a \o b)[i] = b[i - Len(a)]
        BY <3>1, <4>1
      <4> QED BY <2>5, <4>2, <4>3
    <3> QED BY <3>1, <3>2, <3>3, <3>4
  <2>8. ASSUME NEW u, u # v, OnDisk(u)
        PROVE  \E i \in DOMAIN (a \o b) : (a \o b)[i] = u
    <3>1. PICK j \in 1..n : dirs[j] = u
      BY <2>1, <2>8 DEF OnDisk
    <3>2. DOMAIN (a \o b) = 1..(n - 1)
      BY <2>7, LenProperties
    <3>3. CASE j < p
      <4>1. j \in 1..(n - 1) /\ j \in 1..(p - 1)
        BY <2>1, <2>2, <3>1, <3>3
      <4> QED BY <2>7, <3>1, <3>2, <4>1
    <3>4. CASE j > p
      <4>1. j - 1 \in 1..(n - 1) /\ j - 1 \in p..(n - 1) /\ (j - 1) + 1 = j
        BY <2>1, <2>2, <3>1, <3>4
      <4> QED BY <2>7, <3>1, <3>2, <4>1
    <3>5. j # p
      BY <2>2, <2>8, <3>1
    <3> QED BY <2>1, <2>2, <3>1, <3>3, <3>4, <3>5
  <2> QED BY <2>6, <2>7, <2>8
<1> QED BY <1>1, <1>2

\* Extraction puts the version on disk and removes no other.
LEMMA ExtractedPresent ==
    ASSUME dirs \in Seq(Versions), NEW v \in Versions,
           dirs' = Append(Others(v), v)
    PROVE  dirs' \in Seq(Versions) /\ OnDisk(v)'
           /\ \A u : u # v /\ OnDisk(u) => OnDisk(u)'
<1> DEFINE o == Others(v)
<1>1. o \in Seq(Versions) /\ Len(o) \in Nat /\ DOMAIN o = 1..Len(o)
  BY OthersKeep, LenProperties
<1>2. /\ dirs' \in Seq(Versions) /\ DOMAIN dirs' = 1..(Len(o) + 1)
      /\ \A i \in 1..Len(o) : dirs'[i] = o[i]
      /\ dirs'[Len(o) + 1] = v
  BY <1>1, AppendProperties, LenProperties
<1>3. OnDisk(v)'
  <2>1. Len(o) + 1 \in DOMAIN dirs'
    BY <1>1, <1>2
  <2> QED BY <1>2, <2>1 DEF OnDisk
<1>4. ASSUME NEW u, u # v, OnDisk(u) PROVE OnDisk(u)'
  <2>1. PICK i \in 1..Len(o) : o[i] = u
    BY <1>1, <1>4, OthersKeep
  <2>2. i \in DOMAIN dirs'
    BY <1>1, <1>2
  <2> QED BY <1>2, <2>1, <2>2 DEF OnDisk
<1> QED BY <1>2, <1>3, <1>4

\* Collection keeps the version it is called for.
LEMMA CollectorKeeps ==
    ASSUME dirs \in Seq(Versions), NEW v \in Versions, dirs' = KeptAfterGc(v)
    PROVE  dirs' \in Seq(Versions) /\ OnDisk(v)'
<1> DEFINE o == Others(v)
           n == Len(o)
           k == IF n > Keep THEN n - Keep + 1 ELSE 1
           s == SubSeq(o, k, n)
<1>1. o \in Seq(Versions) /\ n \in Nat
  BY OthersKeep, LenProperties
<1>2. k \in 1..(n + 1)
  BY <1>1, UpgradeAssumption
<1>3. s \in Seq(Versions)
  <2>1. k \in Int /\ n \in Int /\ k..n \subseteq 1..n
    BY <1>1, <1>2
  <2>2. \A i \in k..n : o[i] \in Versions
    BY <1>1, <2>1, ElementOfSeq
  <2> QED BY <2>1, <2>2, SubSeqProperties
<1>4. dirs' = s \o <<v>>
  BY DEF KeptAfterGc
<1>5. Len(s) \in Nat
  BY <1>3, LenProperties
<1> HIDE DEF o, n, k, s
<1>6. /\ <<v>> \in Seq(Versions) /\ Len(<<v>>) = 1 /\ <<v>>[1] = v
  OBVIOUS
<1>7. /\ dirs' \in Seq(Versions) /\ Len(dirs') = Len(s) + 1
      /\ dirs'[Len(s) + 1] = v
  <2>1. /\ dirs' \in Seq(Versions) /\ Len(dirs') = Len(s) + 1
        /\ \A i \in 1..(Len(s) + 1) :
             dirs'[i] = IF i <= Len(s) THEN s[i] ELSE <<v>>[i - Len(s)]
    BY <1>3, <1>4, <1>6, ConcatProperties
  <2>2. /\ Len(s) + 1 \in 1..(Len(s) + 1) /\ ~(Len(s) + 1 <= Len(s))
        /\ (Len(s) + 1) - Len(s) = 1
    BY <1>5
  <2> QED BY <1>6, <2>1, <2>2
<1>8. Len(s) + 1 \in DOMAIN dirs'
  BY <1>5, <1>7, LenProperties
<1> QED BY <1>7, <1>8 DEF OnDisk

-----------------------------------------------------------------------------

\* The installer's version is there and linked.
LEMMA InitLink == Init => LinkInv
<1> SUFFICES ASSUME Init PROVE LinkInv
  OBVIOUS
<1>1. Installed \in Versions
  BY UpgradeAssumption DEF Installed, Versions
<1>2. dirs = <<Installed>> /\ dirs \in Seq(Versions)
  BY <1>1 DEF Init
<1>3. OnDisk(current)
  <2>1. 1 \in DOMAIN dirs /\ dirs[1] = Installed
    BY <1>2
  <2> QED BY <2>1 DEF Init, OnDisk
<1> QED BY <1>2, <1>3 DEF Init, LinkInv, LinkedVersionPresent, StageOnDisk

\* A stage: one step per action that touches the versions, the link or spc.
LEMMA StageLinkInv == LinkInv /\ StageNext => LinkInv'
<1> SUFFICES ASSUME LinkInv, StageNext PROVE LinkInv'
  OBVIOUS
<1> USE DEF LinkInv, LinkedVersionPresent, StageOnDisk, Running
<1>1. ASSUME NEW v \in Versions, StageCheck(v) PROVE LinkInv'
  BY <1>1 DEF StageCheck, disk, OnDisk
<1>2. CASE StageStops
  BY <1>2 DEF StageStops, disk, OnDisk
<1>3. CASE StageExtract
  <2>1. CASE current = sver /\ OnDisk(sver)
    BY <1>3, <2>1 DEF StageExtract, OnDisk
  <2>2. CASE current # sver
    <3>1. sver \in Versions /\ current' = current /\ proc' = proc /\ Running
      BY <1>3 DEF StageExtract
    <3>2. CASE dirs' = Append(Others(sver), sver) /\ spc' = "extracted" /\ sver' = sver
      <4>1. dirs' \in Seq(Versions) /\ OnDisk(sver)' /\ OnDisk(current)'
        <5>1. dirs' \in Seq(Versions)
              /\ (\E i \in DOMAIN dirs' : dirs'[i] = sver)
              /\ (\E i \in DOMAIN dirs' : dirs'[i] = current)
          BY <2>2, <3>1, <3>2, ExtractedPresent DEF OnDisk
        <5> QED BY <3>1, <3>2, <5>1 DEF OnDisk
      <4> QED BY <3>1, <3>2, <4>1
    <3>3. CASE dirs' = Others(sver) /\ spc' = "idle"
      <4>1. dirs' \in Seq(Versions) /\ OnDisk(current)'
        BY <2>2, <3>1, <3>3, OthersKeep DEF OnDisk
      <4> QED BY <3>3, <4>1
    <3> QED BY <1>3, <2>2, <3>2, <3>3 DEF StageExtract
  <2> QED BY <2>1, <2>2
<1>4. CASE StageLink
  BY <1>4 DEF StageLink, OnDisk
<1>5. CASE StageGc
  <2>1. /\ sver \in Versions /\ current = sver /\ current' = current
        /\ dirs' = KeptAfterGc(sver) /\ spc' = "applied" /\ sver' = sver
        /\ proc' = proc /\ Running
    BY <1>5 DEF StageGc
  <2>2. dirs' \in Seq(Versions) /\ \E i \in DOMAIN dirs' : dirs'[i] = sver
    BY <2>1, CollectorKeeps DEF OnDisk
  <2> QED BY <1>5, <2>1, <2>2 DEF OnDisk
<1>6. CASE StageCompose
  BY <1>6 DEF StageCompose, disk, OnDisk
<1>7. CASE StageSave
  BY <1>7 DEF StageSave, SaveBegin, OnDisk
<1>8. CASE StageCommit
  BY <1>8 DEF StageCommit, SaveCommit, OnDisk
<1> QED BY <1>1, <1>2, <1>3, <1>4, <1>5, <1>6, <1>7, <1>8 DEF StageNext

\* Promotion and beats write only state.json.
LEMMA PeriodicLinkInv == LinkInv /\ PeriodicNext => LinkInv'
<1> SUFFICES ASSUME LinkInv, PeriodicNext PROVE LinkInv'
  OBVIOUS
<1>1. dirs' = dirs /\ current' = current /\ proc' = proc /\ spc' = spc /\ sver' = sver
  BY DEF PeriodicNext, FinalizeCheck, FinalizeLoad, FinalizeSave,
         FinalizeCommit, BeatLoad, BeatSave, BeatCommit, SaveBegin,
         SaveCommit, disk
<1> QED BY <1>1 DEF LinkInv, LinkedVersionPresent, StageOnDisk, Running, OnDisk

\* A process that boots has no stage under way, and the watchdog links only a
\* version whose directory is there.
LEMMA BootLinkInv == LinkInv /\ BootNext => LinkInv'
<1> SUFFICES ASSUME LinkInv, BootNext PROVE LinkInv'
  OBVIOUS
<1>1. spc = "idle" /\ spc' = "idle"
  BY DEF BootNext, LinkInv, StageOnDisk, Running, Respawn, BootContinue,
         BootAfterRollback, BootCleared, BootBump, BootBumped, BootRevert,
         BootRevertSave, BootRolledBack, Dead, tasks
<1>2. dirs' = dirs
  BY DEF BootNext, Respawn, BootContinue, BootAfterRollback, BootCleared,
         BootBump, BootBumped, BootRevert, BootRevertSave, BootRolledBack,
         Dead, disk
<1>3. OnDisk(current')
  BY DEF BootNext, LinkInv, LinkedVersionPresent, Respawn, BootContinue,
         BootAfterRollback, BootCleared, BootBump, BootBumped, BootRevert,
         BootRevertSave, BootRolledBack, Dead, disk
<1> QED BY <1>1, <1>2, <1>3 DEF LinkInv, LinkedVersionPresent, StageOnDisk, OnDisk

\* Every step keeps what is linked, and what a stage is about to link.
LEMMA LinkNext == LinkInv /\ [Next]_vars => LinkInv'
<1> SUFFICES ASSUME LinkInv, [Next]_vars PROVE LinkInv'
  OBVIOUS
<1>1. CASE Exit \/ Crash
  BY <1>1 DEF Exit, Crash, Dead, disk, LinkInv, LinkedVersionPresent,
              StageOnDisk, OnDisk
<1>2. CASE UNCHANGED vars
  BY <1>2 DEF vars, disk, tasks, LinkInv, LinkedVersionPresent, StageOnDisk,
              Running, OnDisk
<1> QED BY <1>1, <1>2, StageLinkInv, PeriodicLinkInv, BootLinkInv DEF Next

\* The version `current` links to is on disk at every moment: while another is
\* extracted, linked or collected (stage_new_version, gc_versions), while the
\* watchdog reverts (revert_to_previous), and wherever the process dies.
THEOREM LinkedAlwaysPresent == Spec => []LinkedVersionPresent
<1>1. LinkInv => LinkedVersionPresent
  BY DEF LinkInv
<1> QED BY InitLink, LinkNext, <1>1, PTL DEF Spec

-----------------------------------------------------------------------------
(* Types.                                                                   *)

Deciding == {"clearing", "bumping", "reverting", "reverted", "rolling"}

\* A task has a state in its buffer while it is about to write it, tasks live
\* in a running process, and the watchdog has its copy while it decides.
Buffers ==
    /\ fpc # "idle" \/ bpc # "idle" => Running
    /\ spc \in {"composed", "saving"} => sbuf \in States
    /\ fpc = "checked" => Readable(state)
    /\ fpc \in {"loaded", "saving"} => fbuf \in States
    /\ bpc \in {"loaded", "saving"} => bbuf \in States
    /\ proc \in Deciding => boot \in States

TypeInv == LinkInv /\ TypeOK /\ Buffers

\* Changing one field of a state leaves a state, and its sequence alone.
LEMMA Changed ==
    ASSUME NEW s \in States
    PROVE  /\ \A st \in {"stable", "pending_health", "rolled_back"} :
                /\ [s EXCEPT !.status = st] \in States
                /\ [s EXCEPT !.status = st].seq = s.seq
                /\ [s EXCEPT !.status = st, !.boots = 0] \in States
                /\ [s EXCEPT !.status = st, !.boots = 0].seq = s.seq
                /\ \A v \in Versions :
                     /\ [s EXCEPT !.cur = v, !.prev = s.cur, !.status = st]
                          \in States
                     /\ [s EXCEPT !.cur = v, !.prev = s.cur,
                                  !.status = st].seq = s.seq
           /\ \A v \in Versions : /\ [s EXCEPT !.beat = v] \in States
                                  /\ [s EXCEPT !.beat = v].seq = s.seq
           /\ LET b == [s EXCEPT !.boots = IF @ < MostBoots THEN @ + 1 ELSE @]
              IN  b \in States /\ b.seq = s.seq
<1>1. MostBoots \in Nat
  BY UpgradeAssumption DEF MostBoots
<1>2. 0 \in 0..MostBoots
        /\ \A n \in 0..MostBoots : (IF n < MostBoots THEN n + 1 ELSE n)
                                     \in 0..MostBoots
  BY <1>1
<1>3. s.cur \in Versions /\ s.boots \in 0..MostBoots /\ s.seq \in Versions
  BY DEF States
<1>4. LET b == [s EXCEPT !.boots = IF @ < MostBoots THEN @ + 1 ELSE @]
      IN  b \in States /\ b.seq = s.seq
  BY <1>2, <1>3 DEF States
<1> QED BY <1>2, <1>3, <1>4 DEF States

\* A file that cannot be read is not a state.
LEMMA Unreadables ==
    NoState \notin States /\ Corrupt \notin States /\ Nothing \notin States
<1>1. 0 \notin Versions
  BY UpgradeAssumption DEF Versions
<1> QED BY <1>1 DEF NoState, Corrupt, Nothing, Unreadable, States

\* What stage composes is a state with the release's sequence.
LEMMA NewStateTyped ==
    ASSUME TypeInv, NEW v \in Versions
    PROVE  NewState(v) \in States /\ NewState(v).seq = v
<1>1. 0 \in 0..MostBoots
  BY UpgradeAssumption DEF MostBoots
<1>2. (IF Readable(state) THEN state.cur ELSE exe) \in Versions
  BY DEF TypeInv, TypeOK, Readable, States
<1> QED BY <1>1, <1>2 DEF NewState, States

\* What save does to state.json: nothing, or it makes an empty file.
LEMMA SaveBegun ==
    ASSUME SaveBegin, TypeInv
    PROVE  /\ state' \in States \cup {NoState, Corrupt} /\ tmp' \in BOOLEAN
           /\ Readable(state) <=> Readable(state')
           /\ Readable(state) => state' = state
BY Unreadables DEF SaveBegin, TypeInv, TypeOK, Readable

\* The first start is well typed.
LEMMA InitTyped == Init => TypeInv
<1> SUFFICES ASSUME Init PROVE TypeInv
  OBVIOUS
<1>1. Installed \in Versions /\ 0 \in 0..MaxCrashes
  BY UpgradeAssumption DEF Installed, Versions
<1>2. LinkInv
  BY InitLink
<1>3. TypeOK
  BY <1>1, <1>2 DEF Init, TypeOK, LinkInv, ProcStates
<1> QED BY <1>2, <1>3 DEF Init, TypeInv, Buffers, Deciding

\* The steps of a stage keep the types,
LEMMA StageTyped == TypeInv /\ StageNext => TypeOK' /\ Buffers'
<1> SUFFICES ASSUME TypeInv, StageNext PROVE TypeOK' /\ Buffers'
  OBVIOUS
<1>0. dirs' \in Seq(Versions)
  BY StageLinkInv DEF TypeInv, LinkInv
<1> USE DEF TypeInv, TypeOK, Buffers, Running, ProcStates, Deciding
<1>1. ASSUME NEW v \in Versions, StageCheck(v) PROVE TypeOK' /\ Buffers'
  BY <1>1 DEF StageCheck, disk
<1>2. CASE StageStops
  BY <1>2 DEF StageStops, disk
<1>3. CASE StageExtract
  BY <1>0, <1>3 DEF StageExtract
<1>4. CASE StageLink
  BY <1>4 DEF StageLink, LinkInv, StageOnDisk
<1>5. CASE StageGc
  BY <1>0, <1>5 DEF StageGc
<1>6. CASE StageCompose
  <2>1. NewState(sver) \in States
    BY <1>6, NewStateTyped DEF StageCompose, LinkInv, StageOnDisk
  <2> QED BY <1>6, <2>1 DEF StageCompose, disk
<1>7. CASE StageSave
  <2>1. CASE SaveBegin
    <3>1. /\ state' \in States \cup {NoState, Corrupt} /\ tmp' \in BOOLEAN
          /\ Readable(state) <=> Readable(state')
      BY <2>1, SaveBegun
    <3>2. spc' = "saving" /\ UNCHANGED <<sver, sbuf>>
      BY <1>7, <2>1 DEF StageSave, SaveBegin
    <3> QED BY <1>7, <3>1, <3>2 DEF StageSave
  <2>2. CASE ~SaveBegin
    BY <1>7, <2>2 DEF StageSave
  <2> QED BY <2>1, <2>2
<1>8. CASE StageCommit
  BY <1>8 DEF StageCommit, SaveCommit, Readable
<1> QED BY <1>1, <1>2, <1>3, <1>4, <1>5, <1>6, <1>7, <1>8 DEF StageNext

\* so do the beats and the promotion,
LEMMA PeriodicTyped == TypeInv /\ PeriodicNext => TypeOK' /\ Buffers'
<1> SUFFICES ASSUME TypeInv, PeriodicNext PROVE TypeOK' /\ Buffers'
  OBVIOUS
<1> USE DEF TypeInv, TypeOK, Buffers, Running, ProcStates, Deciding
<1>1. CASE FinalizeCheck
  BY <1>1 DEF FinalizeCheck, disk
<1>2. CASE FinalizeLoad
  <2>1. [state EXCEPT !.status = "stable"] \in States
    BY <1>2, Changed DEF FinalizeLoad, Readable
  <2> QED BY <1>2, <2>1 DEF FinalizeLoad, disk
<1>3. CASE FinalizeSave \/ BeatSave
  <2>1. /\ state' \in States \cup {NoState, Corrupt} /\ tmp' \in BOOLEAN
        /\ Readable(state) <=> Readable(state')
    BY <1>3, SaveBegun DEF FinalizeSave, BeatSave
  <2> QED BY <1>3, <2>1 DEF FinalizeSave, BeatSave
<1>4. CASE FinalizeCommit \/ BeatCommit
  <2>1. /\ state' \in States /\ tmp' = FALSE /\ Readable(state')
        /\ fbuf' \in States \cup {Nothing} /\ bbuf' \in States \cup {Nothing}
    BY <1>4, Unreadables DEF FinalizeCommit, BeatCommit, SaveCommit, Readable
  <2> QED BY <1>4, <2>1 DEF FinalizeCommit, BeatCommit
<1>5. CASE BeatLoad
  <2>1. bbuf' \in States
    BY <1>5, Changed DEF BeatLoad, Readable
  <2> QED BY <1>5, <2>1 DEF BeatLoad, disk
<1> QED BY <1>1, <1>2, <1>3, <1>4, <1>5 DEF PeriodicNext

\* so does the boot watchdog,
LEMMA BootTyped == TypeInv /\ BootNext => TypeOK' /\ Buffers'
<1> SUFFICES ASSUME TypeInv, BootNext PROVE TypeOK' /\ Buffers'
  OBVIOUS
<1>0. /\ fpc = "idle" /\ bpc = "idle" /\ spc = "idle"
      /\ fpc' = "idle" /\ bpc' = "idle" /\ spc' = "idle"
  BY DEF TypeInv, Buffers, Running, LinkInv, StageOnDisk, BootNext, Respawn,
     BootContinue, BootAfterRollback, BootCleared, BootBump, BootBumped,
     BootRevert, BootRevertSave, BootRolledBack, Dead, tasks
<1> USE DEF TypeInv, TypeOK, Buffers, Running, ProcStates, Deciding
<1>1. CASE Respawn
  BY <1>0, <1>1 DEF Respawn, tasks
<1>2. CASE BootContinue
  BY <1>0, <1>2 DEF BootContinue, disk, tasks
<1>3. CASE BootAfterRollback
  <2>1. [state EXCEPT !.status = "stable", !.boots = 0] \in States
    BY <1>3, Changed DEF BootAfterRollback, Readable
  <2>2. state' \in States \cup {NoState, Corrupt} /\ tmp' \in BOOLEAN
    BY <1>3, SaveBegun DEF BootAfterRollback
  <2> QED BY <1>0, <1>3, <2>1, <2>2 DEF BootAfterRollback, tasks
<1>4. CASE BootCleared
  BY <1>0, <1>4 DEF BootCleared, SaveCommit, tasks
<1>5. CASE BootBump
  BY <1>0, <1>5 DEF BootBump, Readable, tasks
<1>6. CASE BootBumped
  <2>1. state' \in States
    BY <1>6, Changed DEF BootBumped
  <2> QED BY <1>0, <1>6, <2>1 DEF BootBumped, tasks
<1>7. CASE BootRevert
  <2>1. boot \in States
    BY <1>7 DEF BootRevert
  <2>2. boot.prev \in Versions
    BY <2>1 DEF States
  <2>3. /\ [boot EXCEPT !.status = "rolled_back"] \in States
        /\ [boot EXCEPT !.cur = boot.prev, !.prev = boot.cur,
                        !.status = "rolled_back"] \in States
    BY <2>1, <2>2, Changed
  <2>4. boot' \in States /\ current' \in Versions
    BY <1>7, <2>2, <2>3 DEF BootRevert
  <2> QED BY <1>0, <1>7, <2>4 DEF BootRevert, tasks
<1>8. CASE BootRevertSave
  <2>1. state' \in States \cup {NoState, Corrupt} /\ tmp' \in BOOLEAN
    BY <1>8, SaveBegun DEF BootRevertSave
  <2> QED BY <1>0, <1>8, <2>1 DEF BootRevertSave, Dead, tasks
<1>9. CASE BootRolledBack
  BY <1>0, <1>9 DEF BootRolledBack, SaveCommit, Dead
<1> QED BY <1>1, <1>2, <1>3, <1>4, <1>5, <1>6, <1>7, <1>8, <1>9 DEF BootNext

\* and so does everything else.
LEMMA TypeStep == TypeInv /\ [Next]_vars => TypeInv'
<1> SUFFICES ASSUME TypeInv, [Next]_vars PROVE TypeInv'
  OBVIOUS
<1>1. LinkInv'
  BY LinkNext DEF TypeInv
<1>2. CASE Exit
  BY <1>1, <1>2 DEF Exit, Dead, disk, TypeInv, TypeOK, Buffers, Running,
                    ProcStates, Deciding
<1>3. CASE Crash
  <2>1. crashes' \in 0..MaxCrashes
    BY <1>3, UpgradeAssumption DEF Crash, TypeInv, TypeOK
  <2> QED BY <1>1, <1>3, <2>1 DEF Crash, Dead, disk, TypeInv, TypeOK, Buffers,
                                  Running, ProcStates, Deciding
<1>4. CASE UNCHANGED vars
  BY <1>1, <1>4 DEF vars, disk, tasks, TypeInv, TypeOK, Buffers, Running,
                    Readable
<1> QED BY <1>1, <1>2, <1>3, <1>4, StageTyped, PeriodicTyped, BootTyped
        DEF Next, TypeInv

\* Every variable keeps its type: in particular state.json is always missing,
\* unparseable or a whole install state, whichever task or watchdog step was
\* cut off (state.rs save, bump_boot_attempts).
THEOREM UpgradeTypeCorrect == Spec => []TypeOK
<1>1. TypeInv => TypeOK
  BY DEF TypeInv
<1> QED BY InitTyped, TypeStep, <1>1, PTL DEF Spec

-----------------------------------------------------------------------------
(* The sequence on a current-thread runtime.                                *)

\* One task at a time is between its load and its save, and what it is about
\* to save has a sequence no lower than the file's.
SeqInv ==
    /\ ~MultiThread
    /\ StageInFiles => fpc = "idle" /\ bpc = "idle"
    /\ fpc # "idle" => bpc = "idle"
    /\ spc # "idle" /\ Readable(state) => sver > state.seq
    /\ spc \in {"composed", "saving"} => sbuf.seq = sver
    /\ fpc \in {"loaded", "saving"} => Readable(state) /\ fbuf.seq = state.seq
    /\ bpc \in {"loaded", "saving"} => Readable(state) /\ bbuf.seq = state.seq
    /\ proc \in Deciding /\ Readable(state) => boot.seq >= state.seq

NoFall == Readable(state) /\ Readable(state') => state'.seq >= state.seq

\* A state that is not rewritten does not fall.
LEMMA Rests ==
    ASSUME TypeInv, state' = state \/ ~Readable(state') PROVE NoFall
BY DEF TypeInv, TypeOK, NoFall, Readable, States, Versions

\* No task is under way at first.
LEMMA InitSeq == ~MultiThread /\ Init => SeqInv
BY Unreadables DEF Init, SeqInv, StageInFiles, Deciding, Readable

\* A stage only raises the sequence,
LEMMA StageSeq == TypeInv /\ SeqInv /\ StageNext => SeqInv' /\ NoFall
<1> SUFFICES ASSUME TypeInv, SeqInv, StageNext PROVE SeqInv' /\ NoFall
  OBVIOUS
<1>0. proc \notin Deciding
  BY DEF StageNext, StageCheck, StageStops, StageExtract, StageLink, StageGc,
         StageCompose, StageSave, StageCommit, Running, Deciding
<1> USE DEF SeqInv, StageInFiles, Deciding
<1>1. ASSUME NEW v \in Versions, StageCheck(v) PROVE SeqInv' /\ NoFall
  BY <1>0, <1>1, Rests DEF StageCheck, disk, Alone, SequenceAccepted, Readable
<1>2. CASE StageStops
  BY <1>0, <1>2, Rests DEF StageStops, disk, Readable
<1>3. CASE StageExtract
  BY <1>0, <1>3, Rests DEF StageExtract, Alone, Readable
<1>4. CASE StageLink \/ StageGc
  BY <1>0, <1>4, Rests DEF StageLink, StageGc, Readable
<1>5. CASE StageCompose
  <2>1. sbuf'.seq = sver
    BY <1>5, NewStateTyped DEF StageCompose, TypeInv, LinkInv, StageOnDisk
  <2> QED BY <1>0, <1>5, <2>1, Rests DEF StageCompose, disk, Readable
<1>6. CASE StageSave
  <2>1. CASE SaveBegin
    <3>1. /\ Readable(state) <=> Readable(state')
          /\ Readable(state) => state' = state
      BY <2>1, SaveBegun
    <3> QED BY <1>0, <1>6, <2>1, <3>1, Rests DEF StageSave, SaveBegin
  <2>2. CASE ~SaveBegin
    BY <1>0, <1>6, <2>2, Rests DEF StageSave, Readable
  <2> QED BY <2>1, <2>2
<1>7. CASE StageCommit
  <2>1. /\ state' = sbuf /\ spc = "saving" /\ spc' = "idle" /\ proc' = "exiting"
        /\ UNCHANGED <<fpc, fbuf, bpc, bbuf, boot>>
    BY <1>7 DEF StageCommit, SaveCommit
  <2>2. sver \in Versions /\ sbuf \in States
    BY <2>1 DEF TypeInv, LinkInv, StageOnDisk, Buffers
  <2>3. NoFall
    BY <2>1, <2>2 DEF NoFall, Readable, States, Versions
  <2> QED BY <2>1, <2>3
<1> QED BY <1>1, <1>2, <1>3, <1>4, <1>5, <1>6, <1>7 DEF StageNext

\* beats and promotions write back the one they read,
LEMMA PeriodicSeq == TypeInv /\ SeqInv /\ PeriodicNext => SeqInv' /\ NoFall
<1> SUFFICES ASSUME TypeInv, SeqInv, PeriodicNext PROVE SeqInv' /\ NoFall
  OBVIOUS
<1>0. proc \notin Deciding /\ proc' = proc
  BY DEF PeriodicNext, FinalizeCheck, FinalizeLoad, FinalizeSave,
         FinalizeCommit, BeatLoad, BeatSave, BeatCommit, Running, Deciding
<1>1. fpc # "idle" \/ bpc # "idle" => ~StageInFiles
  BY DEF SeqInv
<1> USE DEF SeqInv, StageInFiles
<1>2. CASE FinalizeCheck
  BY <1>0, <1>2, Rests DEF FinalizeCheck, disk, Alone, Readable
<1>3. CASE FinalizeLoad
  <2>1. Readable(state) /\ fbuf'.seq = state.seq
    BY <1>3, Changed DEF FinalizeLoad, TypeInv, Buffers, Readable
  <2> QED BY <1>0, <1>3, <2>1, Rests DEF FinalizeLoad, disk, Readable
<1>4. CASE FinalizeSave
  <2>1. Readable(state) /\ state' = state
    BY <1>4, SaveBegun DEF FinalizeSave
  <2> QED BY <1>0, <1>4, <2>1, Rests DEF FinalizeSave, Readable
<1>5. CASE FinalizeCommit
  <2>1. /\ state' = fbuf /\ fbuf \in States /\ fbuf.seq = state.seq
        /\ Readable(state) /\ Readable(state')
    BY <1>5 DEF FinalizeCommit, SaveCommit, TypeInv, Buffers, Readable
  <2>2. NoFall
    BY <2>1 DEF NoFall, Readable, States, Versions
  <2> QED BY <1>0, <1>5, <2>1, <2>2 DEF FinalizeCommit
<1>6. CASE BeatLoad
  <2>1. Readable(state) /\ bbuf'.seq = state.seq
    BY <1>6, Changed DEF BeatLoad, TypeInv, TypeOK, Readable
  <2> QED BY <1>0, <1>6, <2>1, Rests DEF BeatLoad, disk, Alone, Readable
<1>7. CASE BeatSave
  <2>1. Readable(state) /\ state' = state
    BY <1>7, SaveBegun DEF BeatSave
  <2> QED BY <1>0, <1>7, <2>1, Rests DEF BeatSave, Readable
<1>8. CASE BeatCommit
  <2>1. /\ state' = bbuf /\ bbuf \in States /\ bbuf.seq = state.seq
        /\ Readable(state) /\ Readable(state')
    BY <1>8 DEF BeatCommit, SaveCommit, TypeInv, Buffers, Readable
  <2>2. NoFall
    BY <2>1 DEF NoFall, Readable, States, Versions
  <2> QED BY <1>0, <1>8, <2>1, <2>2 DEF BeatCommit
<1> QED BY <1>2, <1>3, <1>4, <1>5, <1>6, <1>7, <1>8 DEF PeriodicNext

\* so does the watchdog,
LEMMA BootSeq == TypeInv /\ SeqInv /\ BootNext => SeqInv' /\ NoFall
<1> SUFFICES ASSUME TypeInv, SeqInv, BootNext PROVE SeqInv' /\ NoFall
  OBVIOUS
<1>0. /\ fpc = "idle" /\ bpc = "idle" /\ spc = "idle"
      /\ fpc' = "idle" /\ bpc' = "idle" /\ spc' = "idle"
  BY DEF TypeInv, Buffers, Running, LinkInv, StageOnDisk, BootNext, Respawn,
     BootContinue, BootAfterRollback, BootCleared, BootBump, BootBumped,
     BootRevert, BootRevertSave, BootRolledBack, Dead, tasks
<1>1. proc \in Deciding => boot \in States
  BY DEF TypeInv, Buffers
<1>2. \A s \in States : s.seq \in Nat
  BY DEF States, Versions
<1>3. Readable(state) => state.seq >= state.seq
  BY <1>2 DEF Readable
<1> USE DEF SeqInv, StageInFiles, Deciding
<1>4. CASE Respawn \/ BootContinue
  BY <1>0, <1>4, Rests DEF Respawn, BootContinue, disk, Readable
<1>5. CASE BootAfterRollback
  <2>1. CASE SaveBegin
    <3>1. Readable(state) /\ state' = state
      BY <1>5, <2>1, SaveBegun DEF BootAfterRollback
    <3>2. [state EXCEPT !.status = "stable", !.boots = 0].seq = state.seq
      BY <3>1, Changed DEF Readable
    <3> QED BY <1>0, <1>3, <1>5, <2>1, <3>1, <3>2, Rests
            DEF BootAfterRollback, SaveBegin
  <2>2. CASE ~SaveBegin
    BY <1>0, <1>5, <2>2, Rests DEF BootAfterRollback
  <2> QED BY <2>1, <2>2
<1>6. CASE BootCleared \/ BootRolledBack
  <2>1. state' = boot /\ proc \in Deciding /\ proc' \in {"up", "down"}
    BY <1>6 DEF BootCleared, BootRolledBack, SaveCommit, Dead
  <2> QED BY <1>0, <2>1 DEF NoFall
<1>7. CASE BootBump
  BY <1>0, <1>7, Rests, Unreadables DEF BootBump, Readable
<1>8. CASE BootBumped
  <2>1. state' \in States /\ state'.seq = boot.seq
    BY <1>1, <1>8, Changed DEF BootBumped
  <2>2. NoFall
    BY <1>8, <2>1 DEF BootBumped, NoFall
  <2>3. proc' = "up" \/ (proc' = "reverting" /\ boot' = boot)
    BY <1>8 DEF BootBumped
  <2>4. state'.seq \in Nat
    BY <1>2, <2>1
  <2> QED BY <1>0, <2>1, <2>2, <2>3, <2>4
<1>9. CASE BootRevert
  <2>1. boot \in States /\ boot.prev \in Versions
    BY <1>1, <1>9 DEF BootRevert, States
  <2>2. boot'.seq = boot.seq
    BY <1>9, <2>1, Changed DEF BootRevert
  <2> QED BY <1>0, <1>9, <2>2, Rests DEF BootRevert, Readable
<1>10. CASE BootRevertSave
  <2>1. CASE SaveBegin
    <3>1. /\ Readable(state) <=> Readable(state')
          /\ Readable(state) => state' = state
      BY <2>1, SaveBegun
    <3> QED BY <1>0, <1>10, <2>1, <3>1, Rests
            DEF BootRevertSave, SaveBegin, Dead
  <2>2. CASE ~SaveBegin
    BY <1>0, <1>10, <2>2, Rests DEF BootRevertSave, Dead
  <2> QED BY <2>1, <2>2
<1> QED BY <1>4, <1>5, <1>6, <1>7, <1>8, <1>9, <1>10 DEF BootNext

\* and nothing else writes one.
LEMMA SeqStep == TypeInv /\ SeqInv /\ [Next]_vars => SeqInv' /\ NoFall
<1> SUFFICES ASSUME TypeInv, SeqInv, [Next]_vars PROVE SeqInv' /\ NoFall
  OBVIOUS
<1>1. CASE Exit \/ Crash
  BY <1>1, Rests DEF Exit, Crash, Dead, disk, SeqInv, StageInFiles, Deciding
<1>2. CASE UNCHANGED vars
  BY <1>2, Rests DEF vars, disk, tasks, SeqInv, StageInFiles, Deciding,
                     Readable
<1> QED BY <1>1, <1>2, StageSeq, PeriodicSeq, BootSeq DEF Next

\* On a current-thread runtime the installed sequence never falls while
\* state.json can be read, for any releases, crashes, health window and process
\* ids: neither a beat, nor a promotion, nor a rollback brings an older state
\* back (state.rs update, stage, run_boot_watchdog).  A multi-thread runtime lets
\* a beat write back what it read before a stage saved.
THEOREM SequenceKept == ~MultiThread /\ Spec => SequenceNeverFalls
<1>1. TypeInv /\ SeqInv /\ [Next]_vars
        => [Readable(state) /\ Readable(state') => state'.seq >= state.seq]_vars
  BY SeqStep DEF NoFall
<1> QED BY InitTyped, TypeStep, InitSeq, SeqStep, <1>1, PTL
        DEF Spec, SequenceNeverFalls

-----------------------------------------------------------------------------
(* What gc_versions leaves for a rollback, as long as nothing crashes.      *)

\* The version directories, as a list of their own.
Has(d, v) == \E i \in DOMAIN d : d[i] = v
Rising(d) == \A i, j \in DOMAIN d : i < j => d[i] < d[j]
AllBelow(d, v) == \A i \in DOMAIN d : d[i] < v
NoneAbove(d, v) == \A i \in DOMAIN d : d[i] <= v
EndsIn(d, v) == d # <<>> /\ d[Len(d)] = v
HeldIn(d, v) == Has(d, v) \/ (Len(d) > Keep /\ \A i \in DOMAIN d : d[i] > v)

\* OnDisk and PushedOut are about the list there is.
LEMMA HeldInDirs == \A v : HeldIn(dirs, v) <=> OnDisk(v) \/ PushedOut(v)
BY DEF HeldIn, Has, OnDisk, PushedOut

\* A version above all others is put behind them, and none of them goes.
LEMMA NewestExtracted ==
    ASSUME dirs \in Seq(Versions), Rising(dirs),
           NEW v \in Versions, AllBelow(dirs, v)
    PROVE  /\ Others(v) = dirs
           /\ Rising(Append(dirs, v)) /\ EndsIn(Append(dirs, v), v)
           /\ HeldIn(Append(dirs, v), v)
           /\ \A u \in Versions : u < v /\ HeldIn(dirs, u)
                                    => HeldIn(Append(dirs, v), u)
<1> DEFINE n == Len(dirs)
           e == Append(dirs, v)
<1>1. n \in Nat /\ DOMAIN dirs = 1..n /\ \A i \in 1..n : dirs[i] \in Versions
  BY LenProperties, ElementOfSeq
<1>2. \A i \in 1..n : dirs[i] < v /\ dirs[i] \in Int /\ v \in Int
  BY <1>1 DEF AllBelow, Versions
<1>3. Others(v) = dirs
  <2>1. ~OnDisk(v)
    BY <1>1, <1>2 DEF OnDisk
  <2> QED BY <2>1 DEF Others
<1>4. /\ DOMAIN e = 1..(n + 1) /\ Len(e) = n + 1 /\ e # <<>>
      /\ \A i \in 1..n : e[i] = dirs[i]
      /\ e[n + 1] = v
  BY <1>1, AppendProperties, LenProperties
<1> HIDE DEF e
<1>5. Rising(e)
  <2> SUFFICES ASSUME NEW i \in 1..(n + 1), NEW j \in 1..(n + 1), i < j
               PROVE  e[i] < e[j]
    BY <1>4 DEF Rising
  <2>1. CASE j = n + 1
    <3>1. i \in 1..n
      BY <1>1, <2>1
    <3> QED BY <1>2, <1>4, <2>1, <3>1
  <2>2. CASE j # n + 1
    <3>1. i \in 1..n /\ j \in 1..n
      BY <1>1, <2>2
    <3> QED BY <1>1, <1>4, <3>1 DEF Rising
  <2> QED BY <2>1, <2>2
<1>6. EndsIn(e, v)
  BY <1>4 DEF EndsIn
<1>7. Has(e, v)
  <2>1. n + 1 \in DOMAIN e
    BY <1>1, <1>4
  <2> QED BY <1>4, <2>1 DEF Has
<1>8. ASSUME NEW u \in Versions, u < v, HeldIn(dirs, u)
      PROVE  HeldIn(e, u)
  <2>1. CASE Has(dirs, u)
    <3>1. PICK i \in 1..n : dirs[i] = u
      BY <1>1, <2>1 DEF Has
    <3>2. i \in DOMAIN e /\ e[i] = u
      BY <1>1, <1>4, <3>1
    <3> QED BY <3>2 DEF HeldIn, Has
  <2>2. CASE Len(dirs) > Keep /\ \A i \in DOMAIN dirs : dirs[i] > u
    <3>1. Len(e) > Keep
      BY <1>1, <1>4, <2>2, UpgradeAssumption
    <3>2. ASSUME NEW i \in 1..(n + 1) PROVE e[i] > u
      <4>1. CASE i = n + 1
        BY <1>4, <1>8, <4>1 DEF Versions
      <4>2. CASE i \in 1..n
        BY <1>1, <1>4, <2>2, <4>2
      <4> QED BY <1>1, <4>1, <4>2
    <3> QED BY <1>4, <3>1, <3>2 DEF HeldIn
  <2> QED BY <1>8, <2>1, <2>2 DEF HeldIn
<1> QED BY <1>3, <1>5, <1>6, <1>7, <1>8 DEF e, HeldIn

\* What the collector keeps is the end of the list: as much of it as Keep
\* allows, besides the newest.
LEMMA CollectedIsTail ==
    ASSUME dirs \in Seq(Versions), Rising(dirs), NEW v \in Versions,
           EndsIn(dirs, v)
    PROVE  LET n == Len(dirs)
               k == IF n > Keep + 1 THEN n - Keep ELSE 1
               g == KeptAfterGc(v)
           IN  /\ Len(g) = (n - k) + 1 /\ DOMAIN g = 1..((n - k) + 1)
               /\ \A i \in 1..((n - k) + 1) : g[i] = dirs[(i + k) - 1]
<1> DEFINE n == Len(dirs)
           k == IF n > Keep + 1 THEN n - Keep ELSE 1
           o == SubSeq(dirs, 1, n - 1)
           s == SubSeq(o, k, n - 1)
<1>1. n \in Nat \ {0} /\ DOMAIN dirs = 1..n /\ Keep \in Nat \ {0}
      /\ dirs[n] = v /\ Len(dirs) = n
  BY LenProperties, EmptySeq, UpgradeAssumption DEF EndsIn
<1> HIDE DEF n
<1>2. \A i \in 1..n : dirs[i] \in Versions /\ dirs[i] \in Int
  <2>1. \A i \in 1..n : dirs[i] \in Versions
    BY <1>1, ElementOfSeq
  <2> QED BY <2>1 DEF Versions
<1>3. PlaceOf(v) = n
  <2>1. n \in 1..n
    BY <1>1
  <2>2. PlaceOf(v) \in 1..n /\ dirs[PlaceOf(v)] = v
    BY <1>1, <2>1 DEF PlaceOf
  <2>3. ASSUME NEW i \in 1..n, dirs[i] = v PROVE i = n
    <3>1. CASE i < n
      <4>1. dirs[i] < dirs[n]
        BY <1>1, <2>1, <3>1 DEF Rising
      <4> QED BY <1>1, <1>2, <2>3, <4>1
    <3> QED BY <1>1, <3>1
  <2> QED BY <2>2, <2>3
<1>4. /\ o \in Seq(Versions) /\ Len(o) = n - 1
      /\ \A i \in 1..(n - 1) : o[i] = dirs[i]
  <2>1. 1 \in Int /\ n - 1 \in Int /\ 1..(n - 1) \subseteq 1..n
    BY <1>1
  <2>2. \A i \in 1..(n - 1) : dirs[i] \in Versions
    BY <1>2, <2>1
  <2> QED BY <1>1, <2>1, <2>2, SubSeqProperties
<1>5. Others(v) = o
  <2>1. OnDisk(v)
    <3>1. n \in DOMAIN dirs
      BY <1>1
    <3> QED BY <1>1, <3>1 DEF OnDisk
  <2>2. Others(v) = o \o SubSeq(dirs, n + 1, n)
    BY <1>1, <1>3, <2>1 DEF Others, RemoveAt
  <2>3. SubSeq(dirs, n + 1, n) = << >>
    <3>1. n + 1 \in Int /\ n \in Int /\ ~(n + 1 <= n)
      BY <1>1
    <3>2. \A i \in (n + 1)..n : dirs[i] \in Versions
      BY <1>1
    <3>3. SubSeq(dirs, n + 1, n) \in Seq(Versions)
          /\ Len(SubSeq(dirs, n + 1, n)) = 0
      BY <3>1, <3>2, SubSeqProperties
    <3> QED BY <3>3, EmptySeq
  <2> HIDE DEF o
  <2>4. o \o << >> = o
    BY <1>4, ConcatEmptySeq
  <2> QED BY <2>2, <2>3, <2>4
<1>6. KeptAfterGc(v) = s \o <<v>>
  <2>1. Len(o) > Keep <=> n > Keep + 1
    BY <1>1, <1>4
  <2>2. n > Keep + 1 => (Len(o) - Keep) + 1 = n - Keep
    BY <1>1, <1>4
  <2> QED BY <1>1, <1>4, <1>5, <2>1, <2>2 DEF KeptAfterGc
<1>7. k \in 1..n
  BY <1>1
<1> HIDE DEF o, k
<1>8. /\ s \in Seq(Versions) /\ Len(s) = n - k
      /\ \A i \in 1..(n - k) : s[i] = dirs[(i + k) - 1]
  <2>1. k \in Int /\ n - 1 \in Int /\ k..(n - 1) \subseteq 1..(n - 1)
    BY <1>1, <1>7
  <2>2. \A i \in k..(n - 1) : o[i] \in Versions
    BY <1>1, <1>4, <2>1, ElementOfSeq
  <2>3. /\ s \in Seq(Versions)
        /\ Len(s) = IF k <= n - 1 THEN ((n - 1) - k) + 1 ELSE 0
        /\ \A i \in 1..(((n - 1) - k) + 1) : s[i] = o[(k + i) - 1]
    BY <2>1, <2>2, SubSeqProperties
  <2>4. Len(s) = n - k
    BY <1>1, <1>7, <2>3
  <2>5. ASSUME NEW i \in 1..(n - k) PROVE s[i] = dirs[(i + k) - 1]
    <3>1. i \in 1..(((n - 1) - k) + 1) /\ (k + i) - 1 = (i + k) - 1
          /\ (i + k) - 1 \in 1..(n - 1)
      BY <1>1, <1>7
    <3> QED BY <1>4, <2>3, <3>1
  <2> QED BY <2>3, <2>4, <2>5
<1> HIDE DEF s
<1>9. /\ <<v>> \in Seq(Versions) /\ Len(<<v>>) = 1 /\ <<v>>[1] = v
  OBVIOUS
<1>10. /\ s \o <<v>> \in Seq(Versions) /\ Len(s \o <<v>>) = Len(s) + 1
       /\ \A i \in 1..(Len(s) + 1) :
            (s \o <<v>>)[i] = IF i <= Len(s) THEN s[i] ELSE <<v>>[i - Len(s)]
  BY <1>8, <1>9, ConcatProperties
<1>11. ASSUME NEW i \in 1..((n - k) + 1)
       PROVE  (s \o <<v>>)[i] = dirs[(i + k) - 1]
  <2>1. i \in 1..(Len(s) + 1)
    BY <1>8
  <2>2. CASE i <= Len(s)
    <3>1. i \in 1..(n - k)
      BY <1>1, <1>7, <1>8, <2>2
    <3> QED BY <1>8, <1>10, <2>1, <2>2, <3>1
  <2>3. CASE ~(i <= Len(s))
    <3>1. i = (n - k) + 1 /\ i - Len(s) = 1 /\ (i + k) - 1 = n
      BY <1>1, <1>7, <1>8, <2>3
    <3> QED BY <1>1, <1>9, <1>10, <2>1, <2>3, <3>1
  <2> QED BY <2>2, <2>3
<1>12. DOMAIN (s \o <<v>>) = 1..((n - k) + 1)
  BY <1>8, <1>10, LenProperties
<1>13. Len(s \o <<v>>) = (n - k) + 1
  BY <1>8, <1>10
<1> QED BY <1>6, <1>11, <1>12, <1>13 DEF k, n

\* So it takes away only what it has newer versions for.
LEMMA CollectedHeld ==
    ASSUME dirs \in Seq(Versions), Rising(dirs), NEW v \in Versions,
           EndsIn(dirs, v)
    PROVE  /\ Rising(KeptAfterGc(v)) /\ EndsIn(KeptAfterGc(v), v)
           /\ \A u \in Versions : HeldIn(dirs, u) => HeldIn(KeptAfterGc(v), u)
<1> DEFINE n == Len(dirs)
           k == IF n > Keep + 1 THEN n - Keep ELSE 1
           g == KeptAfterGc(v)
           m == (n - k) + 1
<1>1. n \in Nat \ {0} /\ DOMAIN dirs = 1..n /\ Keep \in Nat \ {0}
      /\ dirs[n] = v /\ Len(dirs) = n
  BY LenProperties, EmptySeq, UpgradeAssumption DEF EndsIn
<1> HIDE DEF n
<1>2. \A i \in 1..n : dirs[i] \in Versions /\ dirs[i] \in Int
  <2>1. \A i \in 1..n : dirs[i] \in Versions
    BY <1>1, ElementOfSeq
  <2> QED BY <2>1 DEF Versions
<1>3. k \in 1..n /\ m \in 1..n /\ (n > Keep + 1 => m = Keep + 1)
      /\ (~(n > Keep + 1) => k = 1 /\ m = n)
  BY <1>1
<1>4. /\ Len(g) = m /\ DOMAIN g = 1..m
      /\ \A i \in 1..m : g[i] = dirs[(i + k) - 1]
  BY CollectedIsTail DEF n
<1>5. \A i \in 1..m : (i + k) - 1 \in 1..n
  BY <1>1, <1>3
<1> HIDE DEF g, m, k
<1>6. Rising(g)
  <2> SUFFICES ASSUME NEW i \in 1..m, NEW j \in 1..m, i < j
               PROVE  g[i] < g[j]
    BY <1>4 DEF Rising
  <2>1. (i + k) - 1 < (j + k) - 1
    BY <1>3
  <2> QED BY <1>1, <1>4, <1>5, <2>1 DEF Rising
<1>7. EndsIn(g, v)
  <2>1. m \in 1..m /\ (m + k) - 1 = n
    BY <1>1, <1>3 DEF m
  <2>2. g[Len(g)] = v
    BY <1>1, <1>4, <2>1
  <2>3. g # <<>>
    BY <1>4, <2>1
  <2> QED BY <2>2, <2>3 DEF EndsIn
<1>8. ASSUME NEW u \in Versions, HeldIn(dirs, u) PROVE HeldIn(g, u)
  <2>1. CASE Len(dirs) > Keep /\ \A i \in DOMAIN dirs : dirs[i] > u
    <3>1. m > Keep
      BY <1>1, <1>3, <2>1
    <3>2. \A i \in 1..m : g[i] > u
      BY <1>1, <1>4, <1>5, <2>1
    <3> QED BY <1>4, <3>1, <3>2 DEF HeldIn
  <2>2. ASSUME NEW j \in 1..n, dirs[j] = u PROVE HeldIn(g, u)
    <3>1. CASE j >= k
      <4>1. (j - k) + 1 \in 1..m /\ (((j - k) + 1) + k) - 1 = j
        BY <1>1, <1>3, <3>1 DEF m
      <4>2. g[(j - k) + 1] = u
        BY <1>4, <2>2, <4>1
      <4> QED BY <1>4, <4>1, <4>2 DEF HeldIn, Has
    <3>2. CASE j < k
      <4>1. n > Keep + 1 /\ m = Keep + 1
        BY <1>3, <3>2
      <4>2. ASSUME NEW i \in 1..m PROVE g[i] > u
        <5>1. j < (i + k) - 1 /\ (i + k) - 1 \in 1..n
          BY <1>3, <1>5, <3>2
        <5>2. dirs[j] < dirs[(i + k) - 1]
          BY <1>1, <5>1 DEF Rising
        <5> QED BY <1>2, <1>4, <2>2, <5>1, <5>2
      <4>3. m > Keep
        BY <1>1, <4>1
      <4> QED BY <1>4, <4>2, <4>3 DEF HeldIn
    <3> QED BY <1>3, <3>1, <3>2
  <2> QED BY <1>1, <1>8, <2>1, <2>2 DEF HeldIn, Has
<1> QED BY <1>6, <1>7, <1>8 DEF g

-----------------------------------------------------------------------------
(* Without a crash no file left behind is in the way of a stage.            *)

\* A temporary file nobody is about to rename: a bad binary died between the two
\* steps of a promotion (it may promote, if the health window is short enough
\* for an old beat), and process ids come back.
Stale ==
    /\ tmp
    /\ proc \notin {"clearing", "rolling"}
    /\ spc # "saving" /\ fpc # "saving" /\ bpc # "saving"

\* The version the watchdog last judged or is to judge,
Judged == IF proc = "bumping" THEN boot ELSE state

\* which then is one that never gets as far as a stage again: it is bad, or its
\* boots are used up and every boot goes back to the version before.
Stuck ==
    /\ Readable(Judged) /\ Judged.status = "pending_health"
    /\ current \in Bad \/ Judged.boots > MaxBoots
    /\ proc \in {"reverting", "reverted"} => Judged.boots > MaxBoots
    /\ proc \in {"boot", "bumping"} => exe = current
    /\ Running => exe \in Bad /\ current = exe

Booted == {"boot", "clearing", "bumping", "up", "exiting"}

TmpInv ==
    /\ spc # "idle" \/ bpc # "idle" => exe \notin Bad
    /\ fpc # "idle" => Readable(state) /\ state.status = "pending_health"
    /\ exe \in Bad /\ proc \in Booted => current = exe
    /\ Stale => Stuck

\* There is no temporary file at first.
LEMMA InitTmp == Init => TmpInv
BY UpgradeAssumption DEF Init, TmpInv, Stale, Booted

\* A stage is never held up, so it leaves none;
LEMMA StageTmp ==
    TypeInv /\ SeqInv /\ TmpInv /\ StageNext => TmpInv' /\ (spc = "composed" => ~tmp)
<1> SUFFICES ASSUME TypeInv, SeqInv, TmpInv, StageNext
             PROVE  TmpInv' /\ (spc = "composed" => ~tmp)
  OBVIOUS
<1>0. proc \in {"up", "exiting"}
  BY DEF StageNext, StageCheck, StageStops, StageExtract, StageLink, StageGc,
         StageCompose, StageSave, StageCommit, Running
<1>1. StageInFiles => fpc = "idle" /\ bpc = "idle" /\ exe \notin Bad
  BY DEF SeqInv, TmpInv, StageInFiles
<1>2. spc = "composed" => ~tmp
  BY <1>0, <1>1 DEF StageInFiles, TmpInv, Stale, Stuck, Running
<1> USE DEF TmpInv, Stale, Stuck, Running, Booted, Judged
<1>3. ASSUME NEW v \in Versions, StageCheck(v) PROVE TmpInv'
  BY <1>0, <1>3 DEF StageCheck, disk, Readable
<1>4. CASE StageStops
  BY <1>0, <1>4 DEF StageStops, disk, Readable
<1>5. CASE StageExtract
  BY <1>0, <1>5 DEF StageExtract, Readable
<1>6. CASE StageLink \/ StageGc \/ StageCompose
  BY <1>0, <1>1, <1>6
  DEF StageLink, StageGc, StageCompose, StageInFiles, disk
<1>7. CASE StageSave
  BY <1>0, <1>1, <1>2, <1>7 DEF StageSave, SaveBegin, StageInFiles
<1>8. CASE StageCommit
  BY <1>0, <1>1, <1>8 DEF StageCommit, SaveCommit, StageInFiles
<1> QED BY <1>2, <1>3, <1>4, <1>5, <1>6, <1>7, <1>8 DEF StageNext

\* nor do beats and promotions in a process that lives,
LEMMA PeriodicTmp == TypeInv /\ SeqInv /\ TmpInv /\ PeriodicNext => TmpInv'
<1> SUFFICES ASSUME TypeInv, SeqInv, TmpInv, PeriodicNext PROVE TmpInv'
  OBVIOUS
<1>0. /\ proc \in {"up", "exiting"} /\ proc' = proc /\ exe' = exe
      /\ spc' = spc /\ current' = current
  BY DEF PeriodicNext, FinalizeCheck, FinalizeLoad, FinalizeSave,
         FinalizeCommit, BeatLoad, BeatSave, BeatCommit, Running, disk
<1>1. /\ fpc # "idle" => ~StageInFiles /\ bpc = "idle"
      /\ bpc # "idle" => ~StageInFiles /\ fpc = "idle"
  BY DEF SeqInv
<1> USE DEF TmpInv, Stale, Stuck, Running, Booted, Judged
<1>2. CASE FinalizeCheck \/ FinalizeLoad
  BY <1>0, <1>2 DEF FinalizeCheck, FinalizeLoad, disk, Readable
<1>3. CASE FinalizeSave
  <2>1. Readable(state) /\ (SaveBegin => state' = state)
    BY <1>3, SaveBegun DEF FinalizeSave
  <2> QED BY <1>0, <1>1, <1>3, <2>1 DEF FinalizeSave, SaveBegin, Readable
<1>4. CASE FinalizeCommit
  BY <1>0, <1>1, <1>4 DEF FinalizeCommit, SaveCommit
<1>5. CASE BeatLoad
  BY <1>0, <1>5 DEF BeatLoad, disk, Readable
<1>6. CASE BeatSave
  BY <1>0, <1>1, <1>6 DEF BeatSave, SaveBegin, StageInFiles
<1>7. CASE BeatCommit
  BY <1>0, <1>1, <1>7 DEF BeatCommit, SaveCommit
<1> QED BY <1>2, <1>3, <1>4, <1>5, <1>6, <1>7 DEF PeriodicNext

\* and where one was left, each boot counts, and at last goes back.
LEMMA BootTmp == TypeInv /\ TmpInv /\ BootNext => TmpInv'
<1> SUFFICES ASSUME TypeInv, TmpInv, BootNext PROVE TmpInv'
  OBVIOUS
<1>0. /\ fpc = "idle" /\ bpc = "idle" /\ spc = "idle"
      /\ fpc' = "idle" /\ bpc' = "idle" /\ spc' = "idle"
  BY DEF TypeInv, Buffers, Running, LinkInv, StageOnDisk, BootNext, Respawn,
     BootContinue, BootAfterRollback, BootCleared, BootBump, BootBumped,
     BootRevert, BootRevertSave, BootRolledBack, Dead, tasks
<1> USE DEF TmpInv, Stale, Stuck, Running, Booted, Judged
<1>1. CASE Respawn
  BY <1>0, <1>1 DEF Respawn
<1>2. CASE BootContinue
  BY <1>0, <1>2 DEF BootContinue, disk
<1>3. CASE BootAfterRollback
  BY <1>0, <1>3 DEF BootAfterRollback, SaveBegin
<1>4. CASE BootCleared
  BY <1>0, <1>4 DEF BootCleared, SaveCommit
<1>5. CASE BootBump
  BY <1>0, <1>5 DEF BootBump
<1>6. CASE BootBumped
  <2>1. boot \in States /\ proc = "bumping"
    BY <1>6 DEF BootBumped, TypeInv, Buffers, Deciding
  <2>2. boot.boots \in 0..MostBoots /\ MostBoots \in Nat /\ MostBoots > MaxBoots
        /\ MaxBoots \in Nat
    BY <2>1, UpgradeAssumption DEF States, MostBoots
  <2>3. /\ state' \in States /\ state'.status = boot.status
        /\ state'.boots = IF boot.boots < MostBoots THEN boot.boots + 1
                          ELSE boot.boots
    <3>1. state' = [boot EXCEPT !.boots = IF @ < MostBoots THEN @ + 1 ELSE @]
      BY <1>6 DEF BootBumped
    <3>2. state' \in States
      BY <2>1, <3>1, Changed
    <3> QED BY <2>1, <3>1, <3>2 DEF States
  <2>4. Readable(state)'
    BY <2>3 DEF Readable
  <2>5. /\ BootsExhausted(boot.boots + 1) <=> state'.boots > MaxBoots
        /\ boot.boots > MaxBoots => state'.boots > MaxBoots
    BY <2>2, <2>3 DEF BootsExhausted
  <2>6. /\ UNCHANGED <<current, tmp, exe>>
        /\ proc' = IF BootsExhausted(boot.boots + 1) THEN "reverting" ELSE "up"
    BY <1>6 DEF BootBumped
  <2> QED BY <1>0, <2>1, <2>3, <2>4, <2>5, <2>6
<1>7. CASE BootRevert
  BY <1>0, <1>7 DEF BootRevert, Readable
<1>8. CASE BootRevertSave
  BY <1>0, <1>8 DEF BootRevertSave, SaveBegin, Dead, Readable
<1>9. CASE BootRolledBack
  BY <1>0, <1>9 DEF BootRolledBack, SaveCommit, Dead
<1> QED BY <1>1, <1>2, <1>3, <1>4, <1>5, <1>6, <1>7, <1>8, <1>9 DEF BootNext

\* The process ends by itself only between its tasks, or because it is bad.
LEMMA ExitTmp == TypeInv /\ SeqInv /\ TmpInv /\ Exit => TmpInv'
<1> SUFFICES ASSUME TypeInv, SeqInv, TmpInv, Exit PROVE TmpInv'
  OBVIOUS
<1>1. CASE proc = "exiting" /\ Alone("exit")
  BY <1>1 DEF Exit, Dead, disk, SeqInv, Alone, StageInFiles, TmpInv, Stale,
              Stuck, Running, Booted, Judged, Readable
<1>2. CASE Running /\ exe \in Bad \ Hangs
  <2>1. spc = "idle" /\ bpc = "idle" /\ current = exe
    BY <1>2 DEF TmpInv, Running, Booted
  <2> QED BY <1>2, <2>1 DEF Exit, Dead, disk, TmpInv, Stale, Stuck, Running,
                            Booted, Judged, Readable
<1> QED BY <1>1, <1>2 DEF Exit

-----------------------------------------------------------------------------
(* The target of a rollback.                                                *)

\* No version that a state names is newer than its sequence, and both are on
\* disk or have been pushed out by newer ones.
KeptAmong(d, s) ==
    s.cur <= s.seq /\ s.prev <= s.seq /\ HeldIn(d, s.cur) /\ HeldIn(d, s.prev)

\* Where state.json cannot be read it has not been saved yet, or the watchdog is
\* rewriting it.
Unsaved == ~Readable(state) /\ proc # "bumping"

\* The versions on disk are in the order of their sequences, none newer than the
\* file's but the one being staged; and so it is with every copy of the file.
FilesInv ==
    /\ Rising(dirs)
    /\ spc = "fetched" => AllBelow(dirs, sver)
    /\ StageInFiles => EndsIn(dirs, sver)
    /\ Readable(state) => KeptAmong(dirs, state)
    /\ Readable(state) /\ ~StageInFiles => NoneAbove(dirs, state.seq)
    /\ proc \in Deciding => KeptAmong(dirs, boot) /\ NoneAbove(dirs, boot.seq)
    /\ spc \in {"composed", "saving"} => KeptAmong(dirs, sbuf)
    /\ fpc \in {"loaded", "saving"} => KeptAmong(dirs, fbuf)
    /\ bpc \in {"loaded", "saving"} => KeptAmong(dirs, bbuf)
    /\ Unsaved => /\ exe = Installed /\ proc \in {"boot", "up"}
                  /\ HeldIn(dirs, Installed)
                  /\ ~StageInFiles => NoneAbove(dirs, Installed)

\* A change of a state that names no other versions keeps them.
LEMMA StillKept ==
    ASSUME NEW d, NEW s, NEW r, KeptAmong(d, s),
           r.cur \in {s.cur, s.prev}, r.prev \in {s.cur, s.prev}, r.seq = s.seq
    PROVE  KeptAmong(d, r)
BY DEF KeptAmong

\* What is behind all others is above them.
LEMMA LastIsTop ==
    ASSUME NEW d \in Seq(Versions), NEW v \in Versions, Rising(d), EndsIn(d, v)
    PROVE  NoneAbove(d, v) /\ HeldIn(d, v)
<1>1. Len(d) \in Nat \ {0} /\ DOMAIN d = 1..Len(d) /\ d[Len(d)] = v
  BY LenProperties, EmptySeq DEF EndsIn
<1>2. Len(d) \in DOMAIN d
  BY <1>1
<1>3. ASSUME NEW i \in DOMAIN d PROVE d[i] <= v
  <2>1. CASE i = Len(d)
    BY <1>1, <2>1 DEF Versions
  <2>2. CASE i # Len(d)
    <3>1. i < Len(d)
      BY <1>1, <2>2
    <3>2. d[i] < d[Len(d)]
      BY <1>2, <3>1 DEF Rising
    <3>3. d[i] \in Versions
      BY <1>1, ElementOfSeq
    <3> QED BY <1>1, <3>2, <3>3 DEF Versions
  <2> QED BY <2>1, <2>2
<1> QED BY <1>1, <1>2, <1>3 DEF NoneAbove, HeldIn, Has

\* The installer's version is the first on the list.
LEMMA InitFiles == Init => FilesInv
<1> SUFFICES ASSUME Init PROVE FilesInv
  OBVIOUS
<1>1. dirs = <<Installed>> /\ DOMAIN dirs = {1} /\ dirs[1] = Installed
  BY DEF Init
<1>2. Rising(dirs) /\ NoneAbove(dirs, Installed) /\ HeldIn(dirs, Installed)
  BY <1>1 DEF Rising, NoneAbove, HeldIn, Has, Installed
<1> QED BY <1>2, Unreadables
        DEF Init, FilesInv, Unsaved, StageInFiles, Deciding, Readable

\* A stage puts the newest version behind the others, lets the collector take
\* the oldest, and names as previous what the file called current.
LEMMA StageFiles ==
    TypeInv /\ SeqInv /\ TmpInv /\ FilesInv /\ StageNext => FilesInv'
<1> SUFFICES ASSUME TypeInv, SeqInv, TmpInv, FilesInv, StageNext
             PROVE  FilesInv'
  OBVIOUS
<1>0. /\ proc \in {"up", "exiting"} /\ proc' \in {"up", "exiting"}
      /\ proc \notin Deciding /\ proc' \notin Deciding
      /\ exe' = exe
  BY DEF StageNext, StageCheck, StageStops, StageExtract, StageLink, StageGc,
         StageCompose, StageSave, StageCommit, Running, Deciding
<1>1. dirs \in Seq(Versions) /\ (spc # "idle" => sver \in Versions)
  BY DEF TypeInv, LinkInv, StageOnDisk
<1>2. /\ Readable(state) => /\ state.cur \in Versions /\ state.prev \in Versions
                            /\ state.seq \in Versions
      /\ \A v \in Versions : v \in Nat /\ v >= Installed
      /\ Installed \in Versions
  BY UpgradeAssumption DEF Readable, States, Versions, Installed
<1>3. StageInFiles => fpc = "idle" /\ bpc = "idle"
  BY DEF SeqInv
<1>4. spc # "idle" /\ Readable(state) => sver > state.seq
  BY DEF SeqInv
<1> USE DEF FilesInv, Unsaved
<1>5. ASSUME NEW v \in Versions, StageCheck(v) PROVE FilesInv'
  <2>1. AllBelow(dirs, v)
    <3>0. \A i \in DOMAIN dirs : dirs[i] \in Versions
      BY <1>1, ElementOfSeq, LenProperties
    <3>1. CASE Readable(state)
      <4>1. v > state.seq /\ NoneAbove(dirs, state.seq)
        BY <1>5, <3>1 DEF StageCheck, SequenceAccepted, StageInFiles
      <4> QED BY <1>2, <3>0, <3>1, <4>1 DEF AllBelow, NoneAbove
    <3>2. CASE ~Readable(state)
      <4>1. v # Installed /\ NoneAbove(dirs, Installed)
        BY <1>0, <1>5, <3>2 DEF StageCheck, StageInFiles
      <4> QED BY <1>2, <3>0, <4>1 DEF AllBelow, NoneAbove
    <3> QED BY <3>1, <3>2
  <2> QED BY <1>0, <1>5, <2>1 DEF StageCheck, disk, StageInFiles, Readable
<1>6. CASE StageStops
  BY <1>0, <1>6 DEF StageStops, disk, StageInFiles, Readable
<1>7. CASE StageExtract
  <2>1. /\ spc = "fetched" /\ sver \in Versions /\ AllBelow(dirs, sver)
        /\ Rising(dirs) /\ fpc = "idle" /\ bpc = "idle"
    BY <1>1, <1>7 DEF StageExtract, Alone, SeqInv
  <2>2. /\ Others(sver) = dirs
        /\ Rising(Append(dirs, sver)) /\ EndsIn(Append(dirs, sver), sver)
        /\ HeldIn(Append(dirs, sver), sver)
        /\ \A u \in Versions : u < sver /\ HeldIn(dirs, u)
                                 => HeldIn(Append(dirs, sver), u)
    BY <1>1, <2>1, NewestExtracted
  <2>3. ~OnDisk(sver) /\ Installed < sver
    <3>1. \A i \in DOMAIN dirs : dirs[i] \in Versions
      BY <1>1, ElementOfSeq, LenProperties
    <3>2. PICK i \in DOMAIN dirs : dirs[i] = current
      BY DEF TypeInv, LinkInv, LinkedVersionPresent, OnDisk
    <3> QED BY <1>2, <2>1, <3>1, <3>2 DEF AllBelow, OnDisk
  <2>4. UNCHANGED <<state, proc, exe, boot, sbuf, fpc, fbuf, bpc, bbuf>>
    BY <1>7 DEF StageExtract
  <2>5. CASE dirs' = Append(dirs, sver) /\ spc' = "extracted" /\ sver' = sver
    <3>1. Readable(state) => KeptAmong(dirs', state)
      BY <1>2, <1>4, <2>1, <2>2, <2>5 DEF KeptAmong
    <3>2. Unsaved => HeldIn(dirs', Installed)
      BY <1>2, <2>2, <2>3, <2>5
    <3> QED BY <1>0, <2>1, <2>2, <2>4, <2>5, <3>1, <3>2
            DEF StageInFiles, Readable
  <2>6. CASE dirs' = dirs /\ spc' = "idle"
    BY <1>0, <2>1, <2>4, <2>6 DEF StageInFiles, Readable
  <2> QED BY <1>7, <2>2, <2>3, <2>5, <2>6 DEF StageExtract
<1>8. CASE StageLink
  BY <1>0, <1>3, <1>8 DEF StageLink, StageInFiles, Readable
<1>9. CASE StageGc
  <2>1. /\ spc = "linked" /\ sver \in Versions /\ EndsIn(dirs, sver)
        /\ dirs' = KeptAfterGc(sver) /\ spc' = "applied"
        /\ UNCHANGED <<state, proc, exe, boot, sver, sbuf, fpc, fbuf, bpc, bbuf>>
    BY <1>1, <1>9 DEF StageGc, StageInFiles
  <2>2. /\ Rising(dirs') /\ EndsIn(dirs', sver)
        /\ \A u \in Versions : HeldIn(dirs, u) => HeldIn(dirs', u)
    BY <1>1, <2>1, CollectedHeld
  <2>3. Readable(state) => KeptAmong(dirs', state)
    BY <1>2, <2>2 DEF KeptAmong
  <2> QED BY <1>0, <1>2, <1>3, <2>1, <2>2, <2>3 DEF StageInFiles, Readable
<1>10. CASE StageCompose
  <2>1. HeldIn(dirs, sver) /\ sver \in Versions
    BY <1>1, <1>10, LastIsTop DEF StageCompose, StageInFiles
  <2>2. KeptAmong(dirs, NewState(sver))
    <3> DEFINE prev == IF Readable(state) THEN state.cur ELSE exe
    <3>1. CASE Readable(state)
      <4>1. prev <= sver /\ HeldIn(dirs, prev)
        <5>1. state.cur <= state.seq /\ HeldIn(dirs, state.cur)
          BY <3>1 DEF KeptAmong
        <5>2. sver > state.seq
          BY <1>4, <1>10, <3>1 DEF StageCompose
        <5> QED BY <1>2, <2>1, <3>1, <5>1, <5>2
      <4> QED BY <1>2, <2>1, <4>1 DEF NewState, KeptAmong
    <3>2. CASE ~Readable(state)
      <4>1. prev <= sver /\ HeldIn(dirs, prev)
        BY <1>0, <1>2, <2>1, <3>2
      <4> QED BY <1>2, <2>1, <4>1 DEF NewState, KeptAmong
    <3> QED BY <3>1, <3>2
  <2> QED BY <1>0, <1>3, <1>10, <2>2
          DEF StageCompose, disk, StageInFiles, Readable
<1>11. CASE StageSave
  <2>1. spc = "composed" /\ ~tmp
    BY <1>11, StageTmp DEF StageSave
  <2>2. SaveBegin /\ spc' = "saving" /\ UNCHANGED <<sver, sbuf>>
    BY <1>11, <2>1 DEF StageSave
  <2>3. /\ Readable(state) <=> Readable(state')
        /\ Readable(state) => state' = state
    BY <2>2, SaveBegun
  <2> QED BY <1>0, <1>3, <1>11, <2>1, <2>2, <2>3 DEF StageSave, StageInFiles
<1>12. CASE StageCommit
  <2>1. /\ spc = "saving" /\ state' = sbuf /\ spc' = "idle"
        /\ UNCHANGED <<dirs, exe, boot, fpc, fbuf, bpc, bbuf>>
    BY <1>12 DEF StageCommit, SaveCommit
  <2>2. sbuf \in States /\ sbuf.seq = sver
    BY <2>1 DEF TypeInv, Buffers, SeqInv
  <2>3. NoneAbove(dirs, sver)
    BY <1>1, <2>1, LastIsTop DEF StageInFiles
  <2>4. fpc = "idle" /\ bpc = "idle"
    BY <1>3, <2>1 DEF StageInFiles
  <2> QED BY <1>0, <2>1, <2>2, <2>3, <2>4 DEF StageInFiles, Readable
<1> QED BY <1>5, <1>6, <1>7, <1>8, <1>9, <1>10, <1>11, <1>12 DEF StageNext

\* Beats and promotions write back the versions they read.
LEMMA PeriodicFiles ==
    TypeInv /\ SeqInv /\ FilesInv /\ PeriodicNext => FilesInv'
<1> SUFFICES ASSUME TypeInv, SeqInv, FilesInv, PeriodicNext PROVE FilesInv'
  OBVIOUS
<1>0. /\ proc \in {"up", "exiting"} /\ proc \notin Deciding
      /\ UNCHANGED <<proc, exe, dirs, spc, sver, sbuf>>
  BY DEF PeriodicNext, FinalizeCheck, FinalizeLoad, FinalizeSave,
         FinalizeCommit, BeatLoad, BeatSave, BeatCommit, Running, Deciding, disk
<1>1. /\ fpc # "idle" => ~StageInFiles /\ bpc = "idle"
      /\ bpc # "idle" => ~StageInFiles /\ fpc = "idle"
  BY DEF SeqInv
<1>2. StageInFiles' <=> StageInFiles
  BY <1>0 DEF StageInFiles
<1> USE DEF FilesInv, Unsaved
<1>3. CASE FinalizeCheck
  BY <1>0, <1>2, <1>3 DEF FinalizeCheck, disk, Readable
<1>4. CASE FinalizeLoad
  <2>1. Readable(state) /\ fbuf' = [state EXCEPT !.status = "stable"]
    BY <1>4 DEF FinalizeLoad, TypeInv, Buffers
  <2>2. fbuf'.cur = state.cur /\ fbuf'.prev = state.prev /\ fbuf'.seq = state.seq
    BY <2>1 DEF Readable, States
  <2>3. KeptAmong(dirs, fbuf')
    BY <2>1, <2>2, StillKept
  <2> QED BY <1>0, <1>2, <1>4, <2>3 DEF FinalizeLoad, disk, Readable
<1>5. CASE FinalizeSave \/ BeatSave
  <2>1. state' = state
    BY <1>5, SaveBegun DEF FinalizeSave, BeatSave, SeqInv
  <2> QED BY <1>0, <1>2, <1>5, <2>1 DEF FinalizeSave, BeatSave, Readable
<1>6. CASE FinalizeCommit
  <2>1. /\ state' = fbuf /\ fbuf \in States /\ fbuf.seq = state.seq
        /\ Readable(state) /\ KeptAmong(dirs, fbuf) /\ ~StageInFiles
    BY <1>1, <1>6 DEF FinalizeCommit, SaveCommit, TypeInv, Buffers, SeqInv
  <2> QED BY <1>0, <1>2, <1>6, <2>1 DEF FinalizeCommit, Readable
<1>7. CASE BeatLoad
  <2>1. /\ bbuf'.cur = state.cur /\ bbuf'.prev = state.prev
        /\ bbuf'.seq = state.seq /\ Readable(state)
    BY <1>7 DEF BeatLoad, Readable, States
  <2>2. KeptAmong(dirs, bbuf')
    BY <2>1, StillKept
  <2> QED BY <1>0, <1>2, <1>7, <2>2 DEF BeatLoad, disk, Readable
<1>8. CASE BeatCommit
  <2>1. /\ state' = bbuf /\ bbuf \in States /\ bbuf.seq = state.seq
        /\ Readable(state) /\ KeptAmong(dirs, bbuf) /\ ~StageInFiles
    BY <1>1, <1>8 DEF BeatCommit, SaveCommit, TypeInv, Buffers, SeqInv
  <2> QED BY <1>0, <1>2, <1>8, <2>1 DEF BeatCommit, Readable
<1> QED BY <1>3, <1>4, <1>5, <1>6, <1>7, <1>8 DEF PeriodicNext

\* The watchdog at most swaps the two.
LEMMA BootFiles == TypeInv /\ FilesInv /\ BootNext => FilesInv'
<1> SUFFICES ASSUME TypeInv, FilesInv, BootNext PROVE FilesInv'
  OBVIOUS
<1>0. /\ fpc = "idle" /\ bpc = "idle" /\ spc = "idle"
      /\ fpc' = "idle" /\ bpc' = "idle" /\ spc' = "idle"
      /\ ~StageInFiles /\ ~StageInFiles' /\ dirs' = dirs
  BY DEF TypeInv, Buffers, Running, LinkInv, StageOnDisk, BootNext, Respawn,
     BootContinue, BootAfterRollback, BootCleared, BootBump, BootBumped,
     BootRevert, BootRevertSave, BootRolledBack, Dead, tasks, StageInFiles,
     disk
<1>1. proc \in Deciding => boot \in States
  BY DEF TypeInv, Buffers
<1>2. Unsaved => proc = "boot" \/ proc = "up"
  BY DEF FilesInv
<1> USE DEF FilesInv, Unsaved, Deciding
<1>3. CASE Respawn \/ BootContinue
  BY <1>0, <1>2, <1>3 DEF Respawn, BootContinue, disk, Readable
<1>4. CASE BootAfterRollback
  <2>1. CASE SaveBegin
    <3>1. Readable(state) /\ state' = state
      BY <1>4, <2>1, SaveBegun DEF BootAfterRollback
    <3>2. boot' = [state EXCEPT !.status = "stable", !.boots = 0]
      BY <1>4, <2>1 DEF BootAfterRollback, SaveBegin
    <3>3. boot'.cur = state.cur /\ boot'.prev = state.prev /\ boot'.seq = state.seq
      BY <3>1, <3>2 DEF Readable, States
    <3>4. KeptAmong(dirs, boot') /\ NoneAbove(dirs, boot'.seq)
      BY <1>0, <3>1, <3>3, StillKept
    <3> QED BY <1>0, <1>4, <3>1, <3>4 DEF BootAfterRollback
  <2>2. CASE ~SaveBegin
    BY <1>0, <1>4, <2>2 DEF BootAfterRollback, Readable
  <2> QED BY <2>1, <2>2
<1>5. CASE BootCleared \/ BootRolledBack
  <2>1. state' = boot /\ proc \in Deciding /\ proc' \in {"up", "down"}
    BY <1>5 DEF BootCleared, BootRolledBack, SaveCommit, Dead
  <2> QED BY <1>0, <1>1, <2>1 DEF Readable
<1>6. CASE BootBump
  BY <1>0, <1>6, Unreadables DEF BootBump, Readable
<1>7. CASE BootBumped
  <2>1. boot \in States /\ proc = "bumping"
    BY <1>1, <1>7 DEF BootBumped
  <2>2. state' \in States /\ state'.seq = boot.seq
    BY <1>7, <2>1, Changed DEF BootBumped
  <2>3. state'.cur = boot.cur /\ state'.prev = boot.prev
    BY <1>7, <2>1 DEF BootBumped, States
  <2>4. KeptAmong(dirs, state') /\ NoneAbove(dirs, state'.seq)
    BY <2>1, <2>2, <2>3, StillKept
  <2>5. proc' = "up" \/ (proc' = "reverting" /\ boot' = boot)
    BY <1>7 DEF BootBumped
  <2> QED BY <1>0, <2>1, <2>2, <2>4, <2>5 DEF Readable
<1>8. CASE BootRevert
  <2>1. boot \in States /\ proc = "reverting" /\ proc' = "reverted"
        /\ state' = state
    BY <1>1, <1>8 DEF BootRevert
  <2>2. /\ boot'.cur \in {boot.cur, boot.prev}
        /\ boot'.prev \in {boot.cur, boot.prev} /\ boot'.seq = boot.seq
    BY <1>8, <2>1 DEF BootRevert, States
  <2>3. KeptAmong(dirs, boot') /\ NoneAbove(dirs, boot'.seq)
    BY <2>1, <2>2, StillKept
  <2> QED BY <1>0, <1>2, <2>1, <2>3 DEF Readable
<1>9. CASE BootRevertSave
  <2>1. CASE SaveBegin
    <3>1. Readable(state) /\ state' = state
      BY <1>2, <1>9, <2>1, SaveBegun DEF BootRevertSave
    <3> QED BY <1>0, <1>9, <2>1, <3>1 DEF BootRevertSave, SaveBegin, Dead
  <2>2. CASE ~SaveBegin
    BY <1>0, <1>2, <1>9, <2>2 DEF BootRevertSave, Dead, Readable
  <2> QED BY <2>1, <2>2
<1> QED BY <1>3, <1>4, <1>5, <1>6, <1>7, <1>8, <1>9 DEF BootNext

\* Until the first crash, nothing is in the way and every version named is kept.
KeepInv == crashes = 0 => TmpInv /\ FilesInv

\* What has not crashed after a step had not before it.
LEMMA NoCrashBefore ==
    ASSUME TypeInv, [Next]_vars, crashes' = 0 PROVE crashes = 0 /\ ~Crash
<1>1. ~Crash
  BY DEF Crash, TypeInv, TypeOK
<1>2. crashes' = crashes \/ Crash
  BY DEF Next, vars, StageNext, StageCheck, StageStops, StageExtract,
     StageLink, StageGc, StageCompose, StageSave, StageCommit, PeriodicNext,
     FinalizeCheck, FinalizeLoad, FinalizeSave, FinalizeCommit, BeatLoad,
     BeatSave, BeatCommit, BootNext, Respawn, BootContinue, BootAfterRollback,
     BootCleared, BootBump, BootBumped, BootRevert, BootRevertSave,
     BootRolledBack, Exit
<1> QED BY <1>1, <1>2

\* Every step keeps it so.
LEMMA KeepStep ==
    TypeInv /\ SeqInv /\ KeepInv /\ [Next]_vars => KeepInv'
<1> SUFFICES ASSUME TypeInv, SeqInv, KeepInv, [Next]_vars, crashes' = 0
             PROVE  TmpInv' /\ FilesInv'
  BY DEF KeepInv
<1>1. crashes = 0 /\ ~Crash
  BY NoCrashBefore
<1>3. TmpInv /\ FilesInv
  BY <1>1 DEF KeepInv
<1>4. CASE Exit
  <2>1. TmpInv'
    BY <1>3, <1>4, ExitTmp
  <2>2. ~StageInFiles
    BY <1>3, <1>4 DEF Exit, SeqInv, Alone, TmpInv, StageInFiles
  <2>3. Readable(state)
    BY <1>3, <1>4, UpgradeAssumption
    DEF Exit, FilesInv, Unsaved, Running, Installed
  <2>4. FilesInv'
    BY <1>3, <1>4, <2>2, <2>3
    DEF Exit, Dead, disk, FilesInv, Unsaved, StageInFiles, Deciding, Readable
  <2> QED BY <2>1, <2>4
<1>5. CASE UNCHANGED vars
  <2>1. TmpInv'
    BY <1>3, <1>5 DEF vars, disk, tasks, TmpInv, Stale, Stuck, Judged, Booted,
                      Running, Readable
  <2>2. FilesInv'
    BY <1>3, <1>5 DEF vars, disk, tasks, FilesInv, Unsaved, StageInFiles,
                      Deciding, Readable
  <2> QED BY <2>1, <2>2
<1> QED BY <1>1, <1>3, <1>4, <1>5, StageTmp, PeriodicTmp, BootTmp, StageFiles,
           PeriodicFiles, BootFiles DEF Next

\* On a current-thread runtime, until something crashes, a pending version can
\* always be rolled back unless gc_versions has kept more than Keep newer ones:
\* for any releases, any of them bad, any Keep, health window and process ids,
\* and also with a second stage in the drain (stage, gc_versions,
\* revert_to_previous).
THEOREM TargetKept == ~MultiThread /\ Spec => []RollbackTargetKept
<1>1. Init => KeepInv
  BY InitTmp, InitFiles DEF KeepInv
<1>2. KeepInv => RollbackTargetKept
  BY HeldInDirs DEF KeepInv, FilesInv, KeptAmong, RollbackTargetKept
<1> QED BY InitTyped, TypeStep, InitSeq, SeqStep, KeepStep, <1>1, <1>2, PTL
        DEF Spec

-----------------------------------------------------------------------------
(* What is called stable.                                                   *)

\* A pending state is of the newest release, and what it would go back to is a
\* good version, or one staged before it by the same process, in the drain.
\* Any other state names a good version, unless the code was misled in one of
\* the ways of Excused.  Only good versions beat.
Sound(s) ==
    /\ s.beat \notin Bad
    /\ s.cur \in Bad => s.cur <= s.seq
    /\ s.status = "pending_health"
         => s.cur = s.seq /\ (s.prev \in Bad => StageInDrain /\ s.prev < s.cur)
    /\ s.status # "pending_health" /\ s.cur \in Bad => Excused(s)

\* The file and every buffer are sound, only a good version stages, and what is
\* about to be promoted has beaten: itself, if the window is long and nothing
\* is staged in the drain.
SoundInv ==
    /\ Readable(state) => Sound(state)
    /\ proc \in Deciding => Sound(boot)
    /\ proc \in {"bumping", "reverting"} => boot.status = "pending_health"
    /\ spc # "idle" => exe \notin Bad
    /\ spc \in {"composed", "saving"}
         => Sound(sbuf) /\ sbuf.status = "pending_health"
    /\ fpc = "checked"
         => /\ state.beat # 0
            /\ ShortWindow \/ StageInDrain \/ state.cur \notin Bad
    /\ fpc \in {"loaded", "saving"} => Sound(fbuf)
    /\ bpc \in {"loaded", "saving"} => Sound(bbuf)

\* A crash leaves a bad version in the file and a good one linked only between
\* the two halves of a rollback, which the next boot then does again.
Pending(s) == s.status = "pending_health" /\ s.boots > MaxBoots
Left(s) ==
    s.cur \in Bad /\ current \notin Bad => Pending(s) /\ current = s.prev

\* With no stage in the drain, the file names a good version whenever a good
\* one has come up, so a bad one is never what a stage would go back to.
GoodRun == ~StageInDrain =>
    /\ spc # "idle" => proc = "up"
    /\ spc \in {"linked", "applied", "composed", "saving"} => current = sver
    /\ spc \in {"composed", "saving"} => sbuf.cur = sver
    /\ fpc \in {"loaded", "saving"} => fbuf.cur = state.cur
    /\ bpc \in {"loaded", "saving"} => bbuf.cur = state.cur
    /\ proc = "up" /\ exe \in Bad => current \in Bad
    /\ proc = "up" /\ exe \notin Bad /\ Readable(state) => state.cur \notin Bad
    /\ proc = "exiting" /\ Readable(state) /\ state.cur \in Bad
         => current \in Bad
    /\ proc \in {"boot", "clearing", "bumping", "reverting"} => exe = current
    /\ ~Running /\ Readable(state) => Left(state)
    /\ proc \in {"bumping", "reverting"} => Left(boot)
    /\ proc = "reverting"
         => Pending(state) /\ state.prev = boot.prev /\ state.cur = boot.cur
    /\ proc \in {"clearing", "reverted", "rolling"}
         => (boot.cur \in Bad => current \in Bad)

\* Nothing has been saved at first.
LEMMA InitSettle == Init => SoundInv /\ GoodRun
BY Unreadables DEF Init, SoundInv, GoodRun, Deciding, Running, Readable

\* Extraction and collection bring no version but the one they are called for.
LEMMA NoOtherBrought ==
    ASSUME dirs \in Seq(Versions), NEW v \in Versions,
           \/ dirs' = Append(Others(v), v)
           \/ dirs' = Others(v)
           \/ dirs' = KeptAfterGc(v)
    PROVE  \A u : OnDisk(u)' => u = v \/ OnDisk(u)
<1> DEFINE o == Others(v)
           n == Len(o)
<1>1. o \in Seq(Versions) /\ n \in Nat /\ DOMAIN o = 1..n
  BY OthersKeep, LenProperties
<1>2. ASSUME NEW i \in 1..n PROVE OnDisk(o[i])
  <2>1. CASE ~OnDisk(v)
    BY <1>1, <2>1 DEF Others, OnDisk
  <2>2. CASE OnDisk(v)
    <3> DEFINE p == PlaceOf(v)
               m == Len(dirs)
               a == SubSeq(dirs, 1, p - 1)
               b == SubSeq(dirs, p + 1, m)
    <3>1. m \in Nat /\ DOMAIN dirs = 1..m /\ p \in 1..m
      BY <2>2, LenProperties DEF OnDisk, PlaceOf
    <3>2. \A j \in 1..m : dirs[j] \in Versions
      BY ElementOfSeq
    <3>3. /\ a \in Seq(Versions) /\ Len(a) = p - 1
          /\ \A j \in 1..(p - 1) : a[j] = dirs[j]
      <4>1. 1 \in Int /\ p - 1 \in Int /\ 1..(p - 1) \subseteq 1..m
        BY <3>1
      <4>2. \A j \in 1..(p - 1) : dirs[j] \in Versions
        BY <3>2, <4>1
      <4> QED BY <3>1, <4>1, <4>2, SubSeqProperties
    <3>4. /\ b \in Seq(Versions) /\ Len(b) = m - p
          /\ \A j \in 1..(m - p) : b[j] = dirs[j + p]
      <4>1. p + 1 \in Int /\ m \in Int /\ (p + 1)..m \subseteq 1..m
        BY <3>1
      <4>2. \A j \in (p + 1)..m : dirs[j] \in Versions
        BY <3>2, <4>1
      <4> QED BY <3>1, <4>1, <4>2, SubSeqProperties
    <3>5. o = a \o b
      BY <2>2 DEF Others, RemoveAt
    <3> HIDE DEF p, m, a, b, o
    <3>6. /\ n = Len(a) + Len(b)
          /\ o[i] = IF i <= Len(a) THEN a[i] ELSE b[i - Len(a)]
      <4>1. /\ Len(a \o b) = Len(a) + Len(b)
            /\ \A j \in 1..(Len(a) + Len(b)) :
                 (a \o b)[j] = IF j <= Len(a) THEN a[j] ELSE b[j - Len(a)]
        BY <3>3, <3>4, ConcatProperties
      <4> QED BY <3>5, <4>1
    <3>7. CASE i <= Len(a)
      <4>1. i \in 1..(p - 1) /\ i \in 1..m
        BY <3>1, <3>3, <3>7
      <4>2. o[i] = dirs[i]
        BY <3>3, <3>6, <3>7, <4>1
      <4> QED BY <3>1, <4>1, <4>2 DEF OnDisk
    <3>8. CASE ~(i <= Len(a))
      <4>1. i - Len(a) \in 1..(m - p) /\ (i - Len(a)) + p \in 1..m
        BY <3>1, <3>3, <3>4, <3>6, <3>8
      <4>2. o[i] = dirs[(i - Len(a)) + p]
        BY <3>4, <3>6, <3>8, <4>1
      <4> QED BY <3>1, <4>1, <4>2 DEF OnDisk
    <3> QED BY <3>7, <3>8
  <2> QED BY <2>1, <2>2
<1> HIDE DEF o, n
<1>3. CASE dirs' = o
  BY <1>1, <1>2, <1>3 DEF OnDisk
<1>4. CASE dirs' = Append(o, v)
  <2>1. /\ DOMAIN dirs' = 1..(n + 1)
        /\ \A j \in 1..n : dirs'[j] = o[j]
        /\ dirs'[n + 1] = v
    BY <1>1, <1>4, AppendProperties, LenProperties DEF n
  <2>2. \A j \in 1..(n + 1) : j \in 1..n \/ j = n + 1
    BY <1>1
  <2> QED BY <1>2, <2>1, <2>2 DEF OnDisk
<1>5. CASE dirs' = KeptAfterGc(v)
  <2> DEFINE k == IF n > Keep THEN n - Keep + 1 ELSE 1
             s == SubSeq(o, k, n)
  <2>1. k \in 1..(n + 1)
    BY <1>1, UpgradeAssumption
  <2>2. k \in Int /\ n \in Int /\ k..n \subseteq 1..n
    BY <1>1, <2>1
  <2>3. \A j \in k..n : o[j] \in Versions
    BY <1>1, <2>2, ElementOfSeq DEF n
  <2>4. dirs' = s \o <<v>>
    BY <1>5 DEF KeptAfterGc, o, n
  <2> HIDE DEF k
  <2>5. /\ s \in Seq(Versions) /\ Len(s) = n - k + 1
        /\ \A j \in 1..(n - k + 1) : s[j] = o[k + j - 1]
    BY <1>1, <2>1, <2>2, <2>3, SubSeqProperties
  <2> HIDE DEF s
  <2>6. /\ <<v>> \in Seq(Versions) /\ Len(<<v>>) = 1 /\ <<v>>[1] = v
    OBVIOUS
  <2>7. /\ dirs' \in Seq(Versions) /\ Len(dirs') = Len(s) + 1
        /\ \A j \in 1..(Len(s) + 1) :
             dirs'[j] = IF j <= Len(s) THEN s[j] ELSE <<v>>[j - Len(s)]
    BY <2>4, <2>5, <2>6, ConcatProperties
  <2>8. ASSUME NEW j \in 1..(Len(s) + 1) PROVE dirs'[j] = v \/ OnDisk(dirs'[j])
    <3>1. CASE j <= Len(s)
      <4>1. j \in 1..(n - k + 1) /\ k + j - 1 \in 1..n
        BY <1>1, <2>1, <2>5, <3>1
      <4>2. dirs'[j] = o[k + j - 1]
        BY <2>5, <2>7, <3>1, <4>1
      <4> QED BY <1>2, <4>1, <4>2
    <3>2. CASE ~(j <= Len(s))
      <4>1. j - Len(s) = 1
        BY <1>1, <2>1, <2>5, <3>2
      <4> QED BY <2>6, <2>7, <3>2, <4>1
    <3> QED BY <3>1, <3>2
  <2>9. DOMAIN dirs' = 1..(Len(s) + 1)
    BY <2>7, LenProperties
  <2> QED BY <2>8, <2>9 DEF OnDisk
<1> QED BY <1>3, <1>4, <1>5 DEF o

\* What is sound stays so while no directory comes back.
LEMMA StageSound ==
    TypeInv /\ SeqInv /\ SoundInv /\ GoodRun /\ StageNext => SoundInv'
<1> SUFFICES ASSUME TypeInv, SeqInv, SoundInv, GoodRun, StageNext
             PROVE  SoundInv'
  OBVIOUS
<1>1. /\ proc \in {"up", "exiting"} /\ proc' \in {"up", "exiting"}
      /\ proc \notin Deciding /\ proc' \notin Deciding /\ exe' = exe
      /\ fpc = "idle" /\ bpc = "idle" /\ fpc' = "idle" /\ bpc' = "idle"
  BY DEF StageNext, StageCheck, StageStops, StageExtract, StageLink, StageGc,
         StageCompose, StageSave, StageCommit, Running, Deciding, SeqInv, Alone,
         StageInFiles
<1>2. /\ spc # "idle" => exe \notin Bad
      /\ Readable(state) => Sound(state)
      /\ spc \in {"composed", "saving"}
           => Sound(sbuf) /\ sbuf.status = "pending_health"
  BY DEF SoundInv
<1>3. spc # "idle" => sver \in Versions
  BY DEF TypeInv, LinkInv, StageOnDisk
<1>4. ~StageInDrain /\ spc # "idle" /\ Readable(state) => state.cur \notin Bad
  BY <1>2 DEF GoodRun
<1>5. spc # "idle" /\ Readable(state) => sver > state.seq
  BY DEF SeqInv
<1> SUFFICES /\ Readable(state') => Sound(state)'
             /\ spc' # "idle" => exe \notin Bad
             /\ spc' \in {"composed", "saving"}
                  => Sound(sbuf)' /\ sbuf'.status = "pending_health"
  BY <1>1 DEF SoundInv, Readable
<1>6. ASSUME NEW v \in Versions, StageCheck(v)
      PROVE  /\ Readable(state') => Sound(state)'
             /\ spc' # "idle" => exe \notin Bad
             /\ spc' \notin {"composed", "saving"}
  BY <1>2, <1>6 DEF StageCheck, disk, Readable, Sound, Excused, OnDisk
<1>7. CASE StageStops
  BY <1>2, <1>7 DEF StageStops, disk, Readable, Sound, Excused, OnDisk
<1>8. CASE StageExtract
  <2>1. /\ state' = state /\ spc = "fetched"
        /\ spc' \notin {"composed", "saving"}
        /\ \/ dirs' = dirs
           \/ dirs' = Append(Others(sver), sver)
           \/ dirs' = Others(sver)
    BY <1>8 DEF StageExtract
  <2>2. \A u : OnDisk(u)' => u = sver \/ OnDisk(u)
    <3>1. CASE dirs' = dirs
      BY <3>1 DEF OnDisk
    <3>2. CASE dirs' # dirs
      BY <1>3, <2>1, <3>2, NoOtherBrought DEF TypeInv, TypeOK
    <3> QED BY <3>1, <3>2
  <2>3. ASSUME Readable(state), state.status # "pending_health",
               state.cur \in Bad
        PROVE  Excused(state)'
    <3>1. Excused(state)
      BY <1>2, <2>3 DEF Sound
    <3>2. CASE OnDisk(state.prev)' /\ ~OnDisk(state.prev)
      <4>1. state.prev = sver /\ StageInDrain
        BY <1>4, <2>1, <2>2, <2>3, <3>2
      <4>2. /\ sver > state.seq /\ state.cur <= state.seq
            /\ sver \in Nat /\ state.seq \in Nat /\ state.cur \in Nat
        BY <1>2, <1>3, <1>5, <2>1, <2>3 DEF Sound, Readable, States, Versions
      <4>3. state.prev > state.cur
        BY <4>1, <4>2
      <4> QED BY <2>1, <4>1, <4>3 DEF Excused
    <3>3. CASE ~(OnDisk(state.prev)' /\ ~OnDisk(state.prev))
      <4> QED BY <2>1, <3>1, <3>3 DEF Excused, OnDisk
    <3> QED BY <3>2, <3>3
  <2> QED BY <1>2, <2>1, <2>3 DEF Readable, Sound
<1>9. CASE StageLink
  BY <1>2, <1>9 DEF StageLink, Readable, Sound, Excused, OnDisk
<1>10. CASE StageGc
  <2>1. /\ state' = state /\ spc = "linked" /\ spc' = "applied"
        /\ dirs' = KeptAfterGc(sver) /\ OnDisk(sver)
    BY <1>10 DEF StageGc, TypeInv, LinkInv, LinkedVersionPresent, StageOnDisk
  <2>2. \A u : OnDisk(u)' => OnDisk(u)
    BY <1>3, <2>1, NoOtherBrought DEF TypeInv, TypeOK
  <2> QED BY <1>2, <2>1, <2>2 DEF Readable, Sound, Excused
<1>11. CASE StageCompose
  <2>1. /\ spc = "applied" /\ spc' = "composed" /\ UNCHANGED disk
        /\ sbuf' = NewState(sver)
    BY <1>11 DEF StageCompose
  <2>2. /\ sbuf'.cur = sver /\ sbuf'.seq = sver /\ sbuf'.beat = 0
        /\ sbuf'.status = "pending_health"
        /\ sbuf'.prev = IF Readable(state) THEN state.cur ELSE exe
    BY <2>1 DEF NewState
  <2>3. 0 \notin Bad /\ sver \in Nat
    BY <1>3, <2>1, UpgradeAssumption DEF Versions
  <2>4. ASSUME sbuf'.prev \in Bad
        PROVE  StageInDrain /\ sbuf'.prev < sver
    <3>1. Readable(state) /\ state.cur \in Bad /\ sbuf'.prev = state.cur
      BY <1>2, <2>1, <2>2, <2>4
    <3>2. StageInDrain /\ state.cur <= state.seq /\ sver > state.seq
      BY <1>2, <1>4, <1>5, <2>1, <3>1 DEF Sound
    <3>3. state.cur \in Nat /\ state.seq \in Nat
      BY <3>1 DEF Readable, States, Versions
    <3> QED BY <2>3, <3>1, <3>2, <3>3
  <2>5. Sound(sbuf)'
    BY <2>2, <2>3, <2>4 DEF Sound
  <2> QED BY <1>2, <2>1, <2>2, <2>5
          DEF disk, Readable, Sound, Excused, OnDisk
<1>12. CASE StageSave
  <2>1. /\ spc = "composed" /\ dirs' = dirs
        /\ spc' = "saving" => sbuf' = sbuf
        /\ spc' \in {"saving", "idle"}
    BY <1>12 DEF StageSave
  <2>2. Readable(state') => Readable(state) /\ state' = state
    BY <1>12, SaveBegun DEF StageSave
  <2> QED BY <1>2, <2>1, <2>2 DEF Sound, Excused, OnDisk
<1>13. CASE StageCommit
  BY <1>2, <1>13 DEF StageCommit, SaveCommit, Sound, Excused, OnDisk
<1> QED BY <1>6, <1>7, <1>8, <1>9, <1>10, <1>11, <1>12, <1>13 DEF StageNext

\* A promotion follows a beat, and a beat changes nothing else.
LEMMA PeriodicSound ==
    TypeInv /\ SeqInv /\ SoundInv /\ GoodRun /\ PeriodicNext => SoundInv'
<1> SUFFICES ASSUME TypeInv, SeqInv, SoundInv, GoodRun, PeriodicNext
             PROVE  SoundInv'
  OBVIOUS
<1>1. /\ proc \in {"up", "exiting"} /\ proc \notin Deciding
      /\ UNCHANGED <<proc, exe, current, dirs, spc, sver, sbuf, boot>>
  BY DEF PeriodicNext, FinalizeCheck, FinalizeLoad, FinalizeSave,
         FinalizeCommit, BeatLoad, BeatSave, BeatCommit, Running, Deciding, disk
<1>2. /\ fpc # "idle" => bpc = "idle"
      /\ fpc # "idle" => Readable(state)
      /\ bpc \in {"loaded", "saving"} => Readable(state)
  BY DEF SeqInv, TypeInv, TypeOK, Buffers, Readable
<1>3. spc \in {"composed", "saving"} => Sound(sbuf)'
  BY <1>1 DEF SoundInv, Sound, Excused, OnDisk
<1>4. /\ Readable(state) => Sound(state)
      /\ fpc = "checked"
           => /\ state.beat # 0
              /\ ShortWindow \/ StageInDrain \/ state.cur \notin Bad
      /\ fpc \in {"loaded", "saving"} => Sound(fbuf)
      /\ bpc \in {"loaded", "saving"} => Sound(bbuf)
  BY DEF SoundInv
<1> SUFFICES /\ Readable(state') => Sound(state)'
             /\ fpc' = "checked"
                  => /\ state'.beat # 0
                     /\ ShortWindow \/ StageInDrain \/ state'.cur \notin Bad
             /\ fpc' \in {"loaded", "saving"} => Sound(fbuf)'
             /\ bpc' \in {"loaded", "saving"} => Sound(bbuf)'
  BY <1>1, <1>3 DEF SoundInv, Readable
<1>5. CASE FinalizeCheck
  <2>1. /\ Readable(state) /\ state' = state /\ state.beat # 0
        /\ ShortWindow \/ (proc = "up" /\ state.beat = exe)
        /\ bpc' = "idle" /\ fpc' = "checked"
    BY <1>5 DEF FinalizeCheck, BeatCounts, disk, Alone, SeqInv
  <2>2. ShortWindow \/ StageInDrain \/ state.cur \notin Bad
    BY <1>4, <2>1 DEF Sound, GoodRun
  <2> QED BY <1>1, <1>4, <2>1, <2>2 DEF Sound, Excused, OnDisk
<1>6. CASE FinalizeLoad
  <2>1. /\ Readable(state) /\ state' = state /\ fpc = "checked"
        /\ fbuf' = [state EXCEPT !.status = "stable"]
        /\ bpc' = "idle" /\ fpc' = "loaded"
    BY <1>2, <1>6 DEF FinalizeLoad, disk
  <2>2. /\ fbuf'.cur = state.cur /\ fbuf'.status = "stable"
        /\ fbuf'.beat = state.beat /\ fbuf'.seq = state.seq
    BY <2>1 DEF Readable, States
  <2> QED BY <1>1, <1>4, <2>1, <2>2 DEF Sound, Excused, OnDisk
<1>7. CASE FinalizeSave \/ BeatSave
  <2>1. /\ state' = state
        /\ fpc' \in {"loaded", "saving"} => fpc = "loaded" /\ fbuf' = fbuf
        /\ bpc' \in {"loaded", "saving"} => bpc = "loaded" /\ bbuf' = bbuf
        /\ fpc' # "checked"
    BY <1>2, <1>7, SaveBegun DEF FinalizeSave, BeatSave, SeqInv
  <2> QED BY <1>1, <1>4, <2>1 DEF Readable, Sound, Excused, OnDisk
<1>8. CASE FinalizeCommit
  BY <1>1, <1>2, <1>4, <1>8
  DEF FinalizeCommit, SaveCommit, Sound, Excused, OnDisk
<1>9. CASE BeatLoad
  <2>1. /\ Readable(state) /\ exe \notin Bad /\ state' = state
        /\ bbuf'.cur = state.cur /\ bbuf'.prev = state.prev
        /\ bbuf'.status = state.status /\ bbuf'.seq = state.seq
        /\ bbuf'.beat = IF state.status = "pending_health" THEN exe
                          ELSE state.beat
        /\ fpc' = "idle"
    BY <1>9 DEF BeatLoad, Readable, States, disk, Alone, SeqInv
  <2> QED BY <1>1, <1>4, <2>1 DEF Sound, Excused, OnDisk
<1>10. CASE BeatCommit
  BY <1>1, <1>2, <1>4, <1>10
  DEF BeatCommit, SaveCommit, SeqInv, Sound, Excused, OnDisk
<1> QED BY <1>5, <1>6, <1>7, <1>8, <1>9, <1>10 DEF PeriodicNext

\* A rollback goes back to a good version, or to one staged before the one it
\* leaves; it fails only for want of a directory.
LEMMA BootSound == TypeInv /\ SoundInv /\ BootNext => SoundInv'
<1> SUFFICES ASSUME TypeInv, SoundInv, BootNext PROVE SoundInv'
  OBVIOUS
<1>1. /\ fpc = "idle" /\ bpc = "idle" /\ spc = "idle"
      /\ fpc' = "idle" /\ bpc' = "idle" /\ spc' = "idle" /\ dirs' = dirs
  BY DEF TypeInv, Buffers, Running, LinkInv, StageOnDisk, BootNext, Respawn,
     BootContinue, BootAfterRollback, BootCleared, BootBump, BootBumped,
     BootRevert, BootRevertSave, BootRolledBack, Dead, tasks, disk
<1>2. proc \in Deciding => boot \in States /\ Sound(boot)
  BY DEF TypeInv, Buffers, SoundInv
<1>3. /\ Readable(state) => Sound(state)
      /\ proc \in {"bumping", "reverting"} => boot.status = "pending_health"
  BY DEF SoundInv
<1> SUFFICES /\ Readable(state') => Sound(state)'
             /\ proc' \in Deciding => Sound(boot)'
             /\ proc' \in {"bumping", "reverting"}
                  => boot'.status = "pending_health"
  BY <1>1 DEF SoundInv, Readable
<1> USE DEF Deciding
<1>4. CASE Respawn \/ BootContinue
  BY <1>1, <1>3, <1>4
  DEF Respawn, BootContinue, disk, Readable, Sound, Excused, OnDisk
<1>5. CASE BootAfterRollback
  <2>1. /\ Readable(state) /\ state' = state /\ state.status = "rolled_back"
        /\ \/ /\ boot' = [state EXCEPT !.status = "stable", !.boots = 0]
              /\ proc' = "clearing"
           \/ proc' = "up"
    BY <1>5, SaveBegun DEF BootAfterRollback
  <2>2. proc' = "clearing"
          => /\ boot'.cur = state.cur /\ boot'.prev = state.prev
             /\ boot'.status = "stable" /\ boot'.beat = state.beat
             /\ boot'.seq = state.seq
    BY <2>1 DEF Readable, States
  <2> QED BY <1>1, <1>3, <2>1, <2>2 DEF Sound, Excused, OnDisk
<1>6. CASE BootCleared \/ BootRolledBack
  BY <1>1, <1>2, <1>6
  DEF BootCleared, BootRolledBack, SaveCommit, Dead, Sound, Excused, OnDisk
<1>7. CASE BootBump
  BY <1>1, <1>3, <1>7, Unreadables
  DEF BootBump, Readable, Sound, Excused, OnDisk
<1>8. CASE BootBumped
  <2>1. /\ boot \in States /\ Sound(boot) /\ boot.status = "pending_health"
        /\ proc' = "up" \/ (proc' = "reverting" /\ boot' = boot)
    BY <1>2, <1>3, <1>8 DEF BootBumped
  <2>2. /\ state'.cur = boot.cur /\ state'.prev = boot.prev
        /\ state'.status = boot.status /\ state'.beat = boot.beat
        /\ state'.seq = boot.seq
    BY <1>8, <2>1 DEF BootBumped, States
  <2> QED BY <1>1, <2>1, <2>2 DEF Sound, Excused, OnDisk
<1>9. CASE BootRevert
  <2>1. /\ boot \in States /\ Sound(boot) /\ boot.status = "pending_health"
        /\ state' = state /\ proc' = "reverted"
    BY <1>2, <1>3, <1>9 DEF BootRevert
  <2>2. Readable(state) => Sound(state)'
    BY <1>1, <1>3, <2>1 DEF Sound, Excused, OnDisk
  <2>3. CASE OnDisk(boot.prev)
    <3>1. /\ boot'.cur = boot.prev /\ boot'.prev = boot.cur
          /\ boot'.status = "rolled_back" /\ boot'.beat = boot.beat
          /\ boot'.seq = boot.seq
      BY <1>9, <2>1, <2>3 DEF BootRevert, States
    <3>2. ASSUME boot.prev \in Bad
          PROVE  StageInDrain /\ boot'.prev > boot'.cur /\ boot'.cur <= boot'.seq
      <4>1. StageInDrain /\ boot.prev < boot.cur /\ boot.cur = boot.seq
        BY <2>1, <3>2 DEF Sound
      <4>2. boot.prev \in Nat /\ boot.cur \in Nat
        BY <2>1 DEF States, Versions
      <4> QED BY <3>1, <4>1, <4>2
    <3>3. Sound(boot)'
      BY <2>1, <3>1, <3>2 DEF Sound, Excused
    <3> QED BY <2>1, <2>2, <3>3 DEF Readable
  <2>4. CASE ~OnDisk(boot.prev)
    <3>1. /\ boot'.cur = boot.cur /\ boot'.prev = boot.prev
          /\ boot'.status = "rolled_back" /\ boot'.beat = boot.beat
          /\ boot'.seq = boot.seq
      BY <1>9, <2>1, <2>4 DEF BootRevert, States
    <3>2. Sound(boot)'
      BY <1>1, <2>1, <2>4, <3>1 DEF Sound, Excused, OnDisk
    <3> QED BY <2>1, <2>2, <3>2 DEF Readable
  <2> QED BY <2>3, <2>4
<1>10. CASE BootRevertSave
  <2>1. /\ Readable(state') => Readable(state) /\ state' = state
        /\ proc' = "down" \/ (proc' = "rolling" /\ boot' = boot)
        /\ proc = "reverted"
    BY <1>10, SaveBegun DEF BootRevertSave, Dead
  <2> QED BY <1>1, <1>2, <1>3, <2>1 DEF Sound, Excused, OnDisk
<1> QED BY <1>4, <1>5, <1>6, <1>7, <1>8, <1>9, <1>10 DEF BootNext

\* A stage is the work of a good version that the file names or does not know,
LEMMA StageGood ==
    TypeInv /\ SeqInv /\ SoundInv /\ GoodRun /\ StageNext => GoodRun'
<1> SUFFICES ASSUME TypeInv, SeqInv, SoundInv, GoodRun, StageNext, ~StageInDrain
             PROVE  GoodRun'
  BY DEF GoodRun
<1>1. /\ proc = "up" /\ proc' \in {"up", "exiting"} /\ exe' = exe
      /\ fpc' = "idle" /\ bpc' = "idle" /\ exe \notin Bad
  BY DEF StageNext, StageCheck, StageStops, StageExtract, StageLink, StageGc,
         StageCompose, StageSave, StageCommit, SeqInv, Alone, StageInFiles,
         GoodRun, SoundInv
<1>2. /\ Readable(state) => state.cur \notin Bad
      /\ spc \in {"linked", "applied", "composed", "saving"} => current = sver
      /\ spc \in {"composed", "saving"} => sbuf.cur = sver
  BY <1>1 DEF GoodRun
<1> SUFFICES
      /\ spc' # "idle" => proc' = "up"
      /\ spc' \in {"linked", "applied", "composed", "saving"}
           => current' = sver'
      /\ spc' \in {"composed", "saving"} => sbuf'.cur = sver'
      /\ proc' = "up" /\ Readable(state') => state'.cur \notin Bad
      /\ proc' = "exiting" /\ Readable(state') => state'.cur = current'
  BY <1>1 DEF GoodRun, Running, Readable
<1>3. ASSUME NEW v \in Versions, StageCheck(v)
      PROVE  /\ proc' = "up" /\ state' = state
             /\ spc' \notin {"linked", "applied", "composed", "saving"}
  BY <1>1, <1>3 DEF StageCheck, disk
<1>4. CASE StageStops
  BY <1>1, <1>2, <1>4 DEF StageStops, disk
<1>5. CASE StageExtract
  BY <1>1, <1>2, <1>5 DEF StageExtract
<1>6. CASE StageLink \/ StageGc
  BY <1>1, <1>2, <1>6 DEF StageLink, StageGc
<1>7. CASE StageCompose
  BY <1>1, <1>2, <1>7 DEF StageCompose, NewState, disk
<1>8. CASE StageSave
  <2>1. Readable(state') => Readable(state) /\ state' = state
    BY <1>8, SaveBegun DEF StageSave
  <2> QED BY <1>1, <1>2, <1>8, <2>1 DEF StageSave
<1>9. CASE StageCommit
  BY <1>1, <1>2, <1>9 DEF StageCommit, SaveCommit
<1> QED BY <1>2, <1>3, <1>4, <1>5, <1>6, <1>7, <1>8, <1>9 DEF StageNext

\* beats and promotions leave the names in the file alone,
LEMMA PeriodicGood == TypeInv /\ SeqInv /\ GoodRun /\ PeriodicNext => GoodRun'
<1> SUFFICES ASSUME TypeInv, SeqInv, GoodRun, PeriodicNext, ~StageInDrain
             PROVE  GoodRun'
  BY DEF GoodRun
<1>1. /\ proc \in {"up", "exiting"}
      /\ UNCHANGED <<proc, exe, current, spc, sver, sbuf>>
  BY DEF PeriodicNext, FinalizeCheck, FinalizeLoad, FinalizeSave,
         FinalizeCommit, BeatLoad, BeatSave, BeatCommit, Running, disk
<1>2. /\ fpc # "idle" => bpc = "idle"
      /\ fpc # "idle" \/ bpc # "idle" => Readable(state)
      /\ fpc \in {"loaded", "saving"} => fbuf.cur = state.cur
      /\ bpc \in {"loaded", "saving"} => bbuf.cur = state.cur
  BY DEF SeqInv, TypeInv, TypeOK, Buffers, Readable, GoodRun
<1>3. SUFFICES /\ Readable(state') => Readable(state) /\ state'.cur = state.cur
               /\ fpc' \in {"loaded", "saving"} => fbuf'.cur = state'.cur
               /\ bpc' \in {"loaded", "saving"} => bbuf'.cur = state'.cur
  BY <1>1 DEF GoodRun, Running, Readable
<1>4. CASE FinalizeCheck
  BY <1>2, <1>4 DEF FinalizeCheck, disk, Alone, SeqInv
<1>5. CASE FinalizeLoad
  BY <1>2, <1>5 DEF FinalizeLoad, disk, Readable, States
<1>6. CASE FinalizeSave \/ BeatSave
  <2>1. state' = state
    BY <1>2, <1>6, SaveBegun DEF FinalizeSave, BeatSave
  <2> QED BY <1>2, <1>6, <2>1 DEF FinalizeSave, BeatSave
<1>7. CASE FinalizeCommit \/ BeatCommit
  BY <1>2, <1>7 DEF FinalizeCommit, BeatCommit, SaveCommit
<1>8. CASE BeatLoad
  BY <1>2, <1>8 DEF BeatLoad, disk, Readable, States, Alone, SeqInv
<1> QED BY <1>4, <1>5, <1>6, <1>7, <1>8 DEF PeriodicNext

\* and so does the watchdog, but for a rollback; one cut off by a crash is done
\* again, for its target is linked and so is there.
LEMMA BootGood == TypeInv /\ SoundInv /\ GoodRun /\ BootNext => GoodRun'
<1> SUFFICES ASSUME TypeInv, SoundInv, GoodRun, BootNext, ~StageInDrain
             PROVE  GoodRun'
  BY DEF GoodRun
<1>1. /\ fpc = "idle" /\ bpc = "idle" /\ spc = "idle"
      /\ fpc' = "idle" /\ bpc' = "idle" /\ spc' = "idle"
      /\ ~Running /\ proc' # "exiting"
  BY DEF TypeInv, Buffers, Running, LinkInv, StageOnDisk, BootNext, Respawn,
     BootContinue, BootAfterRollback, BootCleared, BootBump, BootBumped,
     BootRevert, BootRevertSave, BootRolledBack, Dead, tasks
<1>2. /\ Readable(state) => Left(state)
      /\ proc \in {"bumping", "reverting"} => Left(boot)
      /\ proc = "reverting"
           => Pending(state) /\ state.prev = boot.prev /\ state.cur = boot.cur
      /\ proc \in {"clearing", "reverted", "rolling"}
           => (boot.cur \in Bad => current \in Bad)
      /\ proc \in {"boot", "clearing", "bumping", "reverting"} => exe = current
  BY <1>1 DEF GoodRun
<1>3. proc \in Deciding => boot \in States
  BY DEF TypeInv, Buffers
<1> SUFFICES
      /\ proc' = "up" /\ exe' \in Bad => current' \in Bad
      /\ proc' = "up" /\ exe' \notin Bad /\ Readable(state')
           => state'.cur \notin Bad
      /\ proc' \in {"boot", "clearing", "bumping", "reverting"}
           => exe' = current'
      /\ proc' # "up" /\ Readable(state') => Left(state)'
      /\ proc' \in {"bumping", "reverting"} => Left(boot)'
      /\ proc' = "reverting"
           => /\ Pending(state)'
              /\ state'.prev = boot'.prev /\ state'.cur = boot'.cur
      /\ proc' \in {"clearing", "reverted", "rolling"}
           => (boot'.cur \in Bad => current' \in Bad)
  BY <1>1 DEF GoodRun, Running, Readable
<1> USE DEF Deciding
<1>4. CASE Respawn
  BY <1>2, <1>4 DEF Respawn, Readable, Left, Pending
<1>5. CASE BootContinue
  BY <1>2, <1>5 DEF BootContinue, disk, Readable, Left, Pending
<1>6. CASE BootAfterRollback
  <2>1. /\ Readable(state) /\ state' = state /\ state.status = "rolled_back"
        /\ UNCHANGED <<current, exe>> /\ exe = current
        /\ \/ /\ boot' = [state EXCEPT !.status = "stable", !.boots = 0]
              /\ proc' = "clearing"
           \/ proc' = "up"
    BY <1>2, <1>6, SaveBegun DEF BootAfterRollback
  <2>2. state.cur \in Bad => current \in Bad
    BY <1>2, <2>1 DEF Left, Pending
  <2>3. proc' = "clearing" => boot'.cur = state.cur
    BY <2>1 DEF Readable, States
  <2> QED BY <2>1, <2>2, <2>3 DEF Left
<1>7. CASE BootCleared \/ BootRolledBack
  BY <1>2, <1>7 DEF BootCleared, BootRolledBack, SaveCommit, Dead, Left
<1>8. CASE BootBump
  BY <1>2, <1>8, Unreadables DEF BootBump, Readable, Left, Pending
<1>9. CASE BootBumped
  <2>1. /\ boot \in States /\ Left(boot) /\ exe = current
        /\ boot.status = "pending_health"
        /\ UNCHANGED <<current, exe>>
        /\ \/ proc' = "up" /\ ~(boot.boots + 1 > MaxBoots)
           \/ /\ proc' = "reverting" /\ boot' = boot
              /\ boot.boots + 1 > MaxBoots
    BY <1>2, <1>3, <1>9 DEF BootBumped, BootsExhausted, SoundInv
  <2>2. /\ MaxBoots \in Nat /\ MostBoots \in Nat /\ MostBoots > MaxBoots
        /\ boot.boots \in Nat
    BY <2>1, UpgradeAssumption DEF MostBoots, States
  <2>3. /\ state'.cur = boot.cur /\ state'.prev = boot.prev
        /\ state'.status = "pending_health"
        /\ state'.boots = IF boot.boots < MostBoots THEN boot.boots + 1
                            ELSE boot.boots
    BY <1>9, <2>1 DEF BootBumped, States
  <2>4. CASE proc' = "up"
    <3>1. ~(boot.boots > MaxBoots)
      BY <2>1, <2>2, <2>4
    <3> QED BY <2>1, <2>3, <2>4, <3>1 DEF Left, Pending
  <2>5. CASE proc' = "reverting"
    <3>1. state'.boots > MaxBoots
      BY <2>1, <2>2, <2>3, <2>5
    <3> QED BY <2>1, <2>3, <2>5, <3>1 DEF Left, Pending
  <2> QED BY <2>1, <2>4, <2>5
<1>10. CASE BootRevert
  <2>1. /\ boot \in States /\ Left(boot) /\ Pending(state)
        /\ state.prev = boot.prev /\ state.cur = boot.cur
        /\ state' = state /\ proc' = "reverted" /\ OnDisk(current)
    BY <1>2, <1>3, <1>10
    DEF BootRevert, TypeInv, LinkInv, LinkedVersionPresent
  <2>2. CASE OnDisk(boot.prev)
    <3>1. current' = boot.prev /\ boot'.cur = boot.prev
      BY <1>10, <2>1, <2>2 DEF BootRevert, States
    <3> QED BY <2>1, <3>1 DEF Left, Pending
  <2>3. CASE ~OnDisk(boot.prev)
    <3>1. current' = current /\ boot'.cur = boot.cur
      BY <1>10, <2>1, <2>3 DEF BootRevert, States
    <3>2. boot.cur \in Bad => current \in Bad
      BY <2>1, <2>3 DEF Left
    <3> QED BY <2>1, <3>1, <3>2 DEF Left
  <2> QED BY <2>2, <2>3
<1>11. CASE BootRevertSave
  <2>1. /\ Readable(state') => Readable(state) /\ state' = state
        /\ current' = current /\ proc = "reverted"
        /\ proc' = "down" \/ (proc' = "rolling" /\ boot' = boot)
    BY <1>11, SaveBegun DEF BootRevertSave, Dead
  <2> QED BY <1>2, <2>1 DEF Left, Pending
<1> QED BY <1>4, <1>5, <1>6, <1>7, <1>8, <1>9, <1>10, <1>11 DEF BootNext

\* Wherever the process dies, it leaves that much.
LEMMA DeadSettle ==
    SoundInv /\ GoodRun /\ (Exit \/ Crash) => SoundInv' /\ GoodRun'
<1> SUFFICES ASSUME SoundInv, GoodRun, Exit \/ Crash
             PROVE  SoundInv' /\ GoodRun'
  OBVIOUS
<1>1. Dead /\ UNCHANGED disk
  BY DEF Exit, Crash
<1>2. Readable(state') => Sound(state)'
  BY <1>1 DEF disk, SoundInv, Readable, Sound, Excused, OnDisk
<1>3. ~StageInDrain /\ Readable(state) => Left(state)
  BY DEF GoodRun, Running, Left
<1>4. ~StageInDrain /\ Readable(state') => Left(state)'
  BY <1>1, <1>3 DEF disk, Readable, Left, Pending
<1> QED BY <1>1, <1>2, <1>4 DEF Dead, SoundInv, GoodRun, Deciding, Running

\* Every step keeps it.
LEMMA SettleStep ==
    TypeInv /\ SeqInv /\ SoundInv /\ GoodRun /\ [Next]_vars
      => SoundInv' /\ GoodRun'
<1> SUFFICES ASSUME SoundInv, GoodRun, UNCHANGED vars
             PROVE  SoundInv' /\ GoodRun'
  BY StageSound, StageGood, PeriodicSound, PeriodicGood, BootSound, BootGood,
     DeadSettle DEF Next
<1>1. UNCHANGED <<state, current, dirs, proc, exe, boot, spc, sver, sbuf, fpc,
                  fbuf, bpc, bbuf>>
  BY DEF vars, disk, tasks
<1>2. /\ Readable(state)' => Sound(state)'
      /\ proc' \in Deciding => Sound(boot)'
      /\ spc' \in {"composed", "saving"} => Sound(sbuf)'
      /\ fpc' \in {"loaded", "saving"} => Sound(fbuf)'
      /\ bpc' \in {"loaded", "saving"} => Sound(bbuf)'
  BY <1>1 DEF SoundInv, Sound, Excused, OnDisk, Readable
<1>3. SoundInv'
  BY <1>1, <1>2 DEF SoundInv, Readable
<1>4. GoodRun'
  BY <1>1 DEF GoodRun, Running, Readable, Left, Pending
<1> QED BY <1>3, <1>4

\* On a current-thread runtime no bad version is recorded as stable but in the
\* ways of Excused: for any releases, any of them bad, any Keep and health
\* window, with or without a second stage in the drain, with pids that repeat or
\* not, and wherever and however often the process dies (finalize_if_stable,
\* revert_to_previous, run_boot_watchdog, gc_versions).
THEOREM SettlesOnGood == Spec => []NeverSettlesOnBad
<1>1. SoundInv => NeverSettlesOnBad
  BY DEF SoundInv, Sound, NeverSettlesOnBad, SettledOnBad
<1>2. ~MultiThread /\ Spec => []NeverSettlesOnBad
  BY InitTyped, TypeStep, InitSeq, SeqStep, InitSettle, SettleStep, <1>1, PTL
     DEF Spec
<1>3. MultiThread => NeverSettlesOnBad
  BY DEF NeverSettlesOnBad
<1>4. MultiThread => MultiThread'
  OBVIOUS
<1>5. MultiThread /\ Spec => []NeverSettlesOnBad
  BY <1>3, <1>4, PTL DEF Spec
<1> QED BY <1>2, <1>5
=============================================================================

------------------------ MODULE SessionReaderProofs ------------------------
(***************************************************************************)
(* Proofs about SessionReader for any limits, any size of the channel and  *)
(* of the byte budget, any keepalive and any number of frames and upsets:  *)
(* no share of the budget is lost or given twice, a clean close ends the   *)
(* session behind everything the manager sent before it, every variable    *)
(* keeps its type, a manager that has gone is noticed in time, one that is *)
(* there is taken for dead only after pings stamped in a burst, and one    *)
(* upset is forgotten.                                                     *)
(***************************************************************************)
EXTENDS SessionReader, SequenceTheorems, FiniteSetTheorems, TLAPS

-----------------------------------------------------------------------------
(* Counting the texts in a sequence of frames.                              *)

Texts(s) == {i \in DOMAIN s : s[i] = "text"}
One(k) == IF k = "text" THEN 1 ELSE 0

\* A sequence holds a number of texts.
LEMMA TextsFinite ==
    ASSUME NEW s \in Seq(Kinds)
    PROVE  IsFiniteSet(Texts(s)) /\ Waiting(s) \in Nat
           /\ Waiting(s) = Cardinality(Texts(s))
<1>1. DOMAIN s = 1..Len(s) /\ Len(s) \in Nat
  BY LenProperties
<1>2. IsFiniteSet(1..Len(s)) /\ Texts(s) \in SUBSET (1..Len(s))
  BY <1>1, FS_Interval DEF Texts
<1>3. IsFiniteSet(Texts(s))
  BY <1>2, FS_Subset
<1> QED BY <1>3, FS_CardinalityType DEF Waiting, Texts

\* The empty one holds none.
LEMMA EmptyWaiting == Waiting(<<>>) = 0
<1>1. {i \in DOMAIN <<>> : <<>>[i] = "text"} = {}
  OBVIOUS
<1> QED BY <1>1, FS_EmptySet DEF Waiting

\* Moving places along does not change how many there are.
LEMMA Shifted ==
    ASSUME NEW X \in SUBSET Nat, IsFiniteSet(X), NEW n \in Nat
    PROVE  /\ IsFiniteSet({i + n : i \in X})
           /\ Cardinality({i + n : i \in X}) = Cardinality(X)
<1> DEFINE Y == {i + n : i \in X}
           f == [i \in X |-> i + n]
<1>1. f \in [X -> Y] /\ \A y \in Y : \E i \in X : f[i] = y
  OBVIOUS
<1>2. \A i, j \in X : f[i] = f[j] => i = j
  OBVIOUS
<1>3. f \in Bijection(X, Y)
  BY <1>1, <1>2 DEF Bijection, Injection, Surjection, IsInjective
<1>4. ExistsBijection(X, Y)
  BY <1>3 DEF ExistsBijection
<1> QED BY <1>4, FS_Bijection

\* A frame put at the end counts for itself.
LEMMA AppendWaiting ==
    ASSUME NEW s \in Seq(Kinds), NEW k \in Kinds
    PROVE  Append(s, k) \in Seq(Kinds)
           /\ Waiting(Append(s, k)) = Waiting(s) + One(k)
<1> DEFINE t == Append(s, k)
           n == Len(s)
<1>1. /\ t \in Seq(Kinds) /\ n \in Nat /\ DOMAIN s = 1..n
      /\ DOMAIN t = 1..(n + 1) /\ t[n + 1] = k
      /\ \A i \in 1..n : t[i] = s[i]
  BY AppendProperties, LenProperties
<1> HIDE DEF t, n
<1>2. Texts(t) = IF k = "text" THEN Texts(s) \cup {n + 1} ELSE Texts(s)
  BY <1>1 DEF Texts
<1>3. n + 1 \notin Texts(s)
  BY <1>1 DEF Texts
<1>4. Cardinality(Texts(t)) = Cardinality(Texts(s)) + One(k)
  <2>1. CASE k = "text"
    <3>1. IsFiniteSet(Texts(s)) /\ Cardinality(Texts(s)) \in Nat
      BY TextsFinite
    <3>2. Cardinality(Texts(s) \cup {n + 1}) = Cardinality(Texts(s)) + 1
      BY <1>3, <3>1, FS_AddElement
    <3> QED BY <1>2, <2>1, <3>2 DEF One
  <2>2. CASE k # "text"
    BY <1>2, <2>2, TextsFinite DEF One
  <2> QED BY <2>1, <2>2
<1> QED BY <1>1, <1>4, TextsFinite DEF t

\* So does one taken off the front.
LEMMA TailWaiting ==
    ASSUME NEW s \in Seq(Kinds), s # <<>>
    PROVE  Tail(s) \in Seq(Kinds) /\ Head(s) \in Kinds
           /\ Waiting(s) = Waiting(Tail(s)) + One(Head(s))
<1> DEFINE t == Tail(s)
           n == Len(s)
<1>1. /\ t \in Seq(Kinds) /\ n \in Nat \ {0} /\ DOMAIN s = 1..n
      /\ DOMAIN t = 1..(n - 1) /\ Head(s) = s[1] /\ Head(s) \in Kinds
      /\ \A i \in 1..(n - 1) : t[i] = s[i + 1]
  BY HeadTailProperties, LenProperties, EmptySeq, SeqEqual
<1> HIDE DEF t, n
<1> DEFINE later == {i + 1 : i \in Texts(t)}
<1>2. Texts(t) \in SUBSET Nat
  BY <1>1 DEF Texts
<1>3. IsFiniteSet(later) /\ Cardinality(later) = Cardinality(Texts(t))
  <2>1. IsFiniteSet(Texts(t))
    BY <1>1, TextsFinite
  <2> QED BY <1>2, <2>1, Shifted
<1>4. Texts(s) = IF Head(s) = "text" THEN later \cup {1} ELSE later
  <2>1. \A i \in Texts(s) : i = 1 \/ i - 1 \in Texts(t)
    BY <1>1 DEF Texts
  <2>2. \A i \in Texts(t) : i + 1 \in Texts(s)
    BY <1>1 DEF Texts
  <2>3. 1 \in Texts(s) <=> Head(s) = "text"
    BY <1>1 DEF Texts
  <2>4. Texts(s) \in SUBSET Nat /\ \A i \in Nat : (i - 1) + 1 = i
    BY <1>1 DEF Texts
  <2>5. \A i \in Texts(s) : i = 1 \/ i \in later
    BY <2>1, <2>4
  <2> QED BY <2>2, <2>3, <2>5
<1>5. 1 \notin later
  BY <1>1, <1>2 DEF Texts
<1>6. Cardinality(Texts(s)) = Cardinality(Texts(t)) + One(Head(s))
  <2>1. CASE Head(s) = "text"
    BY <1>3, <1>4, <1>5, <2>1, FS_AddElement DEF One
  <2>2. CASE Head(s) # "text"
    BY <1>1, <1>3, <1>4, <2>2, TextsFinite DEF One
  <2> QED BY <2>1, <2>2
<1> QED BY <1>1, <1>6, TextsFinite DEF t

\* Frames moved together count together.
LEMMA ConcatWaiting ==
    ASSUME NEW s \in Seq(Kinds), NEW t \in Seq(Kinds)
    PROVE  s \o t \in Seq(Kinds)
           /\ Waiting(s \o t) = Waiting(s) + Waiting(t)
<1> DEFINE u == s \o t
           n == Len(s)
           later == {i + n : i \in Texts(t)}
<1>1. /\ u \in Seq(Kinds) /\ n \in Nat /\ Len(t) \in Nat
      /\ DOMAIN s = 1..n /\ DOMAIN t = 1..Len(t)
      /\ DOMAIN u = 1..(n + Len(t))
      /\ \A i \in 1..(n + Len(t)) : u[i] = IF i <= n THEN s[i] ELSE t[i - n]
  BY ConcatProperties, LenProperties
<1> HIDE DEF u, n
<1>2. Texts(t) \in SUBSET Nat
  BY <1>1 DEF Texts
<1>3. IsFiniteSet(later) /\ Cardinality(later) = Cardinality(Texts(t))
  <2>1. IsFiniteSet(Texts(t))
    BY <1>1, TextsFinite
  <2> QED BY <1>1, <1>2, <2>1, Shifted
<1>4. Texts(u) = Texts(s) \cup later
  <2>1. \A i \in Texts(u) : i \in Texts(s) \/ i - n \in Texts(t)
    BY <1>1 DEF Texts
  <2>2. \A i \in Texts(u) : i \in Nat /\ (i - n) + n = i
    BY <1>1 DEF Texts
  <2>3. Texts(u) \subseteq Texts(s) \cup later
    BY <2>1, <2>2
  <2>4. \A i \in Texts(s) : i \in Texts(u)
    BY <1>1 DEF Texts
  <2>5. \A i \in Texts(t) : i + n \in Texts(u)
    BY <1>1 DEF Texts
  <2> QED BY <2>3, <2>4, <2>5
<1>5. Texts(s) \cap later = {}
  BY <1>1 DEF Texts
<1>6. Cardinality(Texts(u)) = Cardinality(Texts(s)) + Cardinality(Texts(t))
  <2>1. Cardinality(Texts(s) \cap later) = 0
    BY <1>5, FS_EmptySet
  <2>2. /\ IsFiniteSet(Texts(s)) /\ Cardinality(Texts(s)) \in Nat
        /\ IsFiniteSet(Texts(t)) /\ Cardinality(Texts(t)) \in Nat
    BY TextsFinite
  <2>3. Cardinality(Texts(s) \cup later)
          = Cardinality(Texts(s)) + Cardinality(later)
              - Cardinality(Texts(s) \cap later)
    BY <1>3, <2>2, FS_Union
  <2> QED BY <1>3, <1>4, <2>1, <2>2, <2>3
<1> QED BY <1>1, <1>6, TextsFinite DEF u

-----------------------------------------------------------------------------
(* The byte budget.                                                         *)

\* The frame in the reader's hands is there while it waits to hand it over,
\* and it is a text while it waits for its share.
Hands ==
    /\ inbound \in Seq(Kinds) /\ socket \in Seq(Kinds) /\ path \in Seq(Kinds)
    /\ free \in Int /\ unrouted \in Int
    /\ rpc \in {"select", "budget", "send", "parked"}
    /\ rpc \in {"select", "parked"} => held = "none"
    /\ rpc = "budget" => held = "text"
    /\ rpc = "send" => held \in {"text", "close", "error"}

\* Every step keeps what the two hold in order.
LEMMA HandsStep == Hands /\ [Next]_vars => Hands'
<1> SUFFICES ASSUME Hands, [Next]_vars PROVE Hands'
  OBVIOUS
<1>1. /\ socket # <<>> => Tail(socket) \in Seq(Kinds)
      /\ inbound # <<>> => Tail(inbound) \in Seq(Kinds)
      /\ \A k \in Kinds : Append(inbound, k) \in Seq(Kinds)
                          /\ Append(path, k) \in Seq(Kinds)
      /\ socket \o path \in Seq(Kinds) /\ <<>> \in Seq(Kinds)
  BY TailWaiting, AppendWaiting, ConcatWaiting, EmptySeq DEF Hands
<1>2. "text" \in Kinds /\ "close" \in Kinds /\ "error" \in Kinds
      /\ "ping" \in Kinds /\ "other" \in Kinds
  BY DEF Kinds
<1> HIDE DEF Kinds
<1> USE DEF Hands
<1>3. CASE ManagerNext
  <2>1. CASE ManagerPings
    BY <1>1, <1>2, <2>1 DEF ManagerPings, Send, readerVars, loopVars, counts
  <2>2. CASE ManagerSkips
    BY <2>2 DEF ManagerSkips, readerVars, loopVars
  <2>3. CASE ManagerGone
    BY <1>1, <2>3 DEF ManagerGone, readerVars, loopVars, counts
  <2>4. CASE Deliver
    BY <1>1, <2>4 DEF Deliver, loopVars, counts
  <2>5. ASSUME NEW k \in {"text", "other", "close", "error"}, ManagerSends(k)
        PROVE  Hands'
    BY <1>1, <1>2, <2>5 DEF ManagerSends, Send, readerVars, loopVars
  <2> QED BY <1>3, <2>1, <2>2, <2>3, <2>4, <2>5 DEF ManagerNext
<1>4. CASE ReaderNext
  <2>1. CASE ReadPing
    BY <1>1, <1>2, <2>1 DEF ReadPing, peerVars, counts
  <2>2. CASE ReadOther
    BY <1>1, <2>2 DEF ReadOther, peerVars, loopVars, counts
  <2>3. CASE ReadHandover
    BY <1>1, <2>3 DEF ReadHandover, peerVars, loopVars, counts
  <2>4. CASE GetBudget
    BY <2>4 DEF GetBudget, peerVars, counts
  <2>5. CASE HandOver
    BY <1>1, <1>2, <2>5 DEF HandOver, peerVars, counts
  <2>6. CASE CheckSilence
    BY <2>6 DEF CheckSilence, peerVars, counts
  <2> QED BY <1>4, <2>1, <2>2, <2>3, <2>4, <2>5, <2>6 DEF ReaderNext
<1>5. CASE LoopNext
  <2>1. CASE TakeText \/ TakePing \/ TakeEnd
    <3>1. inbound' \in Seq(Kinds)
      BY <1>1, <2>1 DEF TakeText, TakePing, TakeEnd
    <3>2. free' \in Int /\ unrouted' \in Int
      BY <2>1 DEF TakeText, TakePing, TakeEnd, counts
    <3>3. UNCHANGED <<socket, path, rpc, held>>
      BY <2>1 DEF TakeText, TakePing, TakeEnd, peerVars, readerVars
    <3> QED BY <3>1, <3>2, <3>3
  <2>2. CASE WriteHeldUp \/ WriteDone \/ WriteStalls \/ WriteFails
    BY <2>2 DEF WriteHeldUp, WriteDone, WriteStalls, WriteFails, peerVars,
                readerVars, counts
  <2> QED BY <1>5, <2>1, <2>2 DEF LoopNext
<1>6. CASE Tick \/ SessionOver \/ UNCHANGED vars
  BY <1>6 DEF Tick, SessionOver, vars, peerVars, readerVars, loopVars, counts
<1> QED BY <1>3, <1>4, <1>5, <1>6 DEF Next

\* They start with empty hands.
LEMMA HandsInit == Init => Hands /\ BudgetExact
<1> SUFFICES ASSUME Init PROVE Hands /\ BudgetExact
  OBVIOUS
<1>1. Hands
  BY EmptySeq, ReaderAssumption DEF Init, Hands
<1>2. BudgetExact
  BY EmptyWaiting, ReaderAssumption DEF Init, BudgetExact
<1> QED BY <1>1, <1>2

\* What a hand-over puts into the channel leaves the reader's hands; what the
\* loop takes out it holds until it has routed it or gives back at once.
LEMMA BudgetStep == Hands /\ BudgetExact /\ [Next]_vars => BudgetExact'
<1> SUFFICES ASSUME Hands, BudgetExact, [Next]_vars PROVE BudgetExact'
  OBVIOUS
<1>1. Waiting(inbound) \in Nat /\ Budget \in Nat /\ free \in Int
  BY TextsFinite, ReaderAssumption DEF Hands
<1>2. \A k \in Kinds :
        Waiting(Append(inbound, k)) = Waiting(inbound) + One(k)
  BY AppendWaiting DEF Hands
<1>3. inbound # <<>> =>
        Waiting(inbound) = Waiting(Tail(inbound)) + One(Head(inbound))
        /\ Waiting(Tail(inbound)) \in Nat
  BY TailWaiting, TextsFinite DEF Hands
<1>4. ASSUME UNCHANGED <<inbound, free, lpc>>, held' = "text" => rpc' # "send",
             ~(rpc = "send" /\ held = "text")
      PROVE  BudgetExact'
  BY <1>4 DEF BudgetExact, Waiting
<1>5. ASSUME UNCHANGED <<inbound, free, lpc, rpc, held>>
      PROVE  BudgetExact'
  BY <1>5 DEF BudgetExact, Waiting
<1>6. CASE ManagerNext
  BY <1>5, <1>6 DEF ManagerNext, ManagerPings, ManagerSkips, ManagerGone,
     Deliver, ManagerSends, readerVars, loopVars
<1>7. CASE ReadPing
  <2>1. One("ping") = 0 /\ "ping" \in Kinds
    BY DEF One, Kinds
  <2>2. Waiting(inbound') = Waiting(inbound)
    BY <1>1, <1>2, <1>7, <2>1 DEF ReadPing
  <2> QED BY <1>7, <2>2 DEF ReadPing, BudgetExact
<1>8. CASE ReadOther \/ CheckSilence
  BY <1>5, <1>8 DEF ReadOther, CheckSilence, loopVars
<1>9. CASE ReadHandover
  BY <1>4, <1>9 DEF ReadHandover, loopVars, Hands
<1>10. CASE GetBudget
  <2>1. held = "text" /\ rpc = "budget" /\ rpc' = "send" /\ held' = held
        /\ free' = free - 1 /\ UNCHANGED <<inbound, lpc>>
    BY <1>10 DEF GetBudget, Hands
  <2> QED BY <1>1, <2>1 DEF BudgetExact
<1>11. CASE HandOver
  <2>1. /\ rpc = "send" /\ held \in Kinds /\ inbound' = Append(inbound, held)
        /\ held' = "none" /\ UNCHANGED <<free, lpc>>
    BY <1>11 DEF HandOver, Hands, Kinds
  <2>2. Waiting(inbound') = Waiting(inbound) + One(held)
    BY <1>2, <2>1
  <2> QED BY <1>1, <2>1, <2>2 DEF BudgetExact, One
<1>12. CASE TakeText
  <2>1. /\ lpc = "idle" /\ inbound # <<>> /\ Head(inbound) = "text"
        /\ inbound' = Tail(inbound) /\ UNCHANGED <<rpc, held>>
        /\ \/ free' = free + 1 /\ lpc' = lpc
           \/ free' = free /\ lpc' = "answer"
    BY <1>12 DEF TakeText, readerVars
  <2>2. Waiting(inbound) = Waiting(inbound') + 1 /\ Waiting(inbound') \in Nat
    BY <1>3, <2>1 DEF One
  <2> QED BY <1>1, <2>1, <2>2 DEF BudgetExact
<1>13. CASE TakePing \/ TakeEnd
  <2>1. /\ lpc = "idle" /\ inbound # <<>> /\ Head(inbound) # "text"
        /\ inbound' = Tail(inbound) /\ UNCHANGED <<rpc, held, free>>
        /\ lpc' # "answer"
    BY <1>13 DEF TakePing, TakeEnd, readerVars
  <2>2. Waiting(inbound) = Waiting(inbound') /\ Waiting(inbound') \in Nat
    BY <1>3, <2>1 DEF One
  <2> QED BY <1>1, <2>1, <2>2 DEF BudgetExact
<1>14. CASE WriteHeldUp \/ WriteStalls \/ WriteFails
  BY <1>14 DEF WriteHeldUp, WriteStalls, WriteFails, readerVars, BudgetExact,
               Waiting
<1>15. CASE WriteDone
  <2>1. /\ lpc \in {"write", "answer"} /\ lpc' = "idle"
        /\ free' = IF lpc = "answer" THEN free + 1 ELSE free
        /\ UNCHANGED <<rpc, held, inbound>>
    BY <1>15 DEF WriteDone, readerVars
  <2> QED BY <1>1, <2>1 DEF BudgetExact
<1>16. CASE Tick \/ SessionOver \/ UNCHANGED vars
  BY <1>5, <1>16 DEF Tick, SessionOver, vars, readerVars, loopVars
<1> QED BY <1>6, <1>7, <1>8, <1>9, <1>10, <1>11, <1>12, <1>13, <1>14, <1>15,
           <1>16 DEF Next, ReaderNext, LoopNext

\* The reader and the session loop never lose or forge a share of
\* INBOUND_BUDGET_BYTES (read_manager, drive_session): what is not free is held
\* by a text in the channel, in the reader's hands or being routed, for any
\* budget and channel.
THEOREM BudgetNeverLeaks == Spec => []BudgetExact
<1>1. Init => Hands /\ BudgetExact
  BY HandsInit
<1>2. Hands /\ BudgetExact /\ [Next]_vars => (Hands /\ BudgetExact)'
  BY HandsStep, BudgetStep
<1> QED BY <1>1, <1>2, PTL DEF Spec

-----------------------------------------------------------------------------
(* What comes before a Close.                                               *)

Ends == {"close", "error"}
HasEnd(s) == \E i \in DOMAIN s : s[i] \in Ends
LastOnly(s) == \A i \in DOMAIN s : s[i] \in Ends => i = Len(s)

\* The empty sequence has no end in it.
LEMMA EmptyEnds == ~HasEnd(<<>>) /\ LastOnly(<<>>)
BY DEF HasEnd, LastOnly

\* An end put behind frames is the last of them.
LEMMA AppendEnds ==
    ASSUME NEW s \in Seq(Kinds), NEW k \in Kinds, ~HasEnd(s)
    PROVE  LastOnly(Append(s, k)) /\ (HasEnd(Append(s, k)) => k \in Ends)
<1>1. /\ Len(s) \in Nat /\ DOMAIN s = 1..Len(s)
      /\ Len(Append(s, k)) = Len(s) + 1
      /\ DOMAIN Append(s, k) = 1..(Len(s) + 1)
      /\ Append(s, k)[Len(s) + 1] = k
      /\ \A i \in 1..Len(s) : Append(s, k)[i] = s[i]
  BY AppendProperties, LenProperties
<1> QED BY <1>1 DEF HasEnd, LastOnly

\* What is taken off the front leaves the end where it is, or was it.
LEMMA TailEnds ==
    ASSUME NEW s \in Seq(Kinds), s # <<>>, LastOnly(s)
    PROVE  /\ LastOnly(Tail(s)) /\ (HasEnd(Tail(s)) => HasEnd(s))
           /\ Head(s) \in Ends => Tail(s) = <<>> /\ HasEnd(s)
<1>1. /\ Len(s) \in Nat \ {0} /\ DOMAIN s = 1..Len(s)
      /\ Tail(s) \in Seq(Kinds)
      /\ Len(Tail(s)) = Len(s) - 1 /\ DOMAIN Tail(s) = 1..(Len(s) - 1)
      /\ Head(s) = s[1]
      /\ \A i \in 1..(Len(s) - 1) : Tail(s)[i] = s[i + 1]
  BY HeadTailProperties, LenProperties, EmptySeq, SeqEqual
<1>2. \A i \in 1..(Len(s) - 1) : i + 1 \in 1..Len(s)
  BY <1>1
<1>3. LastOnly(Tail(s)) /\ (HasEnd(Tail(s)) => HasEnd(s))
  BY <1>1, <1>2 DEF HasEnd, LastOnly
<1>4. ASSUME Head(s) \in Ends PROVE Tail(s) = <<>> /\ HasEnd(s)
  <2>1. 1 \in DOMAIN s /\ s[1] \in Ends /\ Len(s) = 1
    BY <1>1, <1>4 DEF LastOnly
  <2> QED BY <1>1, <2>1, EmptySeq, SeqEqual DEF HasEnd
<1> QED BY <1>3, <1>4

\* Frames before an end leave it the last.
LEMMA ConcatEnds ==
    ASSUME NEW s \in Seq(Kinds), NEW t \in Seq(Kinds), ~HasEnd(s), LastOnly(t)
    PROVE  LastOnly(s \o t) /\ (HasEnd(s \o t) => HasEnd(t))
<1> DEFINE u == s \o t
           n == Len(s)
<1>1. /\ n \in Nat /\ Len(t) \in Nat
      /\ DOMAIN s = 1..n /\ DOMAIN t = 1..Len(t)
      /\ Len(u) = n + Len(t) /\ DOMAIN u = 1..(n + Len(t))
      /\ \A i \in 1..(n + Len(t)) : u[i] = IF i <= n THEN s[i] ELSE t[i - n]
  BY ConcatProperties, LenProperties
<1> HIDE DEF u, n
<1>2. \A i \in DOMAIN u : u[i] \in Ends => i - n \in DOMAIN t
                                          /\ t[i - n] \in Ends
  BY <1>1 DEF HasEnd
<1>3. LastOnly(u) /\ (HasEnd(u) => HasEnd(t))
  BY <1>1, <1>2 DEF HasEnd, LastOnly
<1> QED BY <1>3 DEF u

\* An end is on its way to the session loop.
EndComing ==
    HasEnd(path) \/ HasEnd(socket) \/ held \in Ends \/ HasEnd(inbound)

InTransit ==
    Waiting(inbound) + One(held) + Waiting(socket) + Waiting(path)

\* Nothing is behind an end, wherever it is, and the texts not yet routed are
\* all on their way while the manager is there or an end is coming.
EndBehind ==
    /\ LastOnly(path) /\ LastOnly(socket) /\ LastOnly(inbound)
    /\ HasEnd(socket) => path = <<>>
    /\ held \in Ends => socket = <<>> /\ path = <<>>
    /\ HasEnd(inbound) => rpc = "parked" /\ socket = <<>> /\ path = <<>>
    /\ EndComing => closing
    /\ alive \/ EndComing => unrouted = InTransit
    /\ CloseComesLast

\* Nothing is on its way at first.
LEMMA EndInit == Init => EndBehind
<1> SUFFICES ASSUME Init PROVE EndBehind
  OBVIOUS
<1>1. ~EndComing /\ InTransit = 0
  BY EmptyEnds, EmptyWaiting DEF Init, EndComing, InTransit, One, Ends
<1> QED BY <1>1, EmptyEnds DEF Init, EndBehind, CloseComesLast, Ends

\* The facts about the four places of a frame that the steps below use.
LEMMA Places ==
    ASSUME Hands
    PROVE  /\ Waiting(inbound) \in Nat /\ Waiting(socket) \in Nat
           /\ Waiting(path) \in Nat /\ One(held) \in Nat
           /\ Waiting(<<>>) = 0 /\ ~HasEnd(<<>>) /\ LastOnly(<<>>)
           /\ One("text") = 1
           /\ \A k \in {"none", "ping", "other", "close", "error"} : One(k) = 0
           /\ \A k \in {"none", "ping", "other", "text"} : k \notin Ends
           /\ "close" \in Ends /\ "error" \in Ends
BY TextsFinite, EmptyWaiting, EmptyEnds DEF Hands, One, Ends

\* What they hold are numbers.
LEMMA Counts ==
    ASSUME Hands
    PROVE  /\ Waiting(inbound) \in Nat /\ Waiting(socket) \in Nat
           /\ Waiting(path) \in Nat /\ One(held) \in Nat
BY Places

\* The manager sends nothing after its end.
LEMMA EndManager == Hands /\ EndBehind /\ ManagerNext => EndBehind'
<1> SUFFICES ASSUME Hands, EndBehind, ManagerNext PROVE EndBehind'
  OBVIOUS
<1> USE DEF EndBehind
<1>1. ASSUME NEW k \in {"ping", "text", "other", "close", "error"},
             Sending, Send(k),
             unrouted' = unrouted + One(k),
             UNCHANGED <<alive, socket, inbound, held, rpc, end>>,
             k \in Ends => closing'
      PROVE  EndBehind'
  <2>1. /\ ~EndComing /\ alive /\ end = "none" /\ unrouted = InTransit
        /\ path' = Append(path, k) /\ k \in Kinds /\ path \in Seq(Kinds)
    BY <1>1 DEF Sending, Send, Settled, Up, Kinds, Hands
  <2>2. ~HasEnd(path) /\ ~HasEnd(socket) /\ held \notin Ends
        /\ ~HasEnd(inbound)
    BY <2>1 DEF EndComing
  <2>3. LastOnly(path') /\ (HasEnd(path') => k \in Ends)
    BY <2>1, <2>2, AppendEnds
  <2>4. Waiting(path') = Waiting(path) + One(k)
    BY <2>1, AppendWaiting
  <2>5. Waiting(inbound)' = Waiting(inbound) /\ Waiting(socket)' = Waiting(socket)
        /\ One(held)' = One(held) /\ HasEnd(socket)' = HasEnd(socket)
        /\ HasEnd(inbound)' = HasEnd(inbound)
    BY <1>1
  <2>6. unrouted' = InTransit'
    <3>1. One(k) \in Nat
      BY DEF One
    <3> QED BY <1>1, <2>1, <2>4, <2>5, <3>1, Places DEF InTransit
  <2>7. EndComing' => closing'
    BY <1>1, <2>2, <2>3, <2>5 DEF EndComing
  <2>8. CloseComesLast'
    BY <1>1, <2>1 DEF CloseComesLast
  <2> QED BY <1>1, <2>2, <2>3, <2>5, <2>6, <2>7, <2>8
<1>2. CASE ManagerPings
  <2>1. unrouted + One("ping") = unrouted /\ "ping" \notin Ends
    BY Places DEF Hands
  <2> QED BY <1>1, <1>2, <2>1 DEF ManagerPings, Sending, readerVars, loopVars,
                                  counts
<1>3. CASE ManagerSkips
  BY <1>3 DEF ManagerSkips, readerVars, loopVars, CloseComesLast, EndComing,
              InTransit
<1>4. CASE ManagerGone
  <2>1. /\ UNCHANGED <<closing, socket, inbound, held, rpc, end, unrouted>>
        /\ path' = <<>> /\ alive' = FALSE
    BY <1>4 DEF ManagerGone, readerVars, loopVars, counts
  <2>2. ~HasEnd(path') /\ LastOnly(path') /\ Waiting(path') = 0
    BY <2>1, EmptyEnds, EmptyWaiting
  <2>3. /\ HasEnd(socket)' = HasEnd(socket) /\ HasEnd(inbound)' = HasEnd(inbound)
        /\ LastOnly(socket)' = LastOnly(socket)
        /\ LastOnly(inbound)' = LastOnly(inbound)
        /\ Waiting(socket)' = Waiting(socket)
        /\ Waiting(inbound)' = Waiting(inbound) /\ One(held)' = One(held)
    BY <2>1
  <2>4. ASSUME EndComing' PROVE EndComing /\ path = <<>>
    BY <2>1, <2>2, <2>3, <2>4 DEF EndComing
  <2>5. EndComing' => unrouted' = InTransit'
    BY <2>1, <2>2, <2>3, <2>4, Places DEF InTransit
  <2>6. CloseComesLast'
    BY <2>1 DEF CloseComesLast
  <2> QED BY <2>1, <2>2, <2>3, <2>4, <2>5, <2>6
<1>5. CASE Deliver
  <2>1. /\ UNCHANGED <<closing, alive, inbound, held, rpc, end, unrouted>>
        /\ path # <<>> /\ path' = <<>> /\ socket' = socket \o path
        /\ socket \in Seq(Kinds) /\ path \in Seq(Kinds)
    BY <1>5 DEF Deliver, loopVars, counts, Hands
  <2>2. ~HasEnd(path') /\ LastOnly(path') /\ Waiting(path') = 0
    BY <2>1, EmptyEnds, EmptyWaiting
  <2>3. ~HasEnd(socket) /\ held \notin Ends /\ ~HasEnd(inbound)
    BY <2>1
  <2>4. LastOnly(socket') /\ (HasEnd(socket') => HasEnd(path))
        /\ Waiting(socket') = Waiting(socket) + Waiting(path)
    BY <2>1, <2>3, ConcatEnds, ConcatWaiting
  <2>5. HasEnd(inbound)' = HasEnd(inbound) /\ LastOnly(inbound)' = LastOnly(inbound)
        /\ Waiting(inbound)' = Waiting(inbound) /\ One(held)' = One(held)
    BY <2>1
  <2>6. EndComing' => EndComing
    BY <2>1, <2>2, <2>3, <2>4, <2>5 DEF EndComing
  <2>7. alive \/ EndComing => unrouted' = InTransit'
    BY <2>1, <2>2, <2>4, <2>5, Places DEF InTransit
  <2>8. CloseComesLast'
    BY <2>1 DEF CloseComesLast
  <2> QED BY <2>1, <2>2, <2>3, <2>4, <2>5, <2>6, <2>7, <2>8
<1>6. ASSUME NEW k \in {"text", "other", "close", "error"}, ManagerSends(k)
      PROVE  EndBehind'
  <2>1. unrouted' = unrouted + One(k)
    BY <1>6, Places DEF ManagerSends, Hands
  <2>2. k \in Ends => closing'
    BY <1>6 DEF ManagerSends, Ends
  <2> QED BY <1>1, <1>6, <2>1, <2>2 DEF ManagerSends, readerVars, loopVars
<1> QED BY <1>2, <1>3, <1>4, <1>5, <1>6 DEF ManagerNext

\* The reader hands over in order and parks behind an end.
LEMMA EndReader == Hands /\ EndBehind /\ ReaderNext => EndBehind'
<1> SUFFICES ASSUME Hands, EndBehind, ReaderNext PROVE EndBehind'
  OBVIOUS
<1> USE DEF EndBehind
<1>1. Up /\ end = "none"
  BY DEF ReaderNext, ReadPing, ReadOther, ReadHandover, GetBudget, HandOver,
         CheckSilence, Up
<1>2. /\ inbound \in Seq(Kinds) /\ socket \in Seq(Kinds)
      /\ path \in Seq(Kinds)
  BY DEF Hands
\* A frame is taken off the socket.
<1>3. ASSUME rpc = "select", socket # <<>>, socket' = Tail(socket),
             UNCHANGED <<path, alive, closing, unrouted>>
      PROVE  /\ held = "none" /\ ~HasEnd(inbound)
             /\ LastOnly(path)' /\ LastOnly(socket)'
             /\ HasEnd(socket)' => HasEnd(socket)
             /\ Head(socket) \in Ends
                  => socket' = <<>> /\ path = <<>> /\ HasEnd(socket)
             /\ HasEnd(path)' = HasEnd(path) /\ Waiting(path)' = Waiting(path)
             /\ Waiting(socket) = Waiting(socket)' + One(Head(socket))
             /\ Waiting(socket)' \in Nat /\ One(Head(socket)) \in Nat
  <2>1. /\ held = "none" /\ ~HasEnd(inbound)
    BY <1>3 DEF Hands
  <2>2. /\ LastOnly(socket') /\ (HasEnd(socket') => HasEnd(socket))
        /\ Head(socket) \in Ends => socket' = <<>> /\ HasEnd(socket)
    BY <1>2, <1>3, TailEnds
  <2>3. /\ Waiting(socket) = Waiting(socket') + One(Head(socket))
        /\ Waiting(socket') \in Nat
    BY <1>2, <1>3, TailWaiting, TextsFinite
  <2>4. One(Head(socket)) \in Nat
    BY DEF One
  <2>5. /\ LastOnly(path)' /\ HasEnd(path)' = HasEnd(path)
        /\ Waiting(path)' = Waiting(path)
    BY <1>3
  <2> QED BY <2>1, <2>2, <2>3, <2>4, <2>5
\* A frame is put into the channel.
<1>4. ASSUME NEW k \in Kinds, inbound' = Append(inbound, k), ~HasEnd(inbound)
      PROVE  /\ LastOnly(inbound)' /\ (HasEnd(inbound)' => k \in Ends)
             /\ Waiting(inbound)' = Waiting(inbound) + One(k)
  BY <1>2, <1>4, AppendEnds, AppendWaiting
<1>5. CASE ReadPing
  <2>1. /\ rpc = "select" /\ socket # <<>> /\ socket' = Tail(socket)
        /\ Head(socket) = "ping"
        /\ UNCHANGED <<path, alive, closing, unrouted, rpc, held, end>>
        /\ inbound' = Append(inbound, "ping") \/ inbound' = inbound
    BY <1>5 DEF ReadPing, peerVars, counts
  <2>2. "ping" \in Kinds /\ "ping" \notin Ends /\ One("ping") = 0
    BY DEF Kinds, Ends, One
  <2>3. /\ LastOnly(inbound)' /\ ~HasEnd(inbound)'
        /\ Waiting(inbound)' = Waiting(inbound)
    BY <1>3, <1>4, <2>1, <2>2, Places
  <2>4. EndComing' => EndComing
    BY <1>3, <2>1, <2>3 DEF EndComing
  <2>5. InTransit' = InTransit
    <3>1. /\ Waiting(inbound)' = Waiting(inbound) /\ One(held)' = One(held)
          /\ Waiting(socket)' = Waiting(socket)
          /\ Waiting(path)' = Waiting(path)
      BY <1>3, <2>1, <2>2, <2>3, Counts
    <3> QED BY <3>1 DEF InTransit
  <2>6. CloseComesLast'
    BY <1>1, <2>1 DEF CloseComesLast
  <2> QED BY <1>3, <2>1, <2>3, <2>4, <2>5, <2>6, Places
<1>6. CASE ReadOther
  <2>1. /\ rpc = "select" /\ socket # <<>> /\ socket' = Tail(socket)
        /\ Head(socket) = "other"
        /\ UNCHANGED <<path, alive, closing, unrouted, rpc, held, end, inbound>>
    BY <1>6 DEF ReadOther, peerVars, loopVars, counts
  <2>2. "other" \notin Ends /\ One("other") = 0
    BY DEF Ends, One
  <2>3. /\ LastOnly(inbound)' /\ ~HasEnd(inbound)'
        /\ Waiting(inbound)' = Waiting(inbound)
    BY <1>3, <2>1
  <2>4. EndComing' => EndComing
    BY <1>3, <2>1, <2>3 DEF EndComing
  <2>5. InTransit' = InTransit
    <3>1. /\ Waiting(inbound)' = Waiting(inbound) /\ One(held)' = One(held)
          /\ Waiting(socket)' = Waiting(socket)
          /\ Waiting(path)' = Waiting(path)
      BY <1>3, <2>1, <2>2, <2>3, Counts
    <3> QED BY <3>1 DEF InTransit
  <2>6. CloseComesLast'
    BY <1>1, <2>1 DEF CloseComesLast
  <2> QED BY <1>3, <2>1, <2>3, <2>4, <2>5, <2>6, Places
<1>7. CASE ReadHandover
  <2>1. /\ rpc = "select" /\ socket # <<>> /\ socket' = Tail(socket)
        /\ held' = Head(socket)
        /\ UNCHANGED <<path, alive, closing, unrouted, end, inbound>>
    BY <1>7 DEF ReadHandover, peerVars, loopVars, counts
  <2>2. /\ LastOnly(inbound)' /\ ~HasEnd(inbound)'
        /\ Waiting(inbound)' = Waiting(inbound)
    BY <1>3, <2>1
  <2>3. EndComing' => EndComing
    BY <1>3, <2>1, <2>2 DEF EndComing
  <2>4. InTransit' = InTransit
    BY <1>3, <2>1, <2>2, Places DEF InTransit
  <2>5. CloseComesLast'
    BY <1>1, <2>1 DEF CloseComesLast
  <2>6. held' \in Ends => socket' = <<>> /\ path' = <<>>
    BY <1>3, <2>1
  <2> QED BY <1>3, <2>1, <2>2, <2>3, <2>4, <2>5, <2>6, Places
<1>8. CASE GetBudget
  <2>1. /\ rpc = "budget" /\ rpc' = "send"
        /\ UNCHANGED <<path, socket, held, inbound, alive, closing, unrouted,
                       end>>
    BY <1>8 DEF GetBudget, peerVars, counts
  <2>2. ~HasEnd(inbound)'
    BY <2>1
  <2> QED BY <2>1, <2>2 DEF EndComing, InTransit, CloseComesLast
<1>9. CASE HandOver
  <2>1. /\ rpc = "send" /\ inbound' = Append(inbound, held) /\ held \in Kinds
        /\ held' = "none" /\ (held \in Ends => rpc' = "parked")
        /\ UNCHANGED <<path, socket, alive, closing, unrouted, end>>
    BY <1>9 DEF HandOver, peerVars, counts, Hands, Kinds, Ends
  <2>2. /\ LastOnly(inbound)' /\ (HasEnd(inbound)' => held \in Ends)
        /\ Waiting(inbound)' = Waiting(inbound) + One(held)
    BY <1>4, <2>1
  <2>3. /\ HasEnd(path)' = HasEnd(path) /\ HasEnd(socket)' = HasEnd(socket)
        /\ Waiting(path)' = Waiting(path) /\ Waiting(socket)' = Waiting(socket)
        /\ held' \notin Ends /\ One(held') = 0
    BY <2>1, Places
  <2>4. EndComing' => EndComing
    BY <2>1, <2>2, <2>3 DEF EndComing
  <2>5. InTransit' = InTransit
    BY <2>1, <2>2, <2>3, Places DEF InTransit
  <2>6. CloseComesLast'
    BY <1>1, <2>1 DEF CloseComesLast
  <2> QED BY <2>1, <2>2, <2>3, <2>4, <2>5, <2>6
<1>10. CASE CheckSilence
  <2>1. /\ UNCHANGED <<path, socket, inbound, held, rpc, alive, closing,
                       unrouted>>
        /\ end' # "closed"
    BY <1>1, <1>10 DEF CheckSilence, peerVars, counts
  <2> QED BY <2>1 DEF EndComing, InTransit, CloseComesLast
<1> QED BY <1>5, <1>6, <1>7, <1>8, <1>9, <1>10 DEF ReaderNext

\* The loop ends its session at the end it takes.
LEMMA EndLoop == Hands /\ EndBehind /\ LoopNext => EndBehind'
<1> SUFFICES ASSUME Hands, EndBehind, LoopNext PROVE EndBehind'
  OBVIOUS
<1> USE DEF EndBehind
<1>1. inbound \in Seq(Kinds) /\ unrouted \in Int
  BY DEF Hands
\* A frame is taken out of the channel.
<1>2. ASSUME inbound # <<>>, inbound' = Tail(inbound),
             UNCHANGED <<path, socket, held, rpc, alive, closing>>,
             unrouted' = unrouted - One(Head(inbound)),
             end' = "closed" => Head(inbound) \in Ends
      PROVE  EndBehind'
  <2>1. /\ LastOnly(inbound') /\ (HasEnd(inbound') => HasEnd(inbound))
        /\ Head(inbound) \in Ends => inbound' = <<>> /\ HasEnd(inbound)
    BY <1>1, <1>2, TailEnds
  <2>2. /\ Waiting(inbound) = Waiting(inbound)' + One(Head(inbound))
        /\ Waiting(inbound)' \in Nat
    BY <1>1, <1>2, TailWaiting, TextsFinite
  <2>3. One(Head(inbound)) \in Nat
    BY DEF One
  <2>4. /\ HasEnd(path)' = HasEnd(path) /\ HasEnd(socket)' = HasEnd(socket)
        /\ Waiting(path)' = Waiting(path) /\ Waiting(socket)' = Waiting(socket)
        /\ One(held)' = One(held)
    BY <1>2
  <2>5. EndComing' => EndComing
    BY <1>2, <2>1, <2>4 DEF EndComing
  <2>6. InTransit' = InTransit - One(Head(inbound)) /\ InTransit \in Nat
    <3>1. /\ One(held) \in Nat /\ Waiting(socket) \in Nat
          /\ Waiting(path) \in Nat
      BY Places
    <3>2. InTransit' = Waiting(inbound)' + One(held) + Waiting(socket)
                         + Waiting(path)
      BY <2>4 DEF InTransit
    <3>3. InTransit = (Waiting(inbound)' + One(Head(inbound))) + One(held)
                        + Waiting(socket) + Waiting(path)
      BY <2>2 DEF InTransit
    <3> HIDE DEF InTransit
    <3> QED BY <2>2, <2>3, <3>1, <3>2, <3>3
  <2>7. alive' \/ EndComing' => unrouted' = InTransit'
    BY <1>1, <1>2, <2>5, <2>6
  <2>8. ASSUME end' = "closed" PROVE unrouted' = 0
    <3>1. /\ Head(inbound) \in Ends /\ HasEnd(inbound) /\ inbound' = <<>>
          /\ rpc = "parked" /\ socket = <<>> /\ path = <<>> /\ held = "none"
      BY <1>2, <2>1, <2>8 DEF Hands
    <3>2. One(Head(inbound)) = 0 /\ unrouted = InTransit
      BY <3>1 DEF One, Ends, EndComing
    <3>3. Waiting(inbound)' = 0 /\ Waiting(socket)' = 0 /\ Waiting(path)' = 0
          /\ One(held)' = 0
      BY <2>4, <3>1, Places
    <3>4. InTransit' = 0
      BY <3>3 DEF InTransit
    <3> QED BY <1>1, <1>2, <2>6, <3>2, <3>4
  <2> QED BY <1>2, <2>1, <2>4, <2>5, <2>7, <2>8 DEF CloseComesLast
<1>3. CASE TakeText
  <2>1. One(Head(inbound)) = 1 /\ end' # "closed"
    BY <1>3 DEF TakeText, One, Up
  <2> QED BY <1>2, <1>3, <2>1 DEF TakeText, peerVars, readerVars
<1>4. CASE TakePing
  <2>1. unrouted' = unrouted - One(Head(inbound)) /\ end' # "closed"
    BY <1>1, <1>4 DEF TakePing, One, Up
  <2> QED BY <1>2, <1>4, <2>1 DEF TakePing, peerVars, readerVars
<1>5. CASE TakeEnd
  <2>1. unrouted' = unrouted - One(Head(inbound)) /\ Head(inbound) \in Ends
    BY <1>1, <1>5 DEF TakeEnd, One, Ends, counts
  <2> QED BY <1>2, <1>5, <2>1 DEF TakeEnd, peerVars, readerVars
<1>6. CASE WriteHeldUp \/ WriteDone \/ WriteStalls \/ WriteFails
  <2>1. /\ UNCHANGED <<path, socket, inbound, held, rpc, alive, closing,
                       unrouted>>
        /\ end' # "closed"
    BY <1>6 DEF WriteHeldUp, WriteDone, WriteStalls, WriteFails, Settled, Up,
                peerVars, readerVars, counts
  <2> QED BY <2>1 DEF EndComing, InTransit, CloseComesLast
<1> QED BY <1>3, <1>4, <1>5, <1>6 DEF LoopNext

\* Every step keeps the order.
LEMMA EndStep == Hands /\ EndBehind /\ [Next]_vars => EndBehind'
<1>1. EndBehind /\ (Tick \/ SessionOver \/ UNCHANGED vars) => EndBehind'
  <2>1. Tick \/ SessionOver \/ UNCHANGED vars =>
          UNCHANGED <<path, socket, inbound, held, rpc, alive, closing,
                      unrouted, end>>
    BY DEF Tick, SessionOver, vars, peerVars, readerVars, loopVars, counts
  <2> QED BY <2>1 DEF EndBehind, EndComing, InTransit, CloseComesLast
<1> QED BY <1>1, EndManager, EndReader, EndLoop DEF Next

\* A session ends by the manager's Close only once every text the manager sent
\* before it has been routed (read_manager, drive_session), for any channel and
\* budget and however the loop is held up.
THEOREM CloseAlwaysLast == Spec => []CloseComesLast
<1>1. Init => Hands /\ EndBehind
  BY HandsInit, EndInit
<1>2. Hands /\ EndBehind /\ [Next]_vars => (Hands /\ EndBehind)'
  BY HandsStep, EndStep
<1>3. EndBehind => CloseComesLast
  BY DEF EndBehind
<1> QED BY <1>1, <1>2, <1>3, PTL DEF Spec

-----------------------------------------------------------------------------
(* Types.  A text is off the books only once it has been routed, and no more *)
(* of them are on their way than there are.                                  *)

\* The reader moves texts along and loses none.
LEMMA ReaderTransit == Hands /\ ReaderNext => InTransit' = InTransit
<1> SUFFICES ASSUME Hands, ReaderNext PROVE InTransit' = InTransit
  OBVIOUS
<1>1. /\ inbound \in Seq(Kinds) /\ socket \in Seq(Kinds)
      /\ Waiting(path)' = Waiting(path)
  BY DEF Hands, ReaderNext, ReadPing, ReadOther, ReadHandover, GetBudget,
         HandOver, CheckSilence, peerVars
<1>2. ASSUME socket # <<>>, socket' = Tail(socket)
      PROVE  /\ Waiting(socket) = Waiting(socket)' + One(Head(socket))
             /\ Waiting(socket)' \in Nat
  <2>1. /\ Waiting(socket) = Waiting(socket') + One(Head(socket))
        /\ Waiting(socket') \in Nat
    BY <1>1, <1>2, TailWaiting, TextsFinite
  <2> QED BY <2>1
<1>3. ASSUME NEW k \in Kinds, inbound' = Append(inbound, k)
      PROVE  Waiting(inbound)' = Waiting(inbound) + One(k)
  BY <1>1, <1>3, AppendWaiting
<1>4. CASE ReadPing
  <2>1. /\ socket # <<>> /\ socket' = Tail(socket) /\ Head(socket) = "ping"
        /\ held' = held
        /\ inbound' = Append(inbound, "ping") \/ inbound' = inbound
    BY <1>4 DEF ReadPing
  <2>2. "ping" \in Kinds /\ One("ping") = 0
    BY DEF Kinds, One
  <2>3. Waiting(inbound)' = Waiting(inbound) /\ One(held)' = One(held)
    BY <1>3, <2>1, <2>2, Places
  <2> QED BY <1>1, <1>2, <2>1, <2>2, <2>3, Places DEF InTransit
<1>5. CASE ReadOther
  <2>1. /\ socket # <<>> /\ socket' = Tail(socket) /\ Head(socket) = "other"
        /\ UNCHANGED <<held, inbound>>
    BY <1>5 DEF ReadOther, loopVars
  <2>2. One("other") = 0
    BY DEF One
  <2>3. Waiting(inbound)' = Waiting(inbound) /\ One(held)' = One(held)
    BY <2>1
  <2> QED BY <1>1, <1>2, <2>1, <2>2, <2>3, Places DEF InTransit
<1>6. CASE ReadHandover
  <2>1. /\ socket # <<>> /\ socket' = Tail(socket) /\ held' = Head(socket)
        /\ held = "none" /\ inbound' = inbound
    BY <1>6 DEF ReadHandover, loopVars, Hands
  <2>2. /\ Waiting(inbound)' = Waiting(inbound) /\ One(held) = 0
        /\ One(held)' = One(Head(socket)) /\ One(Head(socket)) \in Nat
    BY <2>1 DEF One
  <2> QED BY <1>1, <1>2, <2>1, <2>2, Places DEF InTransit
<1>7. CASE GetBudget \/ CheckSilence
  BY <1>7 DEF GetBudget, CheckSilence, InTransit, peerVars
<1>8. CASE HandOver
  <2>1. /\ held \in Kinds /\ inbound' = Append(inbound, held)
        /\ held' = "none" /\ socket' = socket
    BY <1>8 DEF HandOver, Hands, Kinds
  <2>2. /\ Waiting(inbound)' = Waiting(inbound) + One(held)
        /\ One(held)' = 0 /\ Waiting(socket)' = Waiting(socket)
    BY <1>3, <2>1 DEF One
  <2> QED BY <1>1, <2>2, Places DEF InTransit
<1> QED BY <1>4, <1>5, <1>6, <1>7, <1>8 DEF ReaderNext

\* The loop takes a text off both sides of the account.
LEMMA LoopTransit ==
    Hands /\ LoopNext => InTransit' + unrouted = InTransit + unrouted'
<1> SUFFICES ASSUME Hands, LoopNext
             PROVE  InTransit' + unrouted = InTransit + unrouted'
  OBVIOUS
<1>1. /\ inbound \in Seq(Kinds) /\ unrouted \in Int
      /\ Waiting(path)' = Waiting(path) /\ Waiting(socket)' = Waiting(socket)
      /\ One(held)' = One(held)
  <2>1. UNCHANGED <<path, socket, held>>
    BY DEF LoopNext, TakeText, TakePing, TakeEnd, WriteHeldUp, WriteDone,
           WriteStalls, WriteFails, peerVars, readerVars
  <2> QED BY <2>1 DEF Hands
<1>2. CASE TakeText \/ TakePing \/ TakeEnd
  <2>1. /\ inbound # <<>> /\ inbound' = Tail(inbound)
        /\ unrouted' = unrouted - One(Head(inbound))
    BY <1>1, <1>2 DEF TakeText, TakePing, TakeEnd, counts, One
  <2>2. /\ Waiting(inbound) = Waiting(inbound') + One(Head(inbound))
        /\ Waiting(inbound') \in Nat
    BY <1>1, <2>1, TailWaiting, TextsFinite
  <2>3. Waiting(inbound)' = Waiting(inbound') /\ One(Head(inbound)) \in Nat
    BY DEF One
  <2> DEFINE x == One(Head(inbound))
             rest == One(held) + Waiting(socket) + Waiting(path)
  <2>4. /\ rest \in Nat /\ x \in Nat
        /\ InTransit = Waiting(inbound) + rest
        /\ InTransit' = Waiting(inbound)' + rest
    <3>1. rest \in Nat /\ Waiting(inbound) \in Nat /\ x \in Nat
      BY <2>3, Counts
    <3>2. /\ InTransit = Waiting(inbound) + One(held) + Waiting(socket)
                          + Waiting(path)
          /\ InTransit' = Waiting(inbound)' + One(held) + Waiting(socket)
                           + Waiting(path)
      BY <1>1 DEF InTransit
    <3>3. One(held) \in Nat /\ Waiting(socket) \in Nat /\ Waiting(path) \in Nat
          /\ Waiting(inbound)' \in Nat
      BY <2>2, <2>3, Counts
    <3> QED BY <3>1, <3>2, <3>3
  <2> HIDE DEF x, rest
  <2>5. /\ Waiting(inbound) = Waiting(inbound)' + x /\ Waiting(inbound)' \in Nat
        /\ unrouted' = unrouted - x
    BY <2>1, <2>2, <2>3 DEF x
  <2> QED BY <1>1, <2>4, <2>5
<1>3. CASE WriteHeldUp \/ WriteDone \/ WriteStalls \/ WriteFails
  BY <1>1, <1>3 DEF WriteHeldUp, WriteDone, WriteStalls, WriteFails, counts,
                    InTransit
<1> QED BY <1>2, <1>3 DEF LoopNext

\* The texts on their way are a number.
LEMMA TransitCounts == Hands => unrouted \in Int /\ InTransit \in Nat
BY Places DEF InTransit, Hands

\* No more texts are on their way than are not yet routed.
NoneForged == InTransit <= unrouted

LEMMA NoneForgedStep ==
    Hands /\ EndBehind /\ NoneForged /\ [Next]_vars => NoneForged'
<1> SUFFICES ASSUME Hands, EndBehind, NoneForged, [Next]_vars PROVE NoneForged'
  OBVIOUS
<1>1. /\ InTransit \in Nat /\ unrouted \in Int
      /\ Waiting(inbound) + One(held) + Waiting(socket) \in Nat
      /\ InTransit = (Waiting(inbound) + One(held) + Waiting(socket))
                       + Waiting(path)
      /\ Waiting(path) \in Nat
  BY Places DEF InTransit, Hands
<1>2. ASSUME alive', ManagerNext PROVE NoneForged'
  <2>1. alive' => unrouted' = InTransit'
    BY <1>2, EndManager DEF EndBehind
  <2>2. unrouted' \in Int
    BY <1>2, HandsStep DEF Hands, Next
  <2> QED BY <1>2, <2>1, <2>2 DEF NoneForged
<1>3. CASE ManagerNext
  <2>1. CASE ManagerGone
    <3>1. /\ path' = <<>> /\ unrouted' = unrouted
          /\ UNCHANGED <<inbound, held, socket>>
      BY <2>1 DEF ManagerGone, readerVars, loopVars, counts
    <3>2. InTransit' = Waiting(inbound) + One(held) + Waiting(socket) + 0
      BY <3>1, EmptyWaiting DEF InTransit
    <3> QED BY <1>1, <3>1, <3>2 DEF NoneForged
  <2>2. CASE Deliver
    <3>1. /\ path' = <<>> /\ socket' = socket \o path
          /\ UNCHANGED <<inbound, held, unrouted>>
          /\ socket \in Seq(Kinds) /\ path \in Seq(Kinds)
      BY <2>2 DEF Deliver, loopVars, counts, Hands
    <3>2. /\ Waiting(socket)' = Waiting(socket) + Waiting(path)
          /\ Waiting(path)' = 0 /\ Waiting(inbound)' = Waiting(inbound)
          /\ One(held)' = One(held)
      BY <3>1, ConcatWaiting, EmptyWaiting
    <3>3. InTransit' = InTransit
      BY <3>2, Places DEF InTransit
    <3> QED BY <3>1, <3>3 DEF NoneForged
  <2>3. CASE alive'
    BY <1>2, <1>3, <2>3
  <2>4. alive' \/ ManagerGone \/ Deliver
    BY <1>3 DEF ManagerNext, ManagerPings, ManagerSkips, ManagerSends, Sending
  <2> QED BY <2>1, <2>2, <2>3, <2>4
<1>4. CASE ReaderNext
  <2>1. unrouted' = unrouted
    BY <1>4 DEF ReaderNext, ReadPing, ReadOther, ReadHandover, GetBudget,
                HandOver, CheckSilence, counts
  <2> QED BY <1>4, <2>1, ReaderTransit DEF NoneForged
<1>5. CASE LoopNext
  <2>1. InTransit' + unrouted = InTransit + unrouted'
    BY <1>5, LoopTransit
  <2>2. unrouted' \in Int /\ InTransit' \in Int
    <3>1. Hands'
      BY <1>5, HandsStep DEF Next
    <3>2. (unrouted \in Int /\ InTransit \in Nat)'
      BY <3>1, TransitCounts, PTL
    <3> QED BY <3>2
  <2> QED BY <1>1, <2>1, <2>2 DEF NoneForged
<1>6. CASE Tick \/ SessionOver \/ UNCHANGED vars
  <2>1. UNCHANGED <<path, socket, held, inbound, unrouted>>
    BY <1>6 DEF Tick, SessionOver, vars, peerVars, readerVars, loopVars, counts
  <2> QED BY <2>1 DEF NoneForged, InTransit
<1> QED BY <1>3, <1>4, <1>5, <1>6 DEF Next

\* The limits are numbers, and no clock is kept beyond them.
LEMMA Limits ==
    /\ Floor \in Nat /\ Pings \in Nat /\ MaxGap \in Nat /\ WriteStall \in Nat
    /\ LongestLimit \in Nat /\ Pings * MaxGap \in Nat
    /\ Floor <= LongestLimit /\ Pings * MaxGap <= LongestLimit
    /\ \A p \in Periods : p \in Nat /\ p <= MaxGap
<1>1. /\ Floor \in Nat /\ Pings \in Nat /\ MaxGap \in Nat /\ WriteStall \in Nat
      /\ \A p \in Periods : p \in 1..MaxGap
  BY ReaderAssumption
<1>2. Pings * MaxGap \in Nat
  BY <1>1
<1> QED BY <1>1, <1>2 DEF LongestLimit, Larger

LEMMA TypeInit == Init => TypeOK
<1> SUFFICES ASSUME Init PROVE TypeOK
  OBVIOUS
<1>1. <<>> \in Seq(Kinds) /\ <<>> \in Seq(0..MaxGap) /\ Len(<<>>) = 0
  BY EmptySeq
<1>2. /\ period \in Periods /\ since \in 0..period
      /\ 0 \in 0..Delay /\ 0 \in 0..(LongestLimit + 1) /\ 0 \in 0..MaxGap
      /\ 0 \in 0..WriteStall /\ 0 \in 0..MaxFrames /\ 0 \in 0..MaxUpsets
      /\ 0 \in 0..0 /\ Budget \in 0..Budget /\ 0 <= Kept /\ 0 <= ChanSize
  BY Limits, ReaderAssumption DEF Init
<1> QED BY <1>1, <1>2 DEF Init, TypeOK

\* What sequences of frames and of gaps stay when one comes or goes.
LEMMA TypeSeqs ==
    ASSUME TypeOK
    PROVE  /\ socket # <<>> => Tail(socket) \in Seq(Kinds)
                               /\ Head(socket) \in Kinds
           /\ inbound # <<>> => /\ Tail(inbound) \in Seq(Kinds)
                                /\ Len(Tail(inbound)) <= ChanSize
           /\ \A k \in Kinds : Append(path, k) \in Seq(Kinds)
           /\ socket \o path \in Seq(Kinds) /\ <<>> \in Seq(Kinds)
           /\ \A k \in Kinds : Len(inbound) < ChanSize =>
                /\ Append(inbound, k) \in Seq(Kinds)
                /\ Len(Append(inbound, k)) <= ChanSize
           /\ LET later == Append(IF Len(gaps) = Kept THEN Tail(gaps)
                                                      ELSE gaps, quiet)
              IN  /\ later \in Seq(0..MaxGap) /\ Len(later) <= Kept
                  /\ later # <<>>
<1>1. /\ ChanSize \in Nat /\ Kept \in Nat /\ Kept # 0
      /\ Len(inbound) \in Nat /\ Len(gaps) \in Nat
  BY ReaderAssumption, LenProperties DEF TypeOK
<1>2. socket # <<>> => Tail(socket) \in Seq(Kinds) /\ Head(socket) \in Kinds
  BY TailWaiting DEF TypeOK
<1>3. inbound # <<>> => /\ Tail(inbound) \in Seq(Kinds)
                        /\ Len(Tail(inbound)) <= ChanSize
  BY <1>1, HeadTailProperties DEF TypeOK
<1>4. \A k \in Kinds : Append(path, k) \in Seq(Kinds)
  BY AppendProperties DEF TypeOK
<1>5. socket \o path \in Seq(Kinds) /\ <<>> \in Seq(Kinds)
  BY ConcatProperties, EmptySeq DEF TypeOK
<1>6. \A k \in Kinds : Len(inbound) < ChanSize =>
        /\ Append(inbound, k) \in Seq(Kinds)
        /\ Len(Append(inbound, k)) <= ChanSize
  BY <1>1, AppendProperties DEF TypeOK
<1> DEFINE kept == IF Len(gaps) = Kept THEN Tail(gaps) ELSE gaps
<1>7. kept \in Seq(0..MaxGap) /\ Len(kept) < Kept /\ Len(kept) \in Nat
  <2>1. CASE Len(gaps) = Kept
    <3>1. gaps # <<>>
      BY <1>1, <2>1, EmptySeq
    <3>2. Tail(gaps) \in Seq(0..MaxGap) /\ Len(Tail(gaps)) = Kept - 1
      BY <2>1, <3>1, HeadTailProperties DEF TypeOK
    <3> QED BY <1>1, <2>1, <3>2
  <2>2. CASE Len(gaps) # Kept
    BY <1>1, <2>2 DEF TypeOK
  <2> QED BY <2>1, <2>2
<1>8. quiet \in 0..MaxGap
  BY DEF TypeOK
<1> HIDE DEF kept
<1>9. /\ Append(kept, quiet) \in Seq(0..MaxGap)
      /\ Len(Append(kept, quiet)) = Len(kept) + 1
  BY <1>7, <1>8, AppendProperties
<1>10. /\ Append(kept, quiet) \in Seq(0..MaxGap)
       /\ Len(Append(kept, quiet)) <= Kept /\ Append(kept, quiet) # <<>>
  BY <1>1, <1>7, <1>9, EmptySeq
<1> QED BY <1>2, <1>3, <1>4, <1>5, <1>6, <1>10 DEF kept

\* The manager's steps keep the types.
LEMMA TypeManager == TypeOK /\ ManagerNext => TypeOK'
<1> SUFFICES ASSUME TypeOK, ManagerNext PROVE TypeOK'
  OBVIOUS
<1> USE DEF TypeOK
<1> HIDE DEF Kinds
<1>1. /\ 0 \in 0..period /\ 0 \in 0..Delay
  BY Limits, ReaderAssumption
<1>2. \A k \in {"ping", "text", "other", "close", "error"} : k \in Kinds
  BY DEF Kinds
<1>3. ASSUME NEW k \in Kinds, Send(k)
      PROVE  path' \in Seq(Kinds) /\ age' \in 0..Delay
  BY <1>1, <1>3, TypeSeqs DEF Send
<1>4. CASE ManagerPings
  BY <1>1, <1>2, <1>3, <1>4 DEF ManagerPings, readerVars, loopVars, counts,
                                cadence
<1>5. CASE ManagerSkips
  <2>1. upsets' \in 0..MaxUpsets
    BY <1>5, ReaderAssumption DEF ManagerSkips
  <2> QED BY <1>1, <1>5, <2>1 DEF ManagerSkips, readerVars, loopVars, cadence
<1>6. CASE ManagerGone
  <2>1. path' \in Seq(Kinds) /\ age' \in 0..Delay /\ since' \in 0..period'
    BY <1>1, <1>6, TypeSeqs DEF ManagerGone
  <2> QED BY <1>6, <2>1 DEF ManagerGone, readerVars, loopVars, counts, cadence
<1>7. CASE Deliver
  BY <1>1, <1>7, TypeSeqs DEF Deliver, loopVars, counts, cadence
<1>8. ASSUME NEW k \in {"text", "other", "close", "error"}, ManagerSends(k)
      PROVE  TypeOK'
  <2>1. frames' \in 0..MaxFrames /\ unrouted' \in 0..frames'
    BY <1>8, ReaderAssumption DEF ManagerSends
  <2>2. closing' \in BOOLEAN
    BY <1>8 DEF ManagerSends
  <2> QED BY <1>2, <1>3, <1>8, <2>1, <2>2
          DEF ManagerSends, readerVars, loopVars, cadence
<1> QED BY <1>4, <1>5, <1>6, <1>7, <1>8 DEF ManagerNext

\* So do the reader's.
LEMMA TypeReader == Hands /\ TypeOK /\ ReaderNext => TypeOK'
<1> SUFFICES ASSUME Hands, TypeOK, ReaderNext PROVE TypeOK'
  OBVIOUS
<1> USE DEF TypeOK
<1> HIDE DEF Kinds
<1>1. 0 \in 0..(LongestLimit + 1) /\ 0 \in 0..MaxGap
  BY Limits
<1>2. \A k \in {"ping", "text", "other", "close", "error"} : k \in Kinds
  BY DEF Kinds
<1>3. CASE ReadPing
  <2>1. /\ gaps' \in Seq(0..MaxGap) /\ Len(gaps') <= Kept
        /\ inbound' \in Seq(Kinds) /\ Len(inbound') <= ChanSize
        /\ socket' \in Seq(Kinds)
    BY <1>2, <1>3, TypeSeqs DEF ReadPing, OnPing
  <2> QED BY <1>1, <1>3, <2>1 DEF ReadPing, OnPing, OnFrame, peerVars, counts
<1>4. CASE ReadOther
  BY <1>1, <1>4, TypeSeqs DEF ReadOther, OnFrame, peerVars, loopVars, counts
<1>5. CASE ReadHandover
  <2>1. /\ held' \in {"none", "text", "close", "error"}
        /\ rpc' \in {"select", "budget", "send", "parked"}
    BY <1>5 DEF ReadHandover
  <2> QED BY <1>1, <1>5, <2>1, TypeSeqs
          DEF ReadHandover, OnFrame, peerVars, loopVars, counts
<1>6. CASE GetBudget
  <2>1. free' \in 0..Budget
    BY <1>6, ReaderAssumption DEF GetBudget
  <2> QED BY <1>6, <2>1 DEF GetBudget, peerVars, counts, cadence
<1>7. CASE HandOver
  <2>1. held \in Kinds
    BY <1>2, <1>7 DEF HandOver, Hands
  <2>2. inbound' \in Seq(Kinds) /\ Len(inbound') <= ChanSize
    BY <1>7, <2>1, TypeSeqs DEF HandOver
  <2> QED BY <1>1, <1>7, <2>2 DEF HandOver, peerVars, counts
<1>8. CASE CheckSilence
  BY <1>8 DEF CheckSilence, peerVars, counts, cadence
<1> QED BY <1>3, <1>4, <1>5, <1>6, <1>7, <1>8 DEF ReaderNext

\* The books bound what is not yet routed and what is free.
LEMMA BooksBound ==
    Hands /\ BudgetExact /\ NoneForged => unrouted \in Nat /\ free <= Budget
<1>1. Hands /\ NoneForged => unrouted \in Nat
  BY TransitCounts DEF NoneForged
<1>2. Hands /\ BudgetExact => free <= Budget
  <2>1. Hands => Waiting(inbound) \in Nat /\ free \in Int /\ Budget \in Nat
    BY TextsFinite, ReaderAssumption DEF Hands
  <2> QED BY <2>1 DEF BudgetExact
<1> QED BY <1>1, <1>2

\* And the loop's: it gives back no more than was taken, and routes nothing
\* twice.
LEMMA TypeLoop ==
    TypeOK /\ LoopNext /\ (Hands /\ BudgetExact /\ NoneForged)' => TypeOK'
<1> SUFFICES ASSUME TypeOK, LoopNext, (Hands /\ BudgetExact /\ NoneForged)'
             PROVE  TypeOK'
  OBVIOUS
<1>1. (unrouted \in Nat /\ free <= Budget)'
  BY BooksBound, PTL
<1> USE DEF TypeOK
<1> HIDE DEF Kinds
<1>2. 0 \in 0..WriteStall
  BY ReaderAssumption
<1>3. frames \in Nat /\ free \in Nat /\ Budget \in Nat /\ unrouted \in Nat
  BY ReaderAssumption
<1>4. upsets < MaxUpsets => upsets + 1 \in 0..MaxUpsets
  BY ReaderAssumption
<1>5. CASE TakeText
  <2>1. /\ unrouted' = unrouted - 1 /\ frames' = frames
        /\ free' = free + 1 \/ free' = free
    BY <1>5 DEF TakeText
  <2>2. unrouted' \in 0..frames' /\ free' \in 0..Budget
    BY <1>1, <1>3, <2>1
  <2>3. inbound' \in Seq(Kinds) /\ Len(inbound') <= ChanSize
    BY <1>5, TypeSeqs DEF TakeText
  <2>4. /\ lpc' \in {"idle", "write", "answer"} /\ wrote' \in 0..WriteStall
        /\ upsets' \in 0..MaxUpsets
    BY <1>2, <1>4, <1>5 DEF TakeText
  <2> QED BY <1>5, <2>2, <2>3, <2>4 DEF TakeText, peerVars, readerVars, cadence
<1>6. CASE TakePing
  <2>1. inbound' \in Seq(Kinds) /\ Len(inbound') <= ChanSize
    BY <1>6, TypeSeqs DEF TakePing
  <2>2. /\ lpc' \in {"idle", "write", "answer"} /\ wrote' \in 0..WriteStall
        /\ upsets' \in 0..MaxUpsets
    BY <1>2, <1>4, <1>6 DEF TakePing
  <2> QED BY <1>6, <2>1, <2>2 DEF TakePing, peerVars, readerVars, cadence
<1>7. CASE TakeEnd
  <2>1. inbound' \in Seq(Kinds) /\ Len(inbound') <= ChanSize
    BY <1>7, TypeSeqs DEF TakeEnd
  <2>2. end' \in {"none", "silent", "stalled", "closed", "lost"}
    BY <1>7 DEF TakeEnd
  <2> QED BY <1>7, <2>1, <2>2 DEF TakeEnd, peerVars, readerVars, cadence, counts
<1>8. CASE WriteHeldUp
  BY <1>2, <1>4, <1>8 DEF WriteHeldUp, peerVars, readerVars, cadence
<1>9. CASE WriteDone
  <2>1. free' = free + 1 \/ free' = free
    BY <1>9 DEF WriteDone
  <2>2. free' \in 0..Budget
    BY <1>1, <1>3, <2>1
  <2> QED BY <1>2, <1>9, <2>2 DEF WriteDone, peerVars, readerVars, cadence,
                                  counts
<1>10. CASE WriteStalls \/ WriteFails
  BY <1>10 DEF WriteStalls, WriteFails, peerVars, readerVars, cadence, counts
<1> QED BY <1>5, <1>6, <1>7, <1>8, <1>9, <1>10 DEF LoopNext

\* Time passes only as far as the deadlines.
LEMMA TypeTick == TypeOK /\ Tick => TypeOK'
<1> SUFFICES ASSUME TypeOK, Tick PROVE TypeOK'
  OBVIOUS
<1> USE DEF TypeOK
<1>1. since' \in 0..period
  <2>1. period \in Nat /\ since \in Nat
    BY Limits
  <2> QED BY <2>1 DEF Tick
<1>2. age' \in 0..Delay
  BY ReaderAssumption DEF Tick, Overdue
<1>3. silent' \in 0..(LongestLimit + 1) /\ quiet' \in 0..MaxGap
  BY Limits DEF Tick, Smaller
<1>4. wrote' \in 0..WriteStall
  BY Limits DEF Tick
<1>5. gone' \in Nat
  BY DEF Tick
<1> QED BY <1>1, <1>2, <1>3, <1>4, <1>5 DEF Tick

\* What the types rest on.
Books == Hands /\ BudgetExact /\ EndBehind /\ NoneForged /\ TypeOK

LEMMA BooksKept == Spec => []Books
<1>1. Init => Books
  <2>1. Init => NoneForged
    BY EmptyWaiting DEF Init, NoneForged, InTransit, One
  <2> QED BY <2>1, HandsInit, EndInit, TypeInit DEF Books
<1>2. Books /\ [Next]_vars => Books'
  <2> SUFFICES ASSUME Books, [Next]_vars PROVE Books'
    OBVIOUS
  <2>1. Hands' /\ BudgetExact' /\ NoneForged'
    BY HandsStep, BudgetStep, NoneForgedStep DEF Books
  <2>2. EndBehind'
    BY EndStep DEF Books
  <2>3. ASSUME ManagerNext \/ ReaderNext \/ LoopNext \/ Tick PROVE TypeOK'
    BY <2>1, <2>3, TypeManager, TypeReader, TypeLoop, TypeTick DEF Books
  <2>4. ASSUME SessionOver \/ UNCHANGED vars PROVE TypeOK'
    <3>1. UNCHANGED <<peerVars, socket, rpc, held, silent, quiet, gaps, due,
                      loopVars, counts>>
      BY <2>4 DEF SessionOver, vars, readerVars, cadence
    <3>2. TypeOK
      BY DEF Books
    <3> HIDE DEF Kinds
    <3> QED BY <3>1, <3>2 DEF peerVars, loopVars, counts, TypeOK
  <2>5. TypeOK'
    BY <2>3, <2>4 DEF Next
  <2> QED BY <2>1, <2>2, <2>5 DEF Books
<1> QED BY <1>1, <1>2, PTL DEF Spec

\* Every variable keeps its type: the channel never exceeds its size, the budget
\* stays between none and all, no more than PING_GAPS_KEPT gaps are kept, and
\* the clocks stop at their limits (read_manager, drive_session).
THEOREM ReaderTypeCorrect == Spec => []TypeOK
<1>1. Books => TypeOK
  BY DEF Books
<1> QED BY <1>1, BooksKept, PTL

-----------------------------------------------------------------------------
(* The watchdog.                                                            *)

\* A set of numbers that is not empty has a least one.
LEMMA NatLeast ==
    ASSUME NEW T \in SUBSET Nat, T # {}
    PROVE  \E x \in T : \A y \in T : x <= y
<1>1. \E x \in T : \A y \in T : ~(<<y, x>> \in OpToRel(<, Nat))
  BY NatLessThanWellFounded, WFMin
<1>2. \A x, y \in Nat : y < x => <<y, x>> \in OpToRel(<, Nat)
  BY DEF OpToRel
<1>3. \E x \in T : \A y \in T : ~(y < x)
  BY <1>1, <1>2, Zenon
<1> QED BY <1>3, SMT

\* There is a median, and it is one of the gaps: the longest has them all at
\* most itself, so that some gap has more than half of them.
LEMMA MedianKnown ==
    ASSUME gaps \in Seq(0..MaxGap), gaps # <<>>
    PROVE  /\ Median \in KnownGaps /\ Median \in 0..MaxGap
           /\ \A h \in KnownGaps :
                AtMost(h) > Len(gaps) \div 2 => Median <= h
<1> DEFINE n == Len(gaps)
           over == {g \in KnownGaps : AtMost(g) > n \div 2}
<1>1. n \in Nat /\ n # 0 /\ DOMAIN gaps = 1..n
  BY LenProperties, EmptySeq
<1>2. \A i \in 1..n : gaps[i] \in 0..MaxGap
  BY ElementOfSeq
<1>3. KnownGaps \subseteq 0..MaxGap /\ gaps[1] \in KnownGaps
  BY <1>1, <1>2 DEF KnownGaps
<1>4. PICK l \in KnownGaps : \A g \in KnownGaps : g <= l
  <2> DEFINE short == {MaxGap - g : g \in KnownGaps}
  <2>1. MaxGap \in Nat
    BY Limits
  <2>2. short \in SUBSET Nat /\ short # {}
    BY <1>3, <2>1
  <2>3. PICK d \in short : \A e \in short : d <= e
    BY <2>2, NatLeast
  <2>4. PICK l \in KnownGaps : d = MaxGap - l
    BY <2>3
  <2>5. \A g \in KnownGaps : MaxGap - l <= MaxGap - g
    BY <2>3, <2>4
  <2>6. \A g \in KnownGaps : g <= l
    BY <1>3, <2>1, <2>5
  <2> QED BY <2>6
<1>5. AtMost(l) = n
  <2>1. {i \in DOMAIN gaps : gaps[i] <= l} = 1..n
    BY <1>1, <1>4 DEF KnownGaps
  <2>2. Cardinality(1..n) = n
    BY <1>1, FS_Interval
  <2> QED BY <2>1, <2>2 DEF AtMost
<1>6. over \in SUBSET Nat /\ l \in over
  <2>1. n > n \div 2
    BY <1>1
  <2>2. l \in over
    BY <1>5, <2>1
  <2>3. \A g \in KnownGaps : g \in Nat
    BY <1>3
  <2> QED BY <2>2, <2>3
<1>7. PICK m \in over : \A g \in over : m <= g
  <2> HIDE DEF over
  <2> QED BY <1>6, NatLeast
<1>8. /\ m \in KnownGaps /\ AtMost(m) > Len(gaps) \div 2
      /\ \A h \in KnownGaps : AtMost(h) > Len(gaps) \div 2 => m <= h
  BY <1>7
<1>9. /\ Median \in KnownGaps
      /\ \A h \in KnownGaps : AtMost(h) > Len(gaps) \div 2 => Median <= h
  BY <1>8 DEF Median
<1> QED BY <1>3, <1>9

\* As many times more is more.
LEMMA TimesGrows ==
    \A p, m, x \in Nat : m <= x => p * m \in Nat /\ p * m <= p * x
<1> SUFFICES ASSUME NEW p \in Nat, NEW m \in Nat, NEW x \in Nat, m <= x
             PROVE  p * m \in Nat /\ p * m <= p * x
  OBVIOUS
<1>1. PICK d \in Nat : x = m + d
  <2>1. x - m \in Nat /\ x = m + (x - m)
    OBVIOUS
  <2> QED BY <2>1
<1>2. p * m \in Nat /\ p * d \in Nat /\ p * x = p * m + p * d
  BY <1>1
<1> QED BY <1>2

\* So the limit is a number, and never longer than the longest.
LEMMA LimitBounded ==
    ASSUME TypeOK, gaps # <<>>
    PROVE  SilenceLimit \in Nat /\ SilenceLimit <= LongestLimit
<1>1. Median \in Nat /\ Median <= MaxGap
  BY MedianKnown, Limits DEF TypeOK
<1>2. Pings * Median \in Nat /\ Pings * Median <= Pings * MaxGap
  <2> QED BY <1>1, TimesGrows, Limits
<1> HIDE DEF Median
<1> QED BY <1>2, Limits DEF SilenceLimit, Larger

\* While nothing new is read the limit stays.
LEMMA LimitKept == UNCHANGED gaps => SilenceLimit' = SilenceLimit
BY DEF SilenceLimit, Median, KnownGaps, AtMost

\* Alike after any step.
LEMMA LimitNumber == TypeOK => (gaps # <<>> => SilenceLimit \in Nat)
BY LimitBounded

\* An end stays in the channel until it is the one taken.
LEMMA EndStays ==
    ASSUME NEW s \in Seq(Kinds)
    PROVE  /\ HasEnd(s) /\ s # <<>> /\ Head(s) \notin Ends => HasEnd(Tail(s))
           /\ \A k \in Kinds : k \in Ends => HasEnd(Append(s, k))
<1>1. ASSUME HasEnd(s), s # <<>>, Head(s) \notin Ends PROVE HasEnd(Tail(s))
  <2>1. /\ Len(s) \in Nat /\ DOMAIN s = 1..Len(s)
        /\ Len(Tail(s)) = Len(s) - 1 /\ DOMAIN Tail(s) = 1..(Len(s) - 1)
        /\ Head(s) = s[1]
        /\ \A i \in 1..(Len(s) - 1) : Tail(s)[i] = s[i + 1]
    BY <1>1, HeadTailProperties, LenProperties
  <2>2. PICK i \in 1..Len(s) : s[i] \in Ends
    BY <1>1, <2>1 DEF HasEnd
  <2>3. i - 1 \in 1..(Len(s) - 1) /\ (i - 1) + 1 = i
    BY <1>1, <2>1, <2>2
  <2>4. Tail(s)[i - 1] \in Ends
    BY <2>1, <2>2, <2>3
  <2> QED BY <2>1, <2>3, <2>4 DEF HasEnd
<1>2. ASSUME NEW k \in Kinds, k \in Ends PROVE HasEnd(Append(s, k))
  <2>1. /\ Len(s) \in Nat /\ DOMAIN Append(s, k) = 1..(Len(s) + 1)
        /\ Append(s, k)[Len(s) + 1] = k
    BY AppendProperties, LenProperties
  <2>2. Len(s) + 1 \in DOMAIN Append(s, k)
    BY <2>1
  <2> QED BY <1>2, <2>1, <2>2 DEF HasEnd
<1> QED BY <1>1, <1>2

\* Once a check has been made the silence is within the limit, so at most one
\* over it.  After the manager has gone time passes only while the loop has been
\* in a write all along, or with nothing to read since then at the latest.
CaughtUp ==
    /\ Up /\ gaps # <<>> /\ ~due => silent <= SilenceLimit
    /\ Up /\ gaps # <<>> /\ rpc = "select" => silent <= SilenceLimit + 1
    /\ alive \/ gaps = <<>> => gone = 0
    /\ Up /\ rpc = "parked" => HasEnd(inbound)
    /\ ~alive => path = <<>>
    /\ Up /\ gone # 0 =>
         \/ lpc # "idle" /\ gone <= wrote
         \/ rpc = "select" /\ socket = <<>> /\ gone <= silent

\* The manager's steps, at most the one that takes it away, leave it so.
LEMMA CaughtUpManager == Books /\ CaughtUp /\ ManagerNext => CaughtUp'
<1> SUFFICES ASSUME Books, CaughtUp, ManagerNext PROVE CaughtUp'
  OBVIOUS
<1> USE DEF CaughtUp
<1>1. UNCHANGED <<gaps, silent, due, rpc, inbound, lpc, wrote, end, gone>>
  BY DEF ManagerNext, ManagerPings, ManagerSkips, ManagerSends, ManagerGone,
         Deliver, readerVars, cadence, loopVars, counts
<1>2. SilenceLimit' = SilenceLimit
  BY <1>1, LimitKept
<1>3. CASE alive' /\ alive
  BY <1>1, <1>2, <1>3 DEF Up
<1>4. CASE ManagerGone
  <2>1. alive /\ path' = <<>> /\ gone = 0
    BY <1>4 DEF ManagerGone
  <2> QED BY <1>1, <1>2, <2>1 DEF Up
<1>5. CASE Deliver
  <2>1. alive /\ alive' = alive
    BY <1>5 DEF Deliver
  <2> QED BY <1>3, <2>1
<1> QED BY <1>3, <1>4, <1>5
        DEF ManagerNext, ManagerPings, ManagerSkips, ManagerSends, Sending

\* The reader sets the clock back at every frame, and judges it at every check.
LEMMA CaughtUpReader == Books /\ CaughtUp /\ ReaderNext => CaughtUp'
<1> SUFFICES ASSUME Books, CaughtUp, ReaderNext PROVE CaughtUp'
  OBVIOUS
<1> USE DEF CaughtUp
<1>1. TypeOK /\ TypeOK' /\ Hands
  BY TypeReader DEF Books
<1>2. /\ gaps # <<>> => SilenceLimit \in Nat
      /\ (gaps # <<>> => SilenceLimit \in Nat)'
  <2>1. TypeOK => (gaps # <<>> => SilenceLimit \in Nat)
    BY LimitBounded
  <2> QED BY <1>1, LimitNumber, PTL
<1>3. ASSUME socket # <<>>, rpc = "select",
             \/ silent' = 0
             \/ UNCHANGED <<silent, gaps, due>> /\ rpc' # "select",
             UNCHANGED <<path, alive, lpc, wrote, end, gone>>,
             gaps' = gaps \/ gaps' # <<>>,
             rpc' # "parked"
      PROVE  CaughtUp'
  BY <1>2, <1>3, LimitKept DEF Up
<1>4. CASE ReadPing
  <2>1. gaps' # <<>>
    BY <1>1, <1>4, TypeSeqs DEF ReadPing, OnPing
  <2> QED BY <1>3, <1>4, <2>1 DEF ReadPing, OnPing, OnFrame, peerVars, counts
<1>5. CASE ReadOther
  BY <1>3, <1>5 DEF ReadOther, OnFrame, peerVars, loopVars, counts
<1>6. CASE ReadHandover
  <2>1. /\ socket # <<>> /\ rpc = "select"
        /\ silent' = 0 \/ silent' = silent
        /\ UNCHANGED <<peerVars, quiet, gaps, due, loopVars, counts>>
    BY <1>6 DEF ReadHandover, OnFrame
  <2>2. UNCHANGED <<path, alive, lpc, wrote, end, gone, gaps, due>>
    BY <2>1 DEF peerVars, loopVars, counts
  <2>3. rpc' \notin {"parked", "select"}
    BY <1>6 DEF ReadHandover
  <2> QED BY <1>3, <2>1, <2>2, <2>3
<1>7. CASE GetBudget
  <2>1. /\ UNCHANGED <<path, alive, gaps, silent, due, socket, inbound, lpc,
                       wrote, end, gone>>
        /\ rpc = "budget" /\ rpc' = "send"
    BY <1>7 DEF GetBudget, peerVars, cadence, counts
  <2> QED BY <2>1, LimitKept DEF Up
<1>8. CASE HandOver
  <2>1. /\ UNCHANGED <<path, alive, gaps, due, socket, lpc, wrote, end, gone>>
        /\ rpc = "send" /\ rpc' \in {"select", "parked"}
        /\ rpc' = "select" => silent' = 0
        /\ silent' = 0 \/ silent' = silent
    BY <1>8 DEF HandOver, peerVars, counts
  <2>2. rpc' = "parked" => HasEnd(inbound')
    <3>1. /\ held \in Kinds /\ inbound \in Seq(Kinds)
          /\ rpc' = "parked" => held \in Ends
      BY <1>1, <1>8 DEF HandOver, Hands, Kinds, Ends
    <3> QED BY <1>8, <3>1, EndStays DEF HandOver
  <2> QED BY <1>2, <2>1, <2>2, LimitKept DEF Up
<1>9. CASE CheckSilence
  <2>1. /\ UNCHANGED <<path, alive, gaps, silent, socket, rpc, inbound, lpc,
                       wrote, gone>>
        /\ Up /\ (Up' => ~Dead)
    BY <1>9 DEF CheckSilence, Up, peerVars, cadence, counts
  <2>2. silent \in Nat
    BY <1>1, Limits DEF TypeOK
  <2> QED BY <1>2, <2>1, <2>2, LimitKept DEF Dead
<1> QED BY <1>4, <1>5, <1>6, <1>7, <1>8, <1>9 DEF ReaderNext

\* A write begun before the manager went never ends but by failing.
LEMMA CaughtUpLoop == Books /\ CaughtUp /\ LoopNext => CaughtUp'
<1> SUFFICES ASSUME Books, CaughtUp, LoopNext PROVE CaughtUp'
  OBVIOUS
<1> USE DEF CaughtUp
<1>1. UNCHANGED <<path, alive, gaps, silent, due, socket, rpc, gone>>
  BY DEF LoopNext, TakeText, TakePing, TakeEnd, WriteHeldUp, WriteDone,
         WriteStalls, WriteFails, peerVars, readerVars, cadence, counts
<1>2. SilenceLimit' = SilenceLimit
  BY <1>1, LimitKept
<1>3. gone \in Nat /\ wrote \in Nat
  BY Limits DEF Books, TypeOK
<1>4. Up' => Up
  BY DEF LoopNext, TakeText, TakePing, TakeEnd, WriteHeldUp, WriteDone,
         WriteStalls, WriteFails, Up, Settled
<1>5. Up' /\ rpc = "parked" => HasEnd(inbound')
  <2>1. CASE TakeText \/ TakePing
    <3>1. /\ inbound # <<>> /\ Head(inbound) \notin Ends
          /\ inbound' = Tail(inbound) /\ inbound \in Seq(Kinds)
      BY <2>1 DEF TakeText, TakePing, Ends, Books, Hands
    <3> QED BY <1>4, <3>1, EndStays
  <2>2. CASE TakeEnd
    BY <2>2 DEF TakeEnd, Up
  <2>3. CASE WriteHeldUp \/ WriteDone \/ WriteStalls \/ WriteFails
    <3>1. inbound' = inbound
      BY <2>3 DEF WriteHeldUp, WriteDone, WriteStalls, WriteFails
    <3> QED BY <1>4, <3>1
  <2> QED BY <2>1, <2>2, <2>3 DEF LoopNext
<1>6. ASSUME Up', gone # 0
      PROVE  \/ lpc' # "idle" /\ gone <= wrote'
             \/ rpc = "select" /\ socket = <<>> /\ gone <= silent
  <2>1. CASE lpc # "idle" /\ gone <= wrote
    <3>1. ~alive /\ wrote # 0
      BY <1>3, <1>6, <2>1
    <3>2. ~(TakeText \/ TakePing \/ TakeEnd \/ WriteHeldUp \/ WriteDone)
      BY <2>1, <3>1 DEF TakeText, TakePing, TakeEnd, WriteHeldUp, WriteDone
    <3>3. ~(WriteStalls \/ WriteFails)
      BY <1>6 DEF WriteStalls, WriteFails, Up
    <3> QED BY <3>2, <3>3 DEF LoopNext
  <2>2. CASE rpc = "select" /\ socket = <<>> /\ gone <= silent
    BY <2>2
  <2> QED BY <1>4, <1>6, <2>1, <2>2
<1> QED BY <1>1, <1>2, <1>4, <1>5, <1>6 DEF Up

\* When time passes either the loop is in a write, or everything has been taken
\* and the check has been made.
LEMMA CaughtUpTick == Books /\ CaughtUp /\ Tick => CaughtUp'
<1> SUFFICES ASSUME Books, CaughtUp, Tick PROVE CaughtUp'
  OBVIOUS
<1>1. /\ Settled /\ Up /\ due' = TRUE
      /\ UNCHANGED <<path, alive, gaps, socket, rpc, inbound, lpc, end, free>>
      /\ silent' = Smaller(silent + 1, LongestLimit + 1)
      /\ wrote' = IF lpc = "idle" THEN 0 ELSE wrote + 1
      /\ gone' = IF alive \/ gaps = <<>> THEN 0 ELSE gone + 1
  BY DEF Tick, Settled, Up
<1>2. /\ TypeOK /\ Hands /\ BudgetExact
      /\ silent \in Nat /\ gone \in Nat /\ wrote \in Nat
      /\ LongestLimit \in Nat
  BY Limits DEF Books, TypeOK
<1>3. SilenceLimit' = SilenceLimit
  BY <1>1, LimitKept
<1>4. gaps # <<>> => SilenceLimit \in Nat /\ SilenceLimit <= LongestLimit
  BY <1>2, LimitBounded
<1>5. rpc = "select" => ~due /\ socket = <<>>
  BY <1>1 DEF Settled, ReaderCanMove
<1>6. lpc = "idle" => rpc = "select"
  <2> SUFFICES ASSUME lpc = "idle", rpc # "select" PROVE FALSE
    OBVIOUS
  <2>1. inbound = <<>>
    BY <1>1 DEF Settled, LoopCanMove
  <2>2. rpc # "parked"
    BY <1>1, <2>1, EmptyEnds DEF CaughtUp
  <2>3. rpc # "send"
    BY <1>1, <2>1, EmptySeq, ReaderAssumption DEF Settled, ReaderCanMove
  <2>4. rpc # "budget"
    <3>1. ASSUME rpc = "budget" PROVE free = Budget
      <4>1. Waiting(inbound) = 0 /\ free \in Int
        BY <1>2, <2>1, EmptyWaiting DEF Hands
      <4> QED BY <1>2, <3>1, <4>1 DEF BudgetExact
    <3> QED BY <1>1, <3>1, ReaderAssumption DEF Settled, ReaderCanMove
  <2> QED BY <1>2, <2>2, <2>3, <2>4 DEF Hands
<1>7. gaps # <<>> /\ rpc = "select" =>
        silent <= SilenceLimit /\ silent' = silent + 1
  <2>1. gaps # <<>> /\ rpc = "select" => silent <= SilenceLimit
    BY <1>1, <1>5 DEF CaughtUp
  <2> QED BY <1>1, <1>2, <1>4, <2>1 DEF Smaller
<1>8. ASSUME gone' # 0
      PROVE  \/ lpc # "idle" /\ gone' <= wrote'
             \/ rpc = "select" /\ socket = <<>> /\ gone' <= silent'
  <2>1. gaps # <<>> /\ gone' = gone + 1
    BY <1>1, <1>8
  <2>2. CASE lpc # "idle" /\ gone <= wrote
    BY <1>1, <1>2, <2>1, <2>2
  <2>3. CASE rpc = "select" /\ gone <= silent
    BY <1>2, <1>5, <1>7, <2>1, <2>3
  <2>4. CASE gone = 0
    <3>1. CASE lpc = "idle"
      BY <1>2, <1>6, <2>3, <2>4, <3>1
    <3>2. CASE lpc # "idle"
      BY <1>2, <2>2, <2>4, <3>2
    <3> QED BY <3>1, <3>2
  <2> QED BY <1>1, <2>2, <2>3, <2>4 DEF CaughtUp
<1>9. gaps # <<>> /\ rpc = "select" => silent' <= SilenceLimit + 1
  BY <1>2, <1>4, <1>7
<1> QED BY <1>1, <1>3, <1>8, <1>9 DEF CaughtUp, Up

\* Once a ping has armed the watchdog, a manager that is gone without a word is
\* noticed within the limit its own pings taught or WRITE_STALL_LIMIT, whichever
\* is longer, and one check on top, whatever was under way when it went
\* (read_manager, InboundCadence, send_bounded).
THEOREM GoneIsNoticed == Spec => []DeadNoticed
<1>1. Init => CaughtUp
  <2>1. Init => gone = 0 /\ rpc = "select" /\ gaps = <<>> /\ path = <<>>
    BY DEF Init
  <2> QED BY <2>1 DEF CaughtUp
<1>2. Books /\ CaughtUp /\ [Next]_vars => CaughtUp'
  <2>1. SessionOver \/ UNCHANGED vars =>
          /\ UNCHANGED <<path, alive, gaps, silent, due, socket, rpc, inbound,
                         lpc, wrote, end, gone>>
          /\ SilenceLimit' = SilenceLimit
    BY LimitKept DEF SessionOver, vars, peerVars, readerVars, cadence, loopVars,
                     counts
  <2>2. CaughtUp /\ (SessionOver \/ UNCHANGED vars) => CaughtUp'
    BY <2>1 DEF CaughtUp, Up
  <2> QED BY <2>2, CaughtUpManager, CaughtUpReader, CaughtUpLoop, CaughtUpTick
          DEF Next
<1>3. Books /\ CaughtUp => DeadNoticed
  <2> SUFFICES ASSUME Books, CaughtUp, Up
               PROVE  gone <= Larger(IF gaps = <<>> THEN 0 ELSE SilenceLimit,
                                     WriteStall) + 1
    BY DEF DeadNoticed
  <2>1. /\ TypeOK /\ gone \in Nat /\ wrote \in Nat /\ wrote <= WriteStall
        /\ WriteStall \in Nat /\ silent \in Nat
    BY Limits DEF Books, TypeOK
  <2> DEFINE learned == IF gaps = <<>> THEN 0 ELSE SilenceLimit
  <2>2. learned \in Nat
    BY <2>1, LimitBounded
  <2>3. gone = 0 \/ gone <= wrote \/ gone <= learned + 1
    <3>1. gone # 0 => gaps # <<>>
      BY DEF CaughtUp
    <3>2. ASSUME gone # 0, gone > wrote PROVE gone <= learned + 1
      <4>1. rpc = "select" /\ gone <= silent /\ gaps # <<>>
        BY <2>1, <3>1, <3>2 DEF CaughtUp
      <4>2. silent <= learned + 1
        BY <4>1 DEF CaughtUp
      <4> QED BY <2>1, <2>2, <4>1, <4>2
    <3> QED BY <2>1, <3>2
  <2> HIDE DEF learned
  <2>4. gone <= Larger(learned, WriteStall) + 1
    BY <2>1, <2>2, <2>3 DEF Larger
  <2> QED BY <2>4 DEF learned
<1> QED BY <1>1, <1>2, <1>3, BooksKept, PTL DEF Spec

-----------------------------------------------------------------------------
(* A manager that is there.  Its silence reaches the limit only if pings     *)
(* stamped in a burst have brought that down below its keepalive.            *)

\* The last of as many pings as may be lost in a row is still within the limit:
\* the floor, or Pings gaps that are no shorter than an interval less the delay.
LimitCovers ==
    \A p \in Periods :
      \/ p + MaxUpsets * p + Delay <= Floor
      \/ Delay <= p /\ p + MaxUpsets * p + Delay <= Pings * (p - Delay)

\* While the manager is there its end is on its way once it has sent it.  As far
\* as the reader has read everything, it has been silent no longer than since
\* the last ping that was due, and the pings lost before it; or as long as the
\* frames on their way have taken.
Fresh ==
    Up /\ alive =>
      /\ closing => HasEnd(path) \/ HasEnd(socket) \/ held \in Ends
                    \/ rpc = "parked"
      /\ rpc = "select" /\ socket = <<>> =>
           IF path = <<>> THEN silent <= since + upsets * period
                          ELSE silent <= period + upsets * period + age

\* Frames put behind an end, or an end put behind them, leave it there.
LEMMA EndsAdded ==
    ASSUME NEW s \in Seq(Kinds), NEW t \in Seq(Kinds), HasEnd(s) \/ HasEnd(t)
    PROVE  HasEnd(s \o t)
<1>1. /\ Len(s) \in Nat /\ Len(t) \in Nat
      /\ DOMAIN s = 1..Len(s) /\ DOMAIN t = 1..Len(t)
      /\ DOMAIN (s \o t) = 1..(Len(s) + Len(t))
      /\ \A i \in 1..(Len(s) + Len(t)) :
           (s \o t)[i] = IF i <= Len(s) THEN s[i] ELSE t[i - Len(s)]
  BY ConcatProperties, LenProperties
<1>2. ASSUME NEW i \in DOMAIN s, s[i] \in Ends PROVE HasEnd(s \o t)
  <2>1. i \in 1..(Len(s) + Len(t)) /\ i <= Len(s)
    BY <1>1, <1>2
  <2> QED BY <1>1, <1>2, <2>1 DEF HasEnd
<1>3. ASSUME NEW i \in DOMAIN t, t[i] \in Ends PROVE HasEnd(s \o t)
  <2>1. /\ i + Len(s) \in 1..(Len(s) + Len(t)) /\ ~(i + Len(s) <= Len(s))
        /\ (i + Len(s)) - Len(s) = i
    BY <1>1, <1>3
  <2> QED BY <1>1, <1>3, <2>1 DEF HasEnd
<1> QED BY <1>2, <1>3 DEF HasEnd

\* An upset more makes the bounds longer.
LEMMA UpsetsLengthen ==
    ASSUME TypeOK
    PROVE  /\ upsets * period \in Nat
           /\ (upsets + 1) * period = upsets * period + period
           /\ upsets * period <= MaxUpsets * period
           /\ period \in Nat /\ since \in Nat /\ since <= period /\ age \in Nat
           /\ silent \in Nat
<1>1. /\ upsets \in Nat /\ MaxUpsets \in Nat /\ upsets <= MaxUpsets
      /\ period \in Nat /\ since \in Nat /\ since <= period /\ age \in Nat
      /\ silent \in Nat
  BY Limits, ReaderAssumption DEF TypeOK
<1>2. \A u, p \in Nat : u * p \in Nat /\ (u + 1) * p = u * p + p
  OBVIOUS
<1>3. \A u, v, p \in Nat : u <= v => u * p <= v * p
  <2> SUFFICES ASSUME NEW u \in Nat, NEW v \in Nat, NEW p \in Nat, u <= v
               PROVE  u * p <= v * p
    OBVIOUS
  <2>1. v - u \in Nat /\ v = u + (v - u)
    OBVIOUS
  <2>2. PICK d \in Nat : v = u + d
    BY <2>1
  <2>3. v * p = u * p + d * p /\ u * p \in Nat /\ d * p \in Nat
    BY <2>2
  <2> QED BY <2>3
<1> QED BY <1>1, <1>2, <1>3

\* Nobody who has gone comes back.
LEMMA GoneForGood == [Next]_vars /\ alive' => alive
<1> SUFFICES ASSUME [Next]_vars, alive' PROVE alive
  OBVIOUS
<1>1. CASE ManagerNext
  <2>1. ManagerGone => FALSE
    BY DEF ManagerGone
  <2>2. ~ManagerGone => alive' = alive
    BY <1>1 DEF ManagerNext, ManagerPings, ManagerSkips, Deliver, ManagerSends
  <2> QED BY <2>1, <2>2
<1>2. CASE ReaderNext
  <2>1. UNCHANGED peerVars
    BY <1>2 DEF ReaderNext, ReadPing, ReadOther, ReadHandover, GetBudget,
                HandOver, CheckSilence
  <2> QED BY <2>1 DEF peerVars
<1>3. CASE LoopNext
  <2>1. UNCHANGED peerVars
    BY <1>3 DEF LoopNext, TakeText, TakePing, TakeEnd, WriteHeldUp, WriteDone,
                WriteStalls, WriteFails
  <2> QED BY <2>1 DEF peerVars
<1>4. CASE Tick
  BY <1>4 DEF Tick
<1>5. CASE SessionOver \/ UNCHANGED vars
  BY <1>5 DEF SessionOver, vars, peerVars
<1> QED BY <1>1, <1>2, <1>3, <1>4, <1>5 DEF Next

\* The manager's steps keep it so:
LEMMA FreshManager == Books /\ Fresh /\ ManagerNext => Fresh'
<1> SUFFICES ASSUME Books, Fresh, ManagerNext PROVE Fresh'
  OBVIOUS
<1>0. SUFFICES ASSUME Up, Up', alive, alive' PROVE Fresh'
  <2>1. end' = end
    BY DEF ManagerNext, ManagerPings, ManagerSkips, ManagerGone, Deliver,
           ManagerSends, loopVars
  <2>2. alive' => alive
    BY GoneForGood DEF Next
  <2> QED BY <2>1, <2>2 DEF Fresh, Up
<1>1. /\ TypeOK /\ Hands
      /\ path \in Seq(Kinds) /\ socket \in Seq(Kinds)
  BY DEF Books, Hands
<1>2. /\ closing => HasEnd(path) \/ HasEnd(socket) \/ held \in Ends
                    \/ rpc = "parked"
      /\ rpc = "select" /\ socket = <<>> =>
           IF path = <<>> THEN silent <= since + upsets * period
                          ELSE silent <= period + upsets * period + age
  BY <1>0 DEF Fresh
<1> DEFINE lost == upsets * period
<1>3. /\ lost \in Nat /\ period \in Nat /\ since \in Nat /\ since <= period
      /\ age \in Nat /\ silent \in Nat
      /\ (upsets + 1) * period = lost + period
  BY <1>1, UpsetsLengthen
<1> HIDE DEF lost
<1>4. ASSUME NEW k \in Kinds, Send(k), ~closing, k \in Ends \/ ~closing',
             UNCHANGED <<period, alive, readerVars, loopVars, upsets>>
      PROVE  Fresh'
  <2>1. path' = Append(path, k) /\ path' # <<>> /\ (k \in Ends => HasEnd(path'))
    BY <1>1, <1>4, AppendProperties, EndStays DEF Send
  <2>2. /\ UNCHANGED <<rpc, socket, held, silent, end>>
        /\ lost' = lost
    BY <1>4 DEF readerVars, cadence, loopVars, lost
  <2>3. rpc = "select" /\ socket = <<>> => silent <= period + lost + age'
    BY <1>2, <1>3, <1>4 DEF Send, lost
  <2>4. closing' => HasEnd(path)'
    BY <1>4, <2>1
  <2> QED BY <1>4, <2>1, <2>2, <2>3, <2>4 DEF Fresh, lost
<1>5. CASE ManagerPings
  <2>1. "ping" \in Kinds
    BY DEF Kinds
  <2> QED BY <1>4, <1>5, <2>1 DEF ManagerPings, Sending, counts
<1>6. CASE ManagerSkips
  <2>1. /\ UNCHANGED <<period, alive, closing, path, age, socket, rpc, held,
                       silent, end>>
        /\ since = period /\ since' = 0 /\ upsets' = upsets + 1 /\ ~closing
    BY <1>6 DEF ManagerSkips, Sending, readerVars, cadence, loopVars
  <2>2. upsets' * period' = lost + period
    BY <1>3, <2>1
  <2>3. rpc = "select" /\ socket = <<>> =>
           IF path = <<>> THEN silent <= 0 + (lost + period)
                          ELSE silent <= period + (lost + period) + age
    BY <1>2, <1>3, <2>1 DEF lost
  <2> QED BY <2>1, <2>2, <2>3 DEF Fresh
<1>7. CASE ManagerGone
  BY <1>0, <1>7 DEF ManagerGone
<1>8. CASE Deliver
  <2>1. /\ path # <<>> /\ socket' = socket \o path /\ path' = <<>>
        /\ UNCHANGED <<closing, rpc, held>>
    BY <1>8 DEF Deliver
  <2>2. socket' # <<>>
    BY <1>1, <2>1, ConcatProperties, EmptySeq, LenProperties
  <2>3. HasEnd(path) \/ HasEnd(socket) => HasEnd(socket)'
    BY <1>1, <2>1, EndsAdded
  <2> QED BY <1>2, <2>1, <2>2, <2>3 DEF Fresh
<1>9. ASSUME NEW k \in {"text", "other", "close", "error"}, ManagerSends(k)
      PROVE  Fresh'
  <2>1. /\ k \in Kinds /\ (k \in Ends <=> k \in {"close", "error"})
    BY DEF Kinds, Ends
  <2>2. /\ Send(k) /\ ~closing /\ (closing' => k \in Ends)
        /\ UNCHANGED <<period, alive, readerVars, loopVars, upsets>>
    BY <1>9, <2>1 DEF ManagerSends, Sending
  <2> QED BY <1>4, <2>1, <2>2
<1> QED BY <1>5, <1>6, <1>7, <1>8, <1>9 DEF ManagerNext

\* so do the reader's;
LEMMA FreshReader == Books /\ Fresh /\ ReaderNext => Fresh'
<1> SUFFICES ASSUME Books, Fresh, ReaderNext PROVE Fresh'
  OBVIOUS
<1>0. SUFFICES ASSUME alive PROVE Fresh'
  <2>1. alive' => alive
    BY GoneForGood DEF Next
  <2> QED BY <2>1 DEF Fresh
<1>1. Up /\ UNCHANGED <<period, since, alive, closing, path, age, upsets>>
  BY DEF ReaderNext, ReadPing, ReadOther, ReadHandover, GetBudget, HandOver,
         CheckSilence, peerVars, counts
<1>2. /\ TypeOK /\ Hands /\ socket \in Seq(Kinds)
  BY DEF Books, Hands
<1>3. /\ closing => HasEnd(path) \/ HasEnd(socket) \/ held \in Ends
                    \/ rpc = "parked"
      /\ rpc = "select" /\ socket = <<>> =>
           IF path = <<>> THEN silent <= since + upsets * period
                          ELSE silent <= period + upsets * period + age
  BY <1>0, <1>1 DEF Fresh
<1> DEFINE lost == upsets * period
<1>4. lost \in Nat /\ period \in Nat /\ since \in Nat /\ age \in Nat
  BY <1>2, UpsetsLengthen
<1>5. lost' = lost
  BY <1>1
<1> HIDE DEF lost
\* What has just been read resets the silence.
<1>6. ASSUME silent' = 0,
             closing => HasEnd(path) \/ HasEnd(socket)' \/ held' \in Ends
                        \/ rpc' = "parked"
      PROVE  Fresh'
  <2>1. IF path' = <<>> THEN silent' <= since' + lost'
                        ELSE silent' <= period' + lost' + age'
    BY <1>1, <1>4, <1>5, <1>6
  <2> QED BY <1>1, <1>6, <2>1 DEF Fresh, lost
<1>7. CASE ReadPing \/ ReadOther
  <2>1. /\ rpc = "select" /\ socket # <<>> /\ socket' = Tail(socket)
        /\ Head(socket) \notin Ends /\ silent' = 0 /\ held' = held
    BY <1>7 DEF ReadPing, ReadOther, OnPing, OnFrame, Ends
  <2>2. held \notin Ends
    BY <1>2, <2>1 DEF Hands, Ends
  <2>3. HasEnd(socket) => HasEnd(socket')
    BY <1>2, <2>1, EndStays
  <2> QED BY <1>3, <1>6, <2>1, <2>2, <2>3
<1>8. CASE ReadHandover
  <2>1. /\ rpc = "select" /\ socket # <<>> /\ socket' = Tail(socket)
        /\ held' = Head(socket) /\ rpc' # "select"
    BY <1>8 DEF ReadHandover
  <2>2. held \notin Ends
    BY <1>2, <2>1 DEF Hands, Ends
  <2>3. HasEnd(socket) => HasEnd(socket') \/ held' \in Ends
    BY <1>2, <2>1, EndStays
  <2> QED BY <1>1, <1>3, <2>1, <2>2, <2>3 DEF Fresh
<1>9. CASE GetBudget
  BY <1>1, <1>3, <1>9 DEF GetBudget, Fresh
<1>10. CASE HandOver
  <2>1. held \in Ends => rpc' = "parked"
    BY <1>10 DEF HandOver, Ends
  <2>2. held = "text" => silent' = 0
    BY <1>10 DEF HandOver
  <2>3. held # "text" => rpc' = "parked"
    BY <1>10 DEF HandOver
  <2>4. rpc = "send" /\ socket' = socket
    BY <1>10 DEF HandOver
  <2>5. closing => HasEnd(path) \/ HasEnd(socket)' \/ rpc' = "parked"
    BY <1>3, <2>1, <2>4
  <2>6. CASE held = "text"
    BY <1>6, <2>2, <2>5, <2>6
  <2>7. CASE held # "text"
    BY <1>1, <2>3, <2>5, <2>7 DEF Fresh
  <2> QED BY <2>6, <2>7
<1>11. CASE CheckSilence
  <2>1. UNCHANGED <<socket, rpc, held, silent>>
    BY <1>11 DEF CheckSilence, cadence
  <2> QED BY <1>1, <1>3, <1>5, <2>1 DEF Fresh, lost
<1> QED BY <1>7, <1>8, <1>9, <1>10, <1>11 DEF ReaderNext

\* so do the session loop's, at most an upset more;
LEMMA FreshLoop == Books /\ Fresh /\ LoopNext => Fresh'
<1> SUFFICES ASSUME Books, Fresh, LoopNext PROVE Fresh'
  OBVIOUS
<1>1. /\ Up /\ UNCHANGED <<peerVars, readerVars>>
      /\ upsets' = upsets \/ upsets' = upsets + 1
  BY DEF LoopNext, TakeText, TakePing, TakeEnd, WriteHeldUp, WriteDone,
         WriteStalls, WriteFails, Settled, counts
<1>2. UNCHANGED <<period, since, alive, closing, path, age, socket, rpc, held,
                  silent>>
  BY <1>1 DEF peerVars, readerVars, cadence
<1> DEFINE lost == upsets * period
<1>3. /\ lost \in Nat /\ period \in Nat /\ since \in Nat /\ age \in Nat
      /\ silent \in Nat
      /\ (upsets + 1) * period = lost + period
  BY UpsetsLengthen DEF Books
<1>4. lost' = lost \/ lost' = lost + period
  BY <1>1, <1>2, <1>3
<1> HIDE DEF lost
<1>5. /\ silent <= since + lost => silent <= since + lost'
      /\ silent <= period + lost + age => silent <= period + lost' + age
  BY <1>3, <1>4
<1> QED BY <1>1, <1>2, <1>5 DEF Fresh, lost

\* and time passes for the silence only as it does for the manager.
LEMMA FreshTick == Books /\ Fresh /\ Tick => Fresh'
<1> SUFFICES ASSUME Books, Fresh, Tick, alive PROVE Fresh'
  BY DEF Tick, Fresh
<1>1. /\ Up /\ Settled
      /\ UNCHANGED <<period, alive, closing, path, socket, rpc, held, upsets,
                     end>>
      /\ since' = IF Sending THEN since + 1 ELSE 0
      /\ age' = IF path # <<>> /\ rpc = "select" THEN age + 1 ELSE age
      /\ silent' = Smaller(silent + 1, LongestLimit + 1)
  BY DEF Tick, Settled
<1> DEFINE lost == upsets * period
<1>2. /\ lost \in Nat /\ period \in Nat /\ since \in Nat /\ age \in Nat
      /\ silent \in Nat
  BY UpsetsLengthen DEF Books
<1>3. lost' = lost
  BY <1>1
<1> HIDE DEF lost
<1>4. silent' \in Nat /\ silent' <= silent + 1
  BY <1>1, <1>2, Limits DEF Smaller
<1>5. closing => HasEnd(path) \/ HasEnd(socket) \/ held \in Ends
                    \/ rpc = "parked"
  BY <1>1 DEF Fresh
<1>6. ASSUME rpc = "select", socket = <<>>, path = <<>>
      PROVE  silent' <= since' + lost'
  <2>1. ~HasEnd(path) /\ ~HasEnd(socket) /\ held \notin Ends
    BY <1>6, EmptyEnds DEF Books, Hands, Ends
  <2>2. Sending
    BY <1>1, <1>5, <1>6, <2>1 DEF Sending
  <2>3. silent <= since + lost
    BY <1>1, <1>6 DEF Fresh, lost
  <2> QED BY <1>1, <1>2, <1>3, <1>4, <2>2, <2>3
<1>7. ASSUME rpc = "select", socket = <<>>, path # <<>>
      PROVE  silent' <= period' + lost' + age'
  <2>1. silent <= period + lost + age
    BY <1>1, <1>7 DEF Fresh, lost
  <2> QED BY <1>1, <1>2, <1>3, <1>4, <1>7, <2>1
<1> QED BY <1>1, <1>5, <1>6, <1>7 DEF Fresh, lost

\* Nothing happens in a session that has ended.
LEMMA OverStays == ~Up /\ [Next]_vars => UNCHANGED vars
BY DEF Next, ManagerNext, ManagerPings, ManagerSkips, ManagerGone, Deliver,
       ManagerSends, Sending, Settled, ReaderNext, ReadPing, ReadOther,
       ReadHandover, GetBudget, HandOver, CheckSilence, LoopNext, TakeText,
       TakePing, TakeEnd, WriteHeldUp, WriteDone, WriteStalls, WriteFails, Tick,
       SessionOver

\* Nobody who is there is taken for dead in a step that keeps it so.
LEMMA NotTaken ==
    LimitCovers /\ Books /\ Fresh /\ LiveNotTakenForDead /\ [Next]_vars
      => LiveNotTakenForDead'
<1> SUFFICES ASSUME LimitCovers, Books, Fresh, LiveNotTakenForDead, [Next]_vars,
                    end' = "silent", alive'
             PROVE  (~FitsFloor /\ StampedInBurst)'
  BY DEF LiveNotTakenForDead
<1>1. CASE end = "silent"
  <2>1. UNCHANGED <<period, gaps, end, alive>>
    BY <1>1, OverStays DEF Up, vars, peerVars, readerVars, cadence, loopVars
  <2>2. ~FitsFloor /\ StampedInBurst
    BY <1>1, <2>1 DEF LiveNotTakenForDead
  <2>3. Median' = Median
    BY <2>1 DEF Median, KnownGaps, AtMost
  <2> QED BY <2>1, <2>2, <2>3 DEF FitsFloor, StampedInBurst
<1>2. CASE end # "silent"
  <2>1. CheckSilence /\ Dead
    <3>1. ~(ManagerNext \/ Tick \/ SessionOver \/ UNCHANGED vars)
      BY <1>2 DEF ManagerNext, ManagerPings, ManagerSkips, ManagerGone,
         Deliver, ManagerSends, Tick, SessionOver, vars, loopVars
    <3>2. ~LoopNext
      BY <1>2 DEF LoopNext, TakeText, TakePing, TakeEnd, WriteHeldUp, WriteDone,
             WriteStalls, WriteFails
    <3>3. CheckSilence
      BY <1>2, <3>1, <3>2 DEF Next, ReaderNext, ReadPing, ReadOther,
         ReadHandover, GetBudget, HandOver, loopVars
    <3> QED BY <1>2, <3>3 DEF CheckSilence
  <2>2. /\ Up /\ rpc = "select" /\ socket = <<>> /\ gaps # <<>> /\ alive
        /\ silent > SilenceLimit /\ UNCHANGED <<period, gaps>>
    BY <2>1 DEF CheckSilence, Dead, NothingToRead, peerVars, cadence
  <2>3. Median' = Median
    BY <2>2 DEF Median, KnownGaps, AtMost
  <2> SUFFICES ~FitsFloor /\ Median < period - Delay
    BY <2>2, <2>3 DEF FitsFloor, StampedInBurst
  <2> DEFINE lost == upsets * period
             most == MaxUpsets * period
  <2>4. TypeOK /\ period \in Periods /\ age <= Delay /\ Delay \in Nat
    BY ReaderAssumption DEF Books, TypeOK
  <2>5. /\ lost \in Nat /\ lost <= most /\ period \in Nat /\ since \in Nat
        /\ since <= period /\ age \in Nat /\ silent \in Nat
    BY <2>4, UpsetsLengthen
  <2>6. most \in Nat /\ Floor \in Nat /\ Pings \in Nat
    <3>1. MaxUpsets \in Nat
      BY ReaderAssumption
    <3> QED BY <2>5, <3>1, Limits, ReaderAssumption
  <2>7. /\ FitsFloor <=> period + most + Delay <= Floor
        /\ ~FitsFloor => /\ Delay <= period
                        /\ period + most + Delay <= Pings * (period - Delay)
    BY <2>4 DEF FitsFloor, LimitCovers
  <2>8. silent <= since + lost \/ silent <= period + lost + age
    BY <2>2 DEF Fresh
  <2> HIDE DEF lost, most
  <2>9. silent <= period + most + Delay
    BY <2>4, <2>5, <2>6, <2>8
  <2>10. Median \in Nat
    BY <2>2, <2>4, MedianKnown, Limits DEF TypeOK
  <2>11. /\ SilenceLimit \in Nat /\ Floor <= SilenceLimit
         /\ Pings * Median <= SilenceLimit /\ Pings * Median \in Nat
    <3>1. SilenceLimit \in Nat
      BY <2>2, <2>4, LimitBounded
    <3>2. Pings * Median \in Nat
      BY <2>6, <2>10
    <3> QED BY <2>6, <3>1, <3>2 DEF SilenceLimit, Larger
  <2>12. ~FitsFloor
    BY <2>2, <2>4, <2>5, <2>6, <2>7, <2>9, <2>11
  <2>13. Median < period - Delay
    <3>1. SUFFICES ASSUME period - Delay <= Median PROVE FALSE
      BY <2>4, <2>5, <2>10
    <3>2. period - Delay \in Nat
      BY <2>4, <2>5, <2>7, <2>12
    <3>3. Pings * (period - Delay) \in Nat
          /\ Pings * (period - Delay) <= Pings * Median
      BY <2>6, <2>10, <3>1, <3>2, TimesGrows
    <3> QED BY <2>2, <2>4, <2>5, <2>6, <2>7, <2>9, <2>11, <2>12, <3>3
  <2> QED BY <2>12, <2>13
<1> QED BY <1>1, <1>2

\* A manager that is there is never taken for dead but for pings stamped in a
\* burst, whatever holds the session loop up: for any floor and number of gaps
\* kept, and any keepalive of which as many pings may be lost in a row as the
\* floor or Pings intervals can bear (SILENCE_FLOOR, SILENCE_PINGS,
\* InboundCadence).
THEOREM LiveNeverTaken == LimitCovers /\ Spec => []LiveNotTakenForDead
<1> DEFINE Taken == LimitCovers /\ LiveNotTakenForDead
<1>1. Init => Fresh /\ LiveNotTakenForDead
  <2> SUFFICES ASSUME Init PROVE Fresh /\ LiveNotTakenForDead
    OBVIOUS
  <2>1. /\ end = "none" /\ closing = FALSE /\ silent = 0 /\ path = <<>>
    BY DEF Init
  <2>2. 0 <= since + upsets * period
    BY TypeInit, UpsetsLengthen
  <2> QED BY <2>1, <2>2 DEF Fresh, LiveNotTakenForDead
<1>2. Books /\ Fresh /\ [Next]_vars => Fresh'
  <2>1. SessionOver \/ UNCHANGED vars =>
          UNCHANGED <<period, since, alive, closing, path, age, socket, rpc,
                      held, silent, end, upsets>>
    BY DEF SessionOver, vars, peerVars, readerVars, cadence, loopVars, counts
  <2>2. Fresh /\ (SessionOver \/ UNCHANGED vars) => Fresh'
    BY <2>1 DEF Fresh, Up
  <2> QED BY <2>2, FreshManager, FreshReader, FreshLoop, FreshTick DEF Next
<1>3. Books /\ Fresh /\ Taken /\ [Next]_vars => Taken'
  BY NotTaken DEF LimitCovers
<1>4. LimitCovers /\ Init => Taken
  BY <1>1
<1>5. Taken => LiveNotTakenForDead
  OBVIOUS
<1> HIDE DEF Taken
<1> QED BY <1>1, <1>2, <1>3, <1>4, <1>5, BooksKept, PTL DEF Spec

-----------------------------------------------------------------------------
(* What one upset teaches.  Gaps are odd that are longer than an interval    *)
(* and a frame's way.                                                        *)

OddIn(s) == {i \in DOMAIN s : s[i] > period + Delay}
OneOdd(s) == \A i, j \in OddIn(s) : i = j
PingIn(s) == \E i \in DOMAIN s : s[i] = "ping"

\* The next gap the reader stamps, if any, will not be odd.
Regular ==
    \/ rpc = "parked"
    \/ /\ PingIn(socket) => quiet <= period + Delay
       /\ PingIn(path) => quiet <= period + age
       /\ alive /\ ~closing /\ ~PingIn(socket) /\ ~PingIn(path)
            => quiet <= since

\* The reader waits for the loop, which is in a write.
Blocked ==
    \/ rpc = "budget" /\ free = 0
    \/ rpc = "send" /\ Len(inbound) = ChanSize

\* With one upset at most, one gap at most is odd: once it is there the upset
\* has been, and all is regular again; before, the upset may have come already.
Punctual ==
    upsets <= 1 =>
      /\ OneOdd(gaps)
      /\ OddIn(gaps) # {} \/ lpc # "idle" => upsets = 1
      /\ OddIn(gaps) = {} \/ lpc = "idle"
      /\ \/ Regular
         \/ upsets = 1 /\ OddIn(gaps) = {} /\ (lpc = "idle" \/ Blocked)

\* A gap dropped or added changes what is odd by itself at most.
LEMMA OddTail ==
    ASSUME NEW s \in Seq(0..MaxGap), s # <<>>
    PROVE  /\ Tail(s) \in Seq(0..MaxGap)
           /\ OneOdd(s) => OneOdd(Tail(s))
           /\ OddIn(s) = {} => OddIn(Tail(s)) = {}
<1>1. /\ Len(s) \in Nat /\ DOMAIN s = 1..Len(s)
      /\ Tail(s) \in Seq(0..MaxGap) /\ DOMAIN Tail(s) = 1..(Len(s) - 1)
      /\ \A i \in 1..(Len(s) - 1) : Tail(s)[i] = s[i + 1]
  BY HeadTailProperties, LenProperties
<1>2. \A i \in OddIn(Tail(s)) : i + 1 \in OddIn(s) /\ i \in Nat
  BY <1>1 DEF OddIn
<1>3. ASSUME OneOdd(s), NEW i \in OddIn(Tail(s)), NEW j \in OddIn(Tail(s))
      PROVE  i = j
  <2>1. i + 1 = j + 1 /\ i \in Nat /\ j \in Nat
    BY <1>2, <1>3 DEF OneOdd
  <2> QED BY <2>1
<1>4. OddIn(s) = {} => OddIn(Tail(s)) = {}
  BY <1>2
<1> QED BY <1>1, <1>3, <1>4 DEF OneOdd

LEMMA OddAppend ==
    ASSUME NEW s \in Seq(0..MaxGap), NEW x \in 0..MaxGap
    PROVE  /\ ~(x > period + Delay) => OddIn(Append(s, x)) = OddIn(s)
           /\ OddIn(s) = {} => OneOdd(Append(s, x))
<1>1. /\ Len(s) \in Nat /\ DOMAIN s = 1..Len(s)
      /\ DOMAIN Append(s, x) = 1..(Len(s) + 1)
      /\ Append(s, x)[Len(s) + 1] = x
      /\ \A i \in 1..Len(s) : Append(s, x)[i] = s[i]
  BY AppendProperties, LenProperties
<1>2. \A i \in 1..(Len(s) + 1) : i \in 1..Len(s) \/ i = Len(s) + 1
  BY <1>1
<1>3. \A i \in 1..Len(s) : i \in 1..(Len(s) + 1)
  BY <1>1
<1>4. \A i : i \in OddIn(Append(s, x))
              <=> i \in OddIn(s) \/ (i = Len(s) + 1 /\ x > period + Delay)
  <2> SUFFICES ASSUME NEW i
               PROVE  i \in OddIn(Append(s, x))
                      <=> i \in OddIn(s)
                          \/ (i = Len(s) + 1 /\ x > period + Delay)
    OBVIOUS
  <2>1. Len(s) + 1 \in 1..(Len(s) + 1) /\ Len(s) + 1 \notin 1..Len(s)
    BY <1>1
  <2> QED BY <1>1, <1>2, <1>3, <2>1 DEF OddIn
<1> DEFINE before == OddIn(s)
           after == OddIn(Append(s, x))
<1>5. \A i : i \in after
              <=> i \in before \/ (i = Len(s) + 1 /\ x > period + Delay)
  BY <1>4
<1>6. OneOdd(Append(s, x)) <=> \A i, j \in after : i = j
  BY DEF OneOdd
<1> HIDE DEF before, after
<1>7. ~(x > period + Delay) => after = before
  BY <1>5
<1>8. before = {} => \A i, j \in after : i = j
  BY <1>5
<1> QED BY <1>6, <1>7, <1>8 DEF before, after

\* A frame more or less is the ping it is.
LEMMA PingsMoved ==
    ASSUME NEW s \in Seq(Kinds)
    PROVE  /\ \A k \in Kinds : PingIn(Append(s, k)) <=> PingIn(s) \/ k = "ping"
           /\ s # <<>> => (PingIn(s) <=> PingIn(Tail(s)) \/ Head(s) = "ping")
           /\ ~PingIn(<<>>)
           /\ \A t \in Seq(Kinds) : PingIn(s \o t) <=> PingIn(s) \/ PingIn(t)
<1>1. Len(s) \in Nat /\ DOMAIN s = 1..Len(s)
  BY LenProperties
<1>2. ASSUME NEW k \in Kinds
      PROVE  PingIn(Append(s, k)) <=> PingIn(s) \/ k = "ping"
  <2>1. /\ DOMAIN Append(s, k) = 1..(Len(s) + 1)
        /\ Append(s, k)[Len(s) + 1] = k
        /\ \A i \in 1..Len(s) : Append(s, k)[i] = s[i]
    BY AppendProperties, LenProperties
  <2>2. \A i : i \in 1..(Len(s) + 1) <=> i \in 1..Len(s) \/ i = Len(s) + 1
    BY <1>1
  <2> QED BY <1>1, <2>1, <2>2 DEF PingIn
<1>3. ASSUME s # <<>>
      PROVE  PingIn(s) <=> PingIn(Tail(s)) \/ Head(s) = "ping"
  <2>1. /\ DOMAIN Tail(s) = 1..(Len(s) - 1) /\ Head(s) = s[1]
        /\ Len(s) \in Nat \ {0}
        /\ \A i \in 1..(Len(s) - 1) : Tail(s)[i] = s[i + 1]
    BY <1>3, HeadTailProperties, LenProperties, EmptySeq
  <2>2. \A i \in 1..Len(s) : i = 1 \/ (i - 1 \in 1..(Len(s) - 1)
                                        /\ (i - 1) + 1 = i)
    BY <2>1
  <2>3. 1 \in 1..Len(s) /\ \A i \in 1..(Len(s) - 1) : i + 1 \in 1..Len(s)
    BY <2>1
  <2>4. PingIn(s) => PingIn(Tail(s)) \/ Head(s) = "ping"
    <3>1. ASSUME NEW i \in 1..Len(s), s[i] = "ping", i # 1 PROVE PingIn(Tail(s))
      <4>1. i - 1 \in 1..(Len(s) - 1) /\ (i - 1) + 1 = i
        BY <2>2, <3>1
      <4>2. Tail(s)[i - 1] = "ping"
        BY <2>1, <3>1, <4>1
      <4> QED BY <2>1, <4>1, <4>2 DEF PingIn
    <3> QED BY <1>1, <2>1, <3>1 DEF PingIn
  <2>5. PingIn(Tail(s)) \/ Head(s) = "ping" => PingIn(s)
    BY <1>1, <2>1, <2>3 DEF PingIn
  <2> QED BY <2>4, <2>5
<1>4. ASSUME NEW t \in Seq(Kinds)
      PROVE  PingIn(s \o t) <=> PingIn(s) \/ PingIn(t)
  <2>1. /\ Len(t) \in Nat /\ DOMAIN t = 1..Len(t)
        /\ DOMAIN (s \o t) = 1..(Len(s) + Len(t))
        /\ \A i \in 1..(Len(s) + Len(t)) :
             (s \o t)[i] = IF i <= Len(s) THEN s[i] ELSE t[i - Len(s)]
    BY ConcatProperties, LenProperties
  <2>2. \A i \in 1..(Len(s) + Len(t)) :
          i \in 1..Len(s) \/ (~(i <= Len(s)) /\ i - Len(s) \in 1..Len(t))
    BY <1>1, <2>1
  <2>3. \A i \in 1..Len(s) : i \in 1..(Len(s) + Len(t)) /\ i <= Len(s)
    BY <1>1, <2>1
  <2>4. \A i \in 1..Len(t) : /\ i + Len(s) \in 1..(Len(s) + Len(t))
                              /\ ~(i + Len(s) <= Len(s))
                              /\ (i + Len(s)) - Len(s) = i
    BY <1>1, <2>1
  <2>5. PingIn(s \o t) => PingIn(s) \/ PingIn(t)
    BY <1>1, <2>1, <2>2 DEF PingIn
  <2>6. PingIn(s) => PingIn(s \o t)
    BY <1>1, <2>1, <2>3 DEF PingIn
  <2>7. PingIn(t) => PingIn(s \o t)
    <3>1. ASSUME NEW i \in 1..Len(t), t[i] = "ping" PROVE PingIn(s \o t)
      <4>1. (s \o t)[i + Len(s)] = "ping"
        BY <2>1, <2>4, <3>1
      <4> QED BY <2>1, <2>4, <3>1, <4>1 DEF PingIn
    <3> QED BY <2>1, <3>1 DEF PingIn
  <2> QED BY <2>5, <2>6, <2>7
<1>5. ~PingIn(<<>>)
  BY DEF PingIn
<1> QED BY <1>2, <1>3, <1>4, <1>5

\* What has settled waits for frames, is over, or waits for a write.
LEMMA SettledWaits ==
    ASSUME Books, Settled
    PROVE  \/ rpc = "select" /\ socket = <<>>
           \/ rpc = "parked"
           \/ Blocked /\ lpc # "idle"
<1>1. /\ TypeOK /\ Hands /\ BudgetExact /\ ~ReaderCanMove /\ ~LoopCanMove
      /\ Budget \in Nat \ {0} /\ ChanSize \in Nat \ {0}
  BY ReaderAssumption DEF Books, Settled
<1>2. /\ free \in Nat /\ inbound \in Seq(Kinds) /\ Len(inbound) \in Nat
      /\ Len(inbound) <= ChanSize
  BY <1>1, ReaderAssumption, LenProperties DEF TypeOK
<1>3. rpc \in {"budget", "send"} => Blocked
  BY <1>1, <1>2 DEF ReaderCanMove, Blocked
<1>4. lpc = "idle" => inbound = <<>> /\ Len(inbound) = 0 /\ Waiting(inbound) = 0
  BY <1>1, EmptyWaiting, EmptySeq DEF LoopCanMove
<1>5. ASSUME lpc = "idle" PROVE rpc # "send" /\ rpc # "budget"
  <2>1. rpc # "send"
    BY <1>1, <1>4, <1>5 DEF ReaderCanMove
  <2>2. free = Budget
    BY <1>1, <1>2, <1>4, <1>5, <2>1 DEF BudgetExact
  <2> QED BY <1>1, <2>1, <2>2 DEF ReaderCanMove
<1> QED BY <1>1, <1>3, <1>5 DEF ReaderCanMove, TypeOK

\* The clocks and the sequences that the steps below speak of.
LEMMA PunctualTypes ==
    ASSUME Books
    PROVE  /\ period \in Nat /\ since \in Nat /\ age \in Nat /\ quiet \in Nat
           /\ since <= period /\ age <= Delay /\ Delay \in Nat
           /\ upsets \in Nat /\ quiet \in 0..MaxGap
           /\ path \in Seq(Kinds) /\ socket \in Seq(Kinds)
           /\ gaps \in Seq(0..MaxGap)
BY Limits, ReaderAssumption DEF Books, TypeOK

\* A step that stamps nothing keeps it so, if it leaves the pings regular and
\* the reader no less blocked.
LEMMA NothingStamped ==
    ASSUME Punctual, UNCHANGED <<period, gaps, upsets, lpc>>,
           Regular => Regular' \/ (lpc # "idle" /\ Blocked'),
           Blocked => Blocked' \/ lpc = "idle"
    PROVE  Punctual'
<1>1. OddIn(gaps)' = OddIn(gaps) /\ (OneOdd(gaps)' <=> OneOdd(gaps))
  BY DEF OddIn, OneOdd
<1> QED BY <1>1 DEF Punctual

\* The manager's steps keep it so:
LEMMA PunctualManager == Books /\ Punctual /\ ManagerNext => Punctual'
<1> SUFFICES ASSUME Books, Punctual, ManagerNext PROVE Punctual'
  OBVIOUS
<1>1. /\ period \in Nat /\ since \in Nat /\ age \in Nat /\ quiet \in Nat
      /\ since <= period /\ age <= Delay /\ Delay \in Nat /\ upsets \in Nat
      /\ path \in Seq(Kinds) /\ socket \in Seq(Kinds)
  BY PunctualTypes
<1>2. UNCHANGED <<period, quiet, gaps, rpc, lpc, free, inbound>>
  BY DEF ManagerNext, ManagerPings, ManagerSkips, ManagerGone, Deliver,
         ManagerSends, readerVars, cadence, loopVars
<1>3. Blocked' <=> Blocked
  BY <1>2 DEF Blocked
<1>4. ASSUME upsets' = upsets,
             Regular => Regular' \/ (lpc # "idle" /\ Blocked)
      PROVE  Punctual'
  BY <1>2, <1>3, <1>4, NothingStamped
<1>5. CASE ManagerPings
  <2>1. /\ upsets' = upsets /\ socket' = socket /\ Settled /\ alive /\ ~closing
        /\ since = period /\ path' = Append(path, "ping")
        /\ age' = IF path = <<>> THEN 0 ELSE age
    BY <1>5 DEF ManagerPings, Sending, Send, readerVars, counts
  <2>2. "ping" \in Kinds
    BY DEF Kinds
  <2>3. PingIn(path') /\ ~PingIn(<<>>)
    BY <1>1, <2>1, <2>2, PingsMoved
  <2>4. ASSUME Regular, rpc = "select", socket = <<>> PROVE Regular'
    <3>1. PingIn(path) => quiet <= period + age
      BY <2>4 DEF Regular
    <3>2. ~PingIn(path) => quiet <= period
      BY <2>1, <2>3, <2>4 DEF Regular
    <3>3. quiet <= period + age'
      BY <1>1, <2>1, <2>3, <3>1, <3>2
    <3> QED BY <1>2, <2>1, <2>3, <2>4, <3>3 DEF Regular
  <2>5. rpc = "parked" => Regular'
    BY <1>2 DEF Regular
  <2> QED BY <1>4, <2>1, <2>4, <2>5, SettledWaits
<1>6. CASE ManagerSkips
  <2>1. upsets' = upsets + 1
    BY <1>6 DEF ManagerSkips
  <2>2. ASSUME upsets' <= 1
        PROVE  upsets' = 1 /\ OddIn(gaps) = {} /\ OneOdd(gaps) /\ lpc = "idle"
    <3>1. upsets = 0
      BY <1>1, <2>1, <2>2
    <3> QED BY <2>1, <3>1 DEF Punctual
  <2>3. OddIn(gaps)' = OddIn(gaps) /\ (OneOdd(gaps)' <=> OneOdd(gaps))
    BY <1>2 DEF OddIn, OneOdd
  <2> QED BY <1>2, <2>2, <2>3 DEF Punctual
<1>7. CASE ManagerGone
  <2>1. /\ upsets' = upsets /\ socket' = socket /\ path' = <<>> /\ ~alive'
    BY <1>7 DEF ManagerGone, readerVars, counts
  <2>2. ~PingIn(path')
    BY <2>1 DEF PingIn
  <2> QED BY <1>2, <1>4, <2>1, <2>2 DEF Regular
<1>8. CASE Deliver
  <2>1. /\ upsets' = upsets /\ socket' = socket \o path /\ path' = <<>>
        /\ UNCHANGED <<since, alive, closing>>
    BY <1>8 DEF Deliver, counts
  <2>2. /\ ~PingIn(path')
        /\ PingIn(socket') <=> PingIn(socket) \/ PingIn(path)
    BY <1>1, <2>1, PingsMoved
  <2>3. Regular => Regular'
    BY <1>1, <1>2, <2>1, <2>2 DEF Regular
  <2> QED BY <1>4, <2>1, <2>3
<1>9. ASSUME NEW k \in {"text", "other", "close", "error"}, ManagerSends(k)
      PROVE  Punctual'
  <2>1. /\ upsets' = upsets /\ socket' = socket /\ path' = Append(path, k)
        /\ age' = IF path = <<>> THEN 0 ELSE age
        /\ UNCHANGED <<since, alive>> /\ ~closing
    BY <1>9 DEF ManagerSends, Sending, Send, readerVars
  <2>2. k \in Kinds /\ k # "ping"
    BY DEF Kinds
  <2>3. /\ PingIn(path') <=> PingIn(path)
        /\ PingIn(path) => age' = age
    BY <1>1, <2>1, <2>2, PingsMoved
  <2>4. Regular => Regular'
    BY <1>2, <2>1, <2>3 DEF Regular
  <2> QED BY <1>4, <2>1, <2>4
<1> QED BY <1>5, <1>6, <1>7, <1>8, <1>9 DEF ManagerNext

\* so do the reader's, which stamps the pings;
LEMMA PunctualReader == Books /\ Punctual /\ ReaderNext => Punctual'
<1> SUFFICES ASSUME Books, Punctual, ReaderNext PROVE Punctual'
  OBVIOUS
<1>1. /\ period \in Nat /\ since \in Nat /\ age \in Nat /\ quiet \in Nat
      /\ Delay \in Nat /\ upsets \in Nat /\ quiet \in 0..MaxGap
      /\ path \in Seq(Kinds) /\ socket \in Seq(Kinds)
      /\ gaps \in Seq(0..MaxGap)
  BY PunctualTypes
<1>2. UNCHANGED <<period, since, alive, closing, path, age, lpc, upsets>>
  BY DEF ReaderNext, ReadPing, ReadOther, ReadHandover, GetBudget, HandOver,
         CheckSilence, peerVars, loopVars, counts
<1>3. CASE ReadPing
  <2>1. /\ rpc = "select" /\ socket # <<>> /\ Head(socket) = "ping"
        /\ quiet' = 0
        /\ gaps' = Append(IF Len(gaps) = Kept THEN Tail(gaps) ELSE gaps, quiet)
    BY <1>3 DEF ReadPing, OnPing
  <2>2. PingIn(socket) /\ ~Blocked
    BY <1>1, <2>1, PingsMoved DEF Blocked
  <2>3. Regular'
    BY <1>1, <1>2, <2>1 DEF Regular
  <2>4. PICK g \in Seq(0..MaxGap) :
          /\ gaps' = Append(g, quiet)
          /\ OneOdd(gaps) => OneOdd(g)
          /\ OddIn(gaps) = {} => OddIn(g) = {}
    <3>1. CASE Len(gaps) = Kept
      <4>1. gaps # <<>>
        BY <3>1, ReaderAssumption, EmptySeq
      <4> QED BY <1>1, <2>1, <3>1, <4>1, OddTail
    <3>2. CASE Len(gaps) # Kept
      BY <1>1, <2>1, <3>2
    <3> QED BY <3>1, <3>2
  <2>6. ASSUME upsets <= 1, Regular
        PROVE  /\ OneOdd(gaps') /\ (OddIn(gaps) = {} => OddIn(gaps') = {})
    <3>1. ~(quiet > period + Delay)
      BY <1>1, <2>1, <2>2, <2>6 DEF Regular
    <3>2. OddIn(gaps') = OddIn(g)
      BY <1>1, <2>4, <3>1, OddAppend
    <3> QED BY <2>4, <2>6, <3>2 DEF Punctual, OneOdd
  <2>7. ASSUME upsets <= 1, ~Regular
        PROVE  upsets = 1 /\ lpc = "idle" /\ OneOdd(gaps')
    <3>1. upsets = 1 /\ OddIn(gaps) = {} /\ lpc = "idle"
      BY <2>2, <2>7 DEF Punctual
    <3> QED BY <1>1, <2>4, <3>1, OddAppend
  <2>8. OddIn(gaps)' = OddIn(gaps') /\ (OneOdd(gaps)' <=> OneOdd(gaps'))
    BY <1>2 DEF OddIn, OneOdd
  <2>9. CASE Regular
    BY <1>2, <2>3, <2>6, <2>8, <2>9 DEF Punctual
  <2>10. CASE ~Regular
    BY <1>2, <2>3, <2>7, <2>8, <2>10 DEF Punctual
  <2> QED BY <2>9, <2>10
<1>4. CASE ReadOther \/ ReadHandover
  <2>1. /\ rpc = "select" /\ socket # <<>> /\ socket' = Tail(socket)
        /\ Head(socket) # "ping" /\ UNCHANGED <<quiet, gaps>>
    BY <1>4 DEF ReadOther, ReadHandover
  <2>2. PingIn(socket') <=> PingIn(socket)
    BY <1>1, <2>1, PingsMoved
  <2>3. Regular => Regular'
    BY <1>2, <2>1, <2>2 DEF Regular
  <2>4. ~Blocked
    BY <2>1 DEF Blocked
  <2> QED BY <1>2, <2>1, <2>3, <2>4, NothingStamped
<1>5. CASE GetBudget \/ HandOver
  <2>1. /\ UNCHANGED <<socket, quiet, gaps>> /\ rpc # "parked"
    BY <1>5 DEF GetBudget, HandOver, cadence
  <2>2. Regular => Regular'
    BY <1>2, <2>1 DEF Regular
  <2>3. ~Blocked
    BY <1>5, ReaderAssumption DEF GetBudget, HandOver, Blocked
  <2> QED BY <1>2, <2>1, <2>2, <2>3, NothingStamped
<1>6. CASE CheckSilence
  <2>1. UNCHANGED <<socket, quiet, gaps, rpc, free, inbound>>
    BY <1>6 DEF CheckSilence, cadence
  <2> QED BY <1>2, <2>1, NothingStamped DEF Regular, Blocked
<1> QED BY <1>3, <1>4, <1>5, <1>6 DEF ReaderNext

\* so do the session loop's, which may be held up once;
LEMMA PunctualLoop == Books /\ Punctual /\ LoopNext => Punctual'
<1> SUFFICES ASSUME Books, Punctual, LoopNext PROVE Punctual'
  OBVIOUS
<1>1. UNCHANGED <<peerVars, readerVars>>
  BY DEF LoopNext, TakeText, TakePing, TakeEnd, WriteHeldUp, WriteDone,
         WriteStalls, WriteFails
<1>2. UNCHANGED <<period, since, alive, closing, path, age, socket, rpc, quiet,
                  gaps>>
  BY <1>1 DEF peerVars, readerVars, cadence
<1>3. /\ Regular' <=> Regular
      /\ OddIn(gaps)' = OddIn(gaps) /\ (OneOdd(gaps)' <=> OneOdd(gaps))
  BY <1>2 DEF Regular, OddIn, OneOdd
<1>4. ASSUME lpc = "idle", upsets' = upsets + 1 PROVE Punctual'
  <2>1. upsets' <= 1 => upsets = 0
    BY <1>4, PunctualTypes
  <2> QED BY <1>3, <1>4, <2>1 DEF Punctual
<1>5. ASSUME lpc' = "idle", upsets' = upsets PROVE Punctual'
  BY <1>3, <1>5 DEF Punctual
<1>6. CASE TakeText \/ TakePing
  <2>1. /\ lpc = "idle"
        /\ upsets' = upsets + 1 \/ (upsets' = upsets /\ lpc' = lpc)
    BY <1>6 DEF TakeText, TakePing
  <2> QED BY <1>4, <1>5, <2>1
<1>7. CASE TakeEnd
  BY <1>5, <1>7 DEF TakeEnd, counts
<1>8. CASE WriteHeldUp
  BY <1>4, <1>8 DEF WriteHeldUp
<1>9. CASE WriteDone
  BY <1>5, <1>9 DEF WriteDone, counts
<1>10. CASE WriteStalls \/ WriteFails
  <2>1. UNCHANGED <<lpc, upsets, free, inbound>>
    BY <1>10 DEF WriteStalls, WriteFails, counts
  <2>2. Blocked' <=> Blocked
    BY <1>2, <2>1 DEF Blocked
  <2> QED BY <1>2, <1>3, <2>1, <2>2, NothingStamped
<1> QED BY <1>6, <1>7, <1>8, <1>9, <1>10 DEF LoopNext

\* and time passes for a reader that reads or for one that is blocked.
LEMMA PunctualTick == Books /\ Punctual /\ Tick => Punctual'
<1> SUFFICES ASSUME Books, Punctual, Tick PROVE Punctual'
  OBVIOUS
<1>1. /\ Settled
      /\ UNCHANGED <<period, alive, closing, path, socket, rpc, gaps, upsets,
                     free, inbound, lpc>>
      /\ since' = IF Sending THEN since + 1 ELSE 0
      /\ age' = IF path # <<>> /\ rpc = "select" THEN age + 1 ELSE age
      /\ quiet' = Smaller(quiet + 1, MaxGap)
  BY DEF Tick
<1>2. /\ period \in Nat /\ since \in Nat /\ age \in Nat /\ quiet \in Nat
  BY PunctualTypes
<1>3. quiet' \in Nat /\ quiet' <= quiet + 1
  BY <1>1, <1>2, Limits DEF Smaller
<1>4. Blocked' <=> Blocked
  BY <1>1 DEF Blocked
<1>5. ASSUME Regular, rpc = "select", socket = <<>> PROVE Regular'
  <2>1. ~PingIn(<<>>)
    BY DEF PingIn
  <2>2. PingIn(path) => quiet' <= period + age'
    <3>1. PingIn(path) => quiet <= period + age /\ path # <<>>
      BY <1>5, <2>1 DEF Regular
    <3> QED BY <1>1, <1>2, <1>3, <1>5, <3>1
  <2>3. alive /\ ~closing /\ ~PingIn(path) => quiet' <= since'
    <3>1. alive /\ ~closing => Sending
      BY <1>1 DEF Sending
    <3>2. alive /\ ~closing /\ ~PingIn(path) => quiet <= since
      BY <1>5, <2>1 DEF Regular
    <3> QED BY <1>1, <1>2, <1>3, <3>1, <3>2
  <2> QED BY <1>1, <1>5, <2>1, <2>2, <2>3 DEF Regular
<1>6. rpc = "parked" => Regular'
  BY <1>1 DEF Regular
<1> QED BY <1>1, <1>4, <1>5, <1>6, SettledWaits, NothingStamped

\* One odd gap among three or more is not their median.
LEMMA OneOddForgotten ==
    ASSUME Books, OneOdd(gaps), Len(gaps) >= 3
    PROVE  SilenceLimit <= Larger(Floor, Pings * (period + Delay))
<1> DEFINE n == Len(gaps)
           b == period + Delay
           short == {i \in DOMAIN gaps : gaps[i] <= b}
<1>1. /\ n \in Nat /\ n >= 3 /\ DOMAIN gaps = 1..n /\ b \in Nat
      /\ gaps \in Seq(0..MaxGap) /\ gaps # <<>>
      /\ \A i \in 1..n : gaps[i] \in Nat
  <2>1. gaps \in Seq(0..MaxGap) /\ period \in Nat /\ Delay \in Nat
    BY PunctualTypes
  <2>2. \A i \in 1..n : gaps[i] \in 0..MaxGap
    BY <2>1, LenProperties, ElementOfSeq
  <2>3. gaps # <<>>
    BY EmptySeq
  <2> QED BY <2>1, <2>2, <2>3, LenProperties
<1> HIDE DEF n, b
<1>2. /\ OddIn(gaps) = (1..n) \ short /\ short \subseteq 1..n
      /\ \A i \in 1..n : i \in short <=> gaps[i] <= b
  BY <1>1 DEF OddIn, b
<1> HIDE DEF short
<1>3. Cardinality(short) >= n - 1 /\ Cardinality(short) \in Nat
  <2>1. IsFiniteSet(1..n) /\ Cardinality(1..n) = n
    BY <1>1, FS_Interval
  <2>2. CASE OddIn(gaps) = {}
    <3>1. short = 1..n
      BY <1>2, <2>2
    <3> QED BY <1>1, <2>1, <3>1
  <2>3. CASE OddIn(gaps) # {}
    <3>1. PICK k : k \in OddIn(gaps)
      BY <2>3
    <3>2. OddIn(gaps) = {k}
      BY <3>1 DEF OneOdd
    <3>3. short = (1..n) \ {k} /\ k \in 1..n
      BY <1>2, <3>2
    <3>4. Cardinality(short) = n - 1
      BY <2>1, <3>3, FS_RemoveElement
    <3> QED BY <1>1, <3>4
  <2> QED BY <2>2, <2>3
<1>4. n - 1 > n \div 2
  BY <1>1
<1>5. short # {}
  <2>1. Cardinality({}) = 0
    BY FS_EmptySet
  <2>2. n >= 3 /\ n \in Nat
    BY <1>1
  <2>3. Cardinality(short) # 0
    BY <1>3, <2>2
  <2> QED BY <2>1, <2>3
\* The longest gap that is not odd.
<1>6. PICK l \in short : \A i \in short : gaps[i] <= gaps[l]
  <2> DEFINE left == {b - gaps[i] : i \in short}
  <2>0. \A i \in short : gaps[i] \in Nat /\ gaps[i] <= b /\ b \in Nat
    BY <1>1, <1>2
  <2>1. left \in SUBSET Nat /\ left # {}
    <3>1. \A i \in short : b - gaps[i] \in Nat
      BY <2>0
    <3> QED BY <1>5, <3>1
  <2>2. PICK d \in left : \A e \in left : d <= e
    BY <2>1, NatLeast
  <2>3. PICK l \in short : d = b - gaps[l]
    BY <2>2
  <2>4. \A i \in short : b - gaps[l] <= b - gaps[i]
    BY <2>2, <2>3
  <2>5. \A i \in short : gaps[i] <= gaps[l]
    BY <2>0, <2>3, <2>4
  <2> QED BY <2>5
<1>7. gaps[l] \in KnownGaps /\ gaps[l] \in Nat /\ gaps[l] <= b
  <2>1. l \in 1..n
    BY <1>2
  <2>2. gaps[l] \in KnownGaps
    BY <1>1, <2>1 DEF KnownGaps
  <2> QED BY <1>1, <1>2, <2>1, <2>2
<1>8. AtMost(gaps[l]) > n \div 2
  <2> DEFINE most == {i \in DOMAIN gaps : gaps[i] <= gaps[l]}
  <2>1. \A i : i \in most <=> i \in short
    <3>1. \A i \in 1..n : gaps[i] <= gaps[l] => gaps[i] <= b
      <4>1. \A i \in 1..n : gaps[i] \in Nat
        BY <1>1
      <4>2. gaps[l] \in Nat /\ b \in Nat /\ gaps[l] <= b
        BY <1>1, <1>7
      <4> QED BY <4>1, <4>2
    <3>2. DOMAIN gaps = 1..n
      BY <1>1
    <3> QED BY <1>2, <1>6, <3>1, <3>2
  <2>2. AtMost(gaps[l]) = Cardinality(most)
    BY DEF AtMost
  <2> HIDE DEF most
  <2>3. most = short
    BY <2>1
  <2> QED BY <1>1, <1>3, <1>4, <2>2, <2>3
<1>9. Median <= gaps[l] /\ Median \in 0..MaxGap
  BY <1>1, <1>7, <1>8, MedianKnown DEF n
<1>10. Median \in Nat /\ Median <= b
  BY <1>1, <1>7, <1>9, Limits
<1> HIDE DEF Median
<1>11. /\ Pings * Median \in Nat /\ Pings * b \in Nat
       /\ Pings * Median <= Pings * b
  BY <1>1, <1>10, TimesGrows, Limits
<1>12. SilenceLimit <= Larger(Floor, Pings * b)
  BY <1>11, Limits DEF SilenceLimit, Larger
<1> QED BY <1>12 DEF b

\* One write that is held up, or one ping lost, makes one gap odd and not more,
\* however many pings wait for the reader meanwhile; with three gaps known the
\* limit is still that of the manager's interval (InboundCadence).
THEOREM StallForgotten == Spec => []OneStallForgotten
<1>1. Init => Punctual
  <2> SUFFICES ASSUME Init PROVE Punctual
    OBVIOUS
  <2>1. /\ gaps = <<>> /\ lpc = "idle" /\ path = <<>> /\ socket = <<>>
        /\ quiet = 0 /\ since \in Nat
    BY ReaderAssumption DEF Init
  <2>2. OddIn(gaps) = {} /\ ~PingIn(path) /\ ~PingIn(socket)
    BY <2>1 DEF OddIn, PingIn
  <2> QED BY <2>1, <2>2 DEF Punctual, Regular, OneOdd
<1>2. Books /\ Punctual /\ [Next]_vars => Punctual'
  <2>1. Punctual /\ (SessionOver \/ UNCHANGED vars) => Punctual'
    <3>1. SessionOver \/ UNCHANGED vars =>
            UNCHANGED <<period, since, alive, closing, path, age, socket, rpc,
                        quiet, gaps, inbound, free, lpc, upsets>>
      BY DEF SessionOver, vars, peerVars, readerVars, cadence, loopVars, counts
    <3> QED BY <3>1, NothingStamped DEF Regular, Blocked
  <2> QED BY <2>1, PunctualManager, PunctualReader, PunctualLoop, PunctualTick
          DEF Next
<1>3. Books /\ Punctual => OneStallForgotten
  BY OneOddForgotten DEF OneStallForgotten, Punctual
<1> QED BY <1>1, <1>2, <1>3, BooksKept, PTL DEF Spec
=============================================================================

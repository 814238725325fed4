------------------------ MODULE CommandAccountProofs ------------------------
(***************************************************************************)
(* Further proofs about CommandLink, on the invariants CommandLinkProofs   *)
(* establishes: what adds up.  An ended session costs one frame, every     *)
(* command is answered once or never, and the command budget is exact.     *)
(***************************************************************************)
EXTENDS CommandLinkProofs, FiniteSetTheorems

-----------------------------------------------------------------------------
(* Lost frames.                                                             *)

Forfeit == {f \in lost : f.kind # "busy"}

\* A session has a frame to lose until it has lost one: while a frame that
\* answers a command is being written, or another one may still be taken off
\* the channel, this session has lost none.
OneToLose ==
    /\ IsFiniteSet(lost)
    /\ Cardinality(Forfeit) <= session
    /\ hand \in CommandFrames /\ hand.kind # "busy" =>
         Cardinality(Forfeit) < session
    /\ run = "up" /\ ~peerClosed => Cardinality(Forfeit) < session

\* Losing the frame in hand costs at most one, and nothing when it is a
\* gateway_busy ack or answers no command.
LEMMA ForfeitHand ==
    ASSUME IInv, OneToLose, lost' = Dropped(hand), session' = session
    PROVE  /\ IsFiniteSet(lost')
           /\ Cardinality(Forfeit') <= session'
<1>1. IsFiniteSet(Forfeit) /\ Cardinality(Forfeit) \in Nat /\ session \in Nat
  BY BoundsAssumption, FS_Subset, FS_CardinalityType
     DEF OneToLose, Forfeit, IInv, TypeOK
<1>2. CASE hand \in CommandFrames
  <2>1. lost' = lost \cup {hand}
    BY <1>2 DEF Dropped
  <2>2. IsFiniteSet(lost')
    BY <2>1, FS_AddElement DEF OneToLose
  <2>3. CASE hand.kind = "busy"
    <3>1. Forfeit' = Forfeit
      BY <2>1, <2>3 DEF Forfeit
    <3> QED BY <2>2, <3>1 DEF OneToLose
  <2>4. CASE hand.kind # "busy"
    <3>1. Forfeit' = Forfeit \cup {hand}
      BY <2>1, <2>4 DEF Forfeit
    <3>2. Cardinality(Forfeit') <= Cardinality(Forfeit) + 1
      BY <1>1, <3>1, FS_AddElement
    <3>3. Cardinality(Forfeit) < session
      BY <1>2, <2>4 DEF OneToLose
    <3>4. IsFiniteSet(Forfeit') /\ Cardinality(Forfeit') \in Nat
      BY <1>1, <3>1, FS_AddElement, FS_CardinalityType
    <3> QED BY <1>1, <2>2, <3>2, <3>3, <3>4
  <2> QED BY <2>3, <2>4
<1>3. CASE hand \notin CommandFrames
  <2>1. lost' = lost
    BY <1>3 DEF Dropped
  <2> QED BY <2>1 DEF OneToLose, Forfeit
<1> QED BY <1>2, <1>3

\* Every step keeps it.
LEMMA OneToLoseNext == IInv /\ OneToLose /\ [Next]_vars => OneToLose'
<1> SUFFICES ASSUME IInv, OneToLose, [Next]_vars PROVE OneToLose'
  OBVIOUS
<1>a. /\ session \in Nat /\ IsFiniteSet(Forfeit)
      /\ Cardinality(Forfeit) \in Nat
      /\ NoFrame \notin CommandFrames /\ OtherFrame \notin CommandFrames
  <2>1. session \in Nat /\ IsFiniteSet(Forfeit)
    BY BoundsAssumption, FS_Subset DEF OneToLose, Forfeit, IInv, TypeOK
  <2>2. NoFrame \notin CommandFrames /\ OtherFrame \notin CommandFrames
    BY DEF CommandFrames, NoFrame, OtherFrame
  <2> QED BY <2>1, <2>2, FS_CardinalityType
<1>b. lost' = lost => Forfeit' = Forfeit
  BY DEF Forfeit
\* A step that only passes a frame on, or lets go of one.
<1>1. CASE /\ UNCHANGED <<session, lost>>
           /\ hand' = hand \/ hand' \notin CommandFrames
           /\ run' = "up" /\ ~peerClosed' => run = "up" /\ ~peerClosed
  BY <1>1, <1>b DEF OneToLose
<1>2. CASE Connect
  <2>1. /\ session' = session + 1 /\ hand' = NoFrame /\ lost' = lost
    BY <1>2 DEF Connect, chanVars
  <2> QED BY <1>a, <1>b, <2>1 DEF OneToLose
<1>3. CASE RouteCommand
  <2>1. /\ UNCHANGED <<run, session, peerClosed, lost>>
        /\ hand' = hand \/ hand'.kind = "busy"
    BY <1>3 DEF RouteCommand, chanVars
  <2> QED BY <1>b, <2>1 DEF OneToLose
<1>4. CASE TakeOutbound
  <2>1. /\ UNCHANGED <<run, session, peerClosed, lost>>
        /\ run = "up" /\ ~peerClosed
    BY <1>4 DEF TakeOutbound, NothingInbound
  <2> QED BY <1>b, <2>1 DEF OneToLose
<1>5. CASE WriteDone
  <2>1. /\ hand' = NoFrame /\ UNCHANGED <<run, session, peerClosed>>
        /\ \/ lost' = lost
           \/ peerClosed /\ lost' = Dropped(hand)
    BY <1>5 DEF WriteDone
  <2>2. CASE lost' = lost
    BY <1>a, <1>b, <2>1, <2>2 DEF OneToLose
  <2>3. CASE peerClosed /\ lost' = Dropped(hand)
    BY <1>a, <2>1, <2>3, ForfeitHand DEF OneToLose
  <2> QED BY <2>1, <2>2, <2>3
<1>6. CASE EndLost \/ WriteClose
  <2>1. /\ hand' = NoFrame /\ session' = session /\ run' # "up"
        /\ lost' = lost \/ lost' = Dropped(hand)
    BY <1>6 DEF EndLost, WriteClose
  <2>2. CASE lost' = lost
    BY <1>a, <1>b, <2>1, <2>2 DEF OneToLose
  <2>3. CASE lost' = Dropped(hand)
    BY <1>a, <2>1, <2>3, ForfeitHand DEF OneToLose
  <2> QED BY <2>1, <2>2, <2>3
<1>7. CASE RoutePing \/ Heartbeat \/ ManagerClose \/ EndInbound
           \/ EndShutdown \/ CancelSession \/ BreakLoop \/ StartDrain
           \/ DrainDone \/ DrainTimeout \/ RequestShutdown \/ VendorEmit
  BY <1>1, <1>7, <1>a
     DEF RoutePing, Heartbeat, ManagerClose, EndInbound, EndShutdown,
         CancelSession, BreakLoop, StartDrain, DrainDone, DrainTimeout,
         RequestShutdown, VendorEmit, loopVars, chanVars
<1>8. ASSUME NEW w \in Sessions, WorkerNext(w) PROVE OneToLose'
  BY <1>1, <1>8
     DEF loopVars, chanVars, WorkerNext,
         WorkerSpawn, WorkerAsk, WorkerGranted, WorkerGiveUp, WorkerPoll,
         WorkerTake, WorkerJoined, WorkerSessionOver, WorkerSeeOut,
         WorkerPanicAck
<1>9. ASSUME NEW w \in Sessions, TaskNext(w) PROVE OneToLose'
  BY <1>1, <1>9 DEF loopVars, chanVars, TaskNext, TaskStart, HandlerEnds,
                    TaskAck, TaskConfig, TaskCancelled
<1>10. CASE UNCHANGED vars
  BY <1>1, <1>10 DEF vars, loopVars, chanVars
<1> QED BY <1>2, <1>3, <1>4, <1>5, <1>6, <1>7, <1>8, <1>9, <1>10
       DEF Next, LoopNext, Terminated

\* The end of a session costs at most the one frame the loop was writing: what
\* is still in the channel waits for the next session (send_bounded,
\* drive_session's biased select!).
THEOREM AtMostOneFrameLost == Spec => []OneFrameLostPerSession
<1>1. Init => OneToLose
  <2> SUFFICES ASSUME Init PROVE OneToLose
    OBVIOUS
  <2>1. lost = {} /\ Forfeit = {} /\ session = 0 /\ run = "down"
        /\ hand = NoFrame
    BY DEF Init, Forfeit
  <2>2. NoFrame \notin CommandFrames
    BY DEF CommandFrames, NoFrame
  <2> QED BY <2>1, <2>2, FS_EmptySet DEF OneToLose
<1>2. OneToLose => OneFrameLostPerSession
  BY DEF OneToLose, OneFrameLostPerSession, Forfeit
<1> QED BY InitInv, NextInv, OneToLoseNext, <1>1, <1>2, PTL DEF Spec

-----------------------------------------------------------------------------
(* Counting the copies of a frame.                                          *)

Places(s, f) == {i \in DOMAIN s : s[i] = f}
One(x, f) == IF x = f THEN 1 ELSE 0

\* A sequence holds a number of copies of a frame.
LEMMA OccurrencesType ==
    ASSUME NEW S, NEW s \in Seq(S), NEW f
    PROVE  /\ IsFiniteSet(Places(s, f)) /\ Places(s, f) \in SUBSET Nat
           /\ Occurrences(s, f) = Cardinality(Places(s, f))
           /\ Occurrences(s, f) \in Nat
<1>1. DOMAIN s = 1..Len(s) /\ Len(s) \in Nat
  BY LenProperties
<1>2. IsFiniteSet(1..Len(s)) /\ Places(s, f) \in SUBSET (1..Len(s))
  BY <1>1, FS_Interval DEF Places
<1>3. IsFiniteSet(Places(s, f)) /\ Places(s, f) \in SUBSET Nat
  BY <1>1, <1>2, FS_Subset
<1> QED BY <1>3, FS_CardinalityType DEF Occurrences, Places

\* The empty one holds none.
LEMMA NoOccurrences == \A f : Occurrences(<<>>, f) = 0
<1>1. \A f : {i \in DOMAIN <<>> : <<>>[i] = f} = {}
  OBVIOUS
<1> QED BY <1>1, FS_EmptySet DEF Occurrences

\* Moving places along does not change how many there are.
LEMMA MovedAlong ==
    ASSUME NEW X \in SUBSET Nat, IsFiniteSet(X)
    PROVE  /\ IsFiniteSet({i + 1 : i \in X})
           /\ Cardinality({i + 1 : i \in X}) = Cardinality(X)
<1> DEFINE Y == {i + 1 : i \in X}
           f == [i \in X |-> i + 1]
<1>1. f \in [X -> Y] /\ \A y \in Y : \E i \in X : f[i] = y
  OBVIOUS
<1>2. \A i, j \in X : f[i] = f[j] => i = j
  OBVIOUS
<1>3. f \in Bijection(X, Y)
  BY <1>1, <1>2 DEF Bijection, Injection, Surjection, IsInjective
<1>4. ExistsBijection(X, Y)
  BY <1>3 DEF ExistsBijection
<1> QED BY <1>4, FS_Bijection

\* A frame put at the end counts for itself.
LEMMA AppendOccurrences ==
    ASSUME NEW S, NEW s \in Seq(S), NEW x \in S, NEW f
    PROVE  Occurrences(Append(s, x), f) = Occurrences(s, f) + One(x, f)
<1> DEFINE t == Append(s, x)
           n == Len(s)
<1>1. /\ t \in Seq(S) /\ n \in Nat /\ DOMAIN s = 1..n
      /\ DOMAIN t = 1..(n + 1) /\ t[n + 1] = x
      /\ \A i \in 1..n : t[i] = s[i]
  BY AppendProperties, LenProperties
<1> HIDE DEF t, n
<1>2. Places(t, f) = IF x = f THEN Places(s, f) \cup {n + 1} ELSE Places(s, f)
  BY <1>1 DEF Places
<1>3. n + 1 \notin Places(s, f)
  BY <1>1 DEF Places
<1>4. Cardinality(Places(t, f)) = Cardinality(Places(s, f)) + One(x, f)
  <2>1. CASE x = f
    <3>1. IsFiniteSet(Places(s, f))
      BY <1>1, OccurrencesType
    <3>2. Cardinality(Places(s, f) \cup {n + 1}) = Cardinality(Places(s, f)) + 1
      BY <1>3, <3>1, FS_AddElement
    <3> QED BY <1>2, <2>1, <3>2 DEF One
  <2>2. CASE x # f
    BY <1>2, <2>2, OccurrencesType DEF One
  <2> QED BY <2>1, <2>2
<1> QED BY <1>1, <1>4, OccurrencesType DEF t

\* So does one taken off the front.
LEMMA TailOccurrences ==
    ASSUME NEW S, NEW s \in Seq(S), s # <<>>, NEW f
    PROVE  Occurrences(s, f) = Occurrences(Tail(s), f) + One(Head(s), f)
<1> DEFINE t == Tail(s)
           n == Len(s)
           later == {i + 1 : i \in Places(t, f)}
<1>1. /\ t \in Seq(S) /\ n \in Nat \ {0} /\ DOMAIN s = 1..n
      /\ DOMAIN t = 1..(n - 1) /\ Head(s) = s[1]
      /\ \A i \in 1..(n - 1) : t[i] = s[i + 1]
  BY HeadTailProperties, LenProperties, EmptySeq, SeqEqual
<1> HIDE DEF t, n
<1>2. Places(t, f) \in SUBSET Nat /\ IsFiniteSet(Places(t, f))
  BY <1>1, OccurrencesType
<1>3. IsFiniteSet(later) /\ Cardinality(later) = Cardinality(Places(t, f))
  BY <1>2, MovedAlong
<1>4. Places(s, f) = IF Head(s) = f THEN later \cup {1} ELSE later
  <2>1. \A i \in Places(s, f) : i = 1 \/ i - 1 \in Places(t, f)
    BY <1>1 DEF Places
  <2>2. \A i \in Places(t, f) : i + 1 \in Places(s, f)
    BY <1>1 DEF Places
  <2>3. 1 \in Places(s, f) <=> Head(s) = f
    BY <1>1 DEF Places
  <2>4. Places(s, f) \in SUBSET Nat /\ \A i \in Nat : (i - 1) + 1 = i
    BY <1>1 DEF Places
  <2>5. \A i \in Places(s, f) : i = 1 \/ i \in later
    BY <2>1, <2>4
  <2> QED BY <2>2, <2>3, <2>5
<1>5. 1 \notin later
  BY <1>1, <1>2 DEF Places
<1>6. Cardinality(Places(s, f)) = Cardinality(Places(t, f)) + One(Head(s), f)
  <2>1. CASE Head(s) = f
    BY <1>3, <1>4, <1>5, <2>1, FS_AddElement DEF One
  <2>2. CASE Head(s) # f
    BY <1>1, <1>3, <1>4, <2>2, OccurrencesType DEF One
  <2> QED BY <2>1, <2>2
<1> QED BY <1>1, <1>6, OccurrencesType DEF t

\* The four places a frame can be in, by number of copies.
LEMMA CopiesType ==
    ASSUME IInv, NEW f \in CommandFrames
    PROVE  /\ Occurrences(outbound, f) \in Nat /\ Occurrences(wire, f) \in Nat
           /\ Copies(f) \in Nat
           /\ Copies(f) = Occurrences(outbound, f) + Occurrences(wire, f)
                            + One(hand, f) + (IF f \in lost THEN 1 ELSE 0)
<1>1. outbound \in Seq(QueuedFrames) /\ wire \in Seq(CommandFrames)
  BY DEF IInv, TypeOK
<1>2. Occurrences(outbound, f) \in Nat /\ Occurrences(wire, f) \in Nat
  BY <1>1, OccurrencesType
<1> QED BY <1>2 DEF Copies, One

\* Writing the frame in hand, or losing it, neither makes nor destroys a copy
\* of a frame there is only one of.
LEMMA LetGo ==
    ASSUME IInv, NEW f \in CommandFrames, Copies(f) <= 1,
           outbound' = outbound, hand' = NoFrame,
           \/ wire' = Written(hand) /\ lost' = lost
           \/ lost' = Dropped(hand) /\ wire' = wire
    PROVE  Copies(f)' = Copies(f)
<1>1. NoFrame # f /\ wire \in Seq(CommandFrames)
  BY DEF NoFrame, CommandFrames, IInv, TypeOK
<1>2. Occurrences(outbound, f)' = Occurrences(outbound, f)
  BY DEF Occurrences
<1>3. CASE wire' = Written(hand) /\ lost' = lost
  <2>1. Occurrences(wire, f)' = Occurrences(wire, f) + One(hand, f)
    <3>1. Occurrences(wire', f) = Occurrences(wire, f) + One(hand, f)
      <4>1. CASE hand \in CommandFrames
        BY <1>1, <1>3, <4>1, AppendOccurrences DEF Written
      <4>2. CASE hand \notin CommandFrames
        BY <1>3, <4>2, CopiesType DEF Written, One
      <4> QED BY <4>1, <4>2
    <3> QED BY <3>1 DEF Occurrences
  <2>2. Copies(f)' = Occurrences(outbound, f)' + Occurrences(wire, f)' + 0
                       + (IF f \in lost THEN 1 ELSE 0)
    BY <1>1, <1>3 DEF Copies
  <2> QED BY <1>2, <2>1, <2>2, CopiesType DEF One
<1>4. CASE lost' = Dropped(hand) /\ wire' = wire
  <2>1. Copies(f)' = Occurrences(outbound, f) + Occurrences(wire, f) + 0
                       + (IF f \in lost' THEN 1 ELSE 0)
    BY <1>1, <1>2, <1>4 DEF Copies, Occurrences
  <2>2. CASE hand = f
    <3>1. f \in lost' /\ One(hand, f) = 1
      BY <1>4, <2>2 DEF Dropped, One
    <3>2. f \notin lost
      BY <3>1, CopiesType
    <3> QED BY <2>1, <3>1, <3>2, CopiesType
  <2>3. CASE hand # f
    <3>1. (f \in lost' <=> f \in lost) /\ One(hand, f) = 0
      BY <1>4, <2>3 DEF Dropped, One
    <3> QED BY <2>1, <3>1, CopiesType
  <2> QED BY <2>2, <2>3
<1> QED BY <1>3, <1>4

\* Emitting puts one more copy of a frame there, unless the channel is closed.
LEMMA EmitCopies ==
    ASSUME IInv, NEW g \in QueuedFrames, Emit(g), UNCHANGED <<hand, wire, lost>>,
           NEW f \in CommandFrames
    PROVE  Copies(f)' = Copies(f) + (IF outClosed THEN 0 ELSE One(g, f))
<1>1. outbound \in Seq(QueuedFrames)
  BY DEF IInv, TypeOK
<1>2. Copies(f)' = Occurrences(outbound', f) + Occurrences(wire, f)
                     + One(hand, f) + (IF f \in lost THEN 1 ELSE 0)
  BY DEF Copies, One, Occurrences
<1>3. CASE outClosed
  BY <1>2, <1>3, CopiesType DEF Emit
<1>4. CASE ~outClosed
  <2>1. outbound' = Append(outbound, g)
    BY <1>4 DEF Emit
  <2>2. Occurrences(outbound', f) = Occurrences(outbound, f) + One(g, f)
    BY <1>1, <2>1, AppendOccurrences
  <2>3. One(g, f) \in Nat /\ One(hand, f) \in Nat
    BY DEF One
  <2> QED BY <1>2, <1>4, <2>2, <2>3, CopiesType
<1> QED BY <1>3, <1>4

\* Taking a frame off the channel moves it.
LEMMA TakeCopies ==
    ASSUME IInv, TakeOutbound, NEW f \in CommandFrames
    PROVE  Copies(f)' = Copies(f)
<1>1. /\ outbound \in Seq(QueuedFrames) /\ outbound # <<>>
      /\ outbound' = Tail(outbound) /\ hand' = Head(outbound)
      /\ UNCHANGED <<wire, lost>> /\ hand # f
  BY DEF TakeOutbound, IInv, TypeOK, NoFrame, CommandFrames
<1>2. Occurrences(outbound, f) = Occurrences(outbound', f) + One(hand', f)
  BY <1>1, TailOccurrences
<1>3. Occurrences(outbound', f) \in Nat /\ One(hand', f) \in Nat
  <2>1. outbound' \in Seq(QueuedFrames)
    BY <1>1, HeadTailProperties
  <2> QED BY <2>1, OccurrencesType DEF One
<1>4. Copies(f)' = Occurrences(outbound', f) + Occurrences(wire, f)
                     + One(hand', f) + (IF f \in lost THEN 1 ELSE 0)
  BY <1>1 DEF Copies, One, Occurrences
<1>5. One(hand, f) = 0
  BY <1>1 DEF One
<1> QED BY <1>2, <1>3, <1>4, <1>5, CopiesType

-----------------------------------------------------------------------------
(* Every command is accounted for.                                          *)

AckOf(c) == [kind |-> "ack", cmd |-> c]
PanicOf(c) == [kind |-> "panic", cmd |-> c]
BusyOf(c) == [kind |-> "busy", cmd |-> c]

\* Worker w still has to queue the ack of the command it took.
Owes(w) ==
    \/ tpc[w] \in {"spawned", "handler", "ack", "panicked"}
    \/ pc[w] \in {"panic", "panicout"}

\* The loop writes only while its session lasts, and a command is cut off only
\* by the end of run(), which comes after the channel is closed.
LoopShape ==
    /\ run \in {"drain", "exited"} => outClosed
    /\ hand # NoFrame => run \in {"up", "stopping", "closing"}

\* What is in a queue waits, what a worker owes an ack for has started, and
\* what has not come yet has no fate.
FatesTrue ==
    /\ \A c \in Cmds : c > sent => fate[c] = "unsent"
    /\ \A w \in Sessions : \A i \in DOMAIN queue[w] :
         fate[queue[w][i]] = "queued"
    /\ \A w \in Sessions :
         tpc[w] # "none" \/ Owes(w) => fate[tcmd[w]] = "started"

\* Every step keeps the loop's shape.
LEMMA LoopShapeNext == LoopShape /\ [Next]_vars => LoopShape'
<1> SUFFICES ASSUME LoopShape, [Next]_vars PROVE LoopShape'
  OBVIOUS
<1>1. CASE LoopNext \/ RequestShutdown \/ VendorEmit
  BY <1>1
     DEF LoopShape, LoopNext, loopVars, chanVars,
         Connect, RouteCommand, RoutePing, TakeOutbound, Heartbeat,
         WriteDone, ManagerClose, EndInbound, EndLost, EndShutdown,
         CancelSession, WriteClose, BreakLoop, StartDrain, DrainDone,
         DrainTimeout, RequestShutdown, VendorEmit
<1>2. ASSUME NEW w \in Sessions, WorkerNext(w) PROVE LoopShape'
  BY <1>2
     DEF LoopShape, loopVars, chanVars, WorkerNext,
         WorkerSpawn, WorkerAsk, WorkerGranted, WorkerGiveUp, WorkerPoll,
         WorkerTake, WorkerJoined, WorkerSessionOver, WorkerSeeOut,
         WorkerPanicAck
<1>3. ASSUME NEW w \in Sessions, TaskNext(w) PROVE LoopShape'
  BY <1>3 DEF LoopShape, loopVars, chanVars, TaskNext, TaskStart, HandlerEnds,
              TaskAck, TaskConfig, TaskCancelled
<1>4. CASE UNCHANGED vars
  BY <1>4 DEF LoopShape, vars, loopVars, chanVars
<1> QED BY <1>1, <1>2, <1>3, <1>4 DEF Next, Terminated

\* No command is in two places of the queues.
LEMMA QueuedOnce ==
    ASSUME IInv, Ordered, NEW v \in Sessions, NEW w \in Sessions,
           NEW i \in DOMAIN queue[v], NEW j \in DOMAIN queue[w],
           queue[v][i] = queue[w][j]
    PROVE  v = w /\ i = j
<1>1. /\ v \in Nat /\ w \in Nat /\ i \in Nat /\ j \in Nat
      /\ queue[v][i] \in Nat
  BY QueueElements
<1>2. v = w
  BY <1>1 DEF Ordered
<1>3. i = j
  BY <1>1, <1>2 DEF Ordered
<1> QED BY <1>2, <1>3

\* A dropped queue takes the fates of its own commands with it and no others.
LEMMA DropQueueFates ==
    ASSUME IInv, Ordered, FatesTrue, NEW w \in Sessions, DropQueue(w)
    PROVE  /\ \A c \in Cmds : \/ fate'[c] = fate[c]
                              \/ fate[c] = "queued" /\ fate'[c] = "dropped"
           /\ \A v \in Sessions : \A i \in DOMAIN queue'[v] :
                /\ i \in DOMAIN queue[v] /\ queue'[v][i] = queue[v][i]
                /\ fate'[queue'[v][i]] = "queued"
<1>1. queue \in [Sessions -> Seq(Cmds)] /\ DOMAIN <<>> = {}
  BY DEF IInv, TypeOK
<1>2. \A v \in Sessions : \A i \in DOMAIN queue'[v] :
        v # w /\ i \in DOMAIN queue[v] /\ queue'[v][i] = queue[v][i]
  BY <1>1 DEF DropQueue
<1>3. \A c \in Cmds : \/ fate'[c] = fate[c]
                      \/ fate[c] = "queued" /\ fate'[c] = "dropped"
  BY DEF DropQueue, FatesTrue
<1>4. ASSUME NEW v \in Sessions, NEW i \in DOMAIN queue'[v]
      PROVE  fate'[queue'[v][i]] = "queued"
  <2>1. v # w /\ i \in DOMAIN queue[v] /\ queue'[v][i] = queue[v][i]
    BY <1>2, <1>4
  <2>2. queue[v][i] \in Cmds /\ fate[queue[v][i]] = "queued"
    BY <2>1, QueueElements DEF FatesTrue
  <2>3. ~ \E j \in DOMAIN queue[w] : queue[w][j] = queue[v][i]
    BY <2>1, QueuedOnce
  <2> QED BY <2>1, <2>2, <2>3 DEF DropQueue
<1> QED BY <1>2, <1>3, <1>4

\* Every step keeps the fates true.
LEMMA FatesNext ==
    IInv /\ Ordered /\ FatesTrue /\ [Next]_vars => FatesTrue'
<1> SUFFICES ASSUME IInv, Ordered, FatesTrue, [Next]_vars PROVE FatesTrue'
  OBVIOUS
<1>a. /\ pc \in [Sessions -> WorkerPCs] /\ tpc \in [Sessions -> TaskPCs]
      /\ tcmd \in [Sessions -> 0..MaxCmds] /\ fate \in [Cmds -> Fates]
      /\ queue \in [Sessions -> Seq(Cmds)] /\ sent \in Nat
      /\ Cmds \subseteq Nat /\ session \in Nat /\ Sessions \subseteq Nat
  <2>1. Cmds \subseteq Nat /\ Sessions \subseteq Nat
    BY BoundsAssumption DEF Cmds, Sessions
  <2>2. sent \in Nat /\ session \in Nat
    BY BoundsAssumption DEF IInv, TypeOK
  <2> QED BY <2>1, <2>2 DEF IInv, TypeOK
<1>b. \A w \in Sessions : tpc[w] # "none" \/ Owes(w) =>
        tcmd[w] \in Cmds /\ pc[w] \in {"run", "seeout", "panic", "panicout"}
  BY DEF IInv, TaskInWorker, Busy, Owes
<1>1. CASE RouteCommand
  <2>1. /\ sent + 1 \in Cmds /\ sent' = sent + 1
        /\ UNCHANGED <<pc, tpc, tcmd>>
        /\ \A c \in Cmds : c # sent + 1 => fate'[c] = fate[c]
        /\ \/ UNCHANGED queue
           \/ /\ fate'[sent + 1] = "queued"
              /\ queue' = [queue EXCEPT ![session] = Append(@, sent + 1)]
    <3>1. sent < MaxCmds /\ MaxCmds \in Nat
      BY <1>1, BoundsAssumption DEF RouteCommand
    <3>2. sent + 1 \in Cmds
      BY <1>a, <3>1 DEF Cmds
    <3> QED BY <1>1, <1>a, <3>2 DEF RouteCommand, workerVars
  <2>2. \A c \in Cmds : c > sent' => fate'[c] = "unsent"
    BY <1>a, <2>1 DEF FatesTrue
  <2>3. fate[sent + 1] = "unsent"
    BY <1>a, <2>1 DEF FatesTrue
  <2>4. ASSUME NEW w \in Sessions, NEW i \in DOMAIN queue'[w]
        PROVE  fate'[queue'[w][i]] = "queued"
    <3>1. CASE i \in DOMAIN queue[w] /\ queue'[w][i] = queue[w][i]
      <4>1. queue[w][i] \in Cmds /\ fate[queue[w][i]] = "queued"
        BY <3>1, QueueElements DEF FatesTrue
      <4>2. queue[w][i] # sent + 1
        BY <2>3, <4>1
      <4> QED BY <2>1, <3>1, <4>1, <4>2
    <3>2. CASE queue'[w] # queue[w]
      <4>1. w = session /\ queue'[w] = Append(queue[w], sent + 1)
            /\ fate'[sent + 1] = "queued"
        BY <1>a, <2>1, <3>2
      <4>2. queue[w] \in Seq(Cmds) /\ Len(queue[w]) \in Nat
            /\ DOMAIN queue[w] = 1..Len(queue[w])
        BY QueueElements
      <4>3. /\ DOMAIN queue'[w] = 1..(Len(queue[w]) + 1)
            /\ \A k \in 1..Len(queue[w]) : queue'[w][k] = queue[w][k]
            /\ queue'[w][Len(queue[w]) + 1] = sent + 1
        BY <2>1, <4>1, <4>2, AppendProperties, LenProperties
      <4>4. CASE i = Len(queue[w]) + 1
        BY <4>1, <4>3, <4>4
      <4>5. CASE i # Len(queue[w]) + 1
        <5>1. i \in DOMAIN queue[w] /\ queue'[w][i] = queue[w][i]
          BY <2>4, <4>2, <4>3, <4>5
        <5> QED BY <3>1, <5>1
      <4> QED BY <4>4, <4>5
    <3> QED BY <2>4, <3>1, <3>2
  <2>5. \A w \in Sessions : tpc'[w] # "none" \/ Owes(w)' =>
          fate'[tcmd'[w]] = "started"
    BY <1>b, <2>1, <2>3 DEF FatesTrue, Owes
  <2> QED BY <2>2, <2>4, <2>5 DEF FatesTrue
<1>2. CASE Connect
  <2>1. /\ UNCHANGED <<sent, fate, queue, tpc, tcmd>>
        /\ \A w \in Sessions : pc'[w] = pc[w] \/ pc'[w] = "spawned"
    BY <1>2, <1>a DEF Connect, cmdVars
  <2> QED BY <2>1 DEF FatesTrue, Owes
<1>3. CASE UNCHANGED <<sent, fate, queue, tpc, tcmd, pc>>
  BY <1>3 DEF FatesTrue, Owes
<1>4. CASE (LoopNext \/ RequestShutdown \/ VendorEmit)
           /\ ~RouteCommand /\ ~Connect
  BY <1>3, <1>4
     DEF LoopNext, loopVars, cmdVars, workerVars, RoutePing, TakeOutbound,
         Heartbeat, WriteDone, ManagerClose, EndInbound, EndLost, EndShutdown,
         CancelSession, WriteClose, BreakLoop, StartDrain, DrainDone,
         DrainTimeout, RequestShutdown, VendorEmit
<1>5. ASSUME NEW w \in Sessions, WorkerNext(w) PROVE FatesTrue'
  <2>1. CASE WorkerTake(w) /\ queue[w] # <<>>
    <3> DEFINE c == Head(queue[w])
    <3>1. /\ pc' = [pc EXCEPT ![w] = "run"]
          /\ tpc' = [tpc EXCEPT ![w] = "spawned"]
          /\ tcmd' = [tcmd EXCEPT ![w] = c]
          /\ fate' = [fate EXCEPT ![c] = "started"]
          /\ queue' = [queue EXCEPT ![w] = Tail(queue[w])]
          /\ sent' = sent
      BY <2>1 DEF WorkerTake, WorkerReturn
    <3>2. /\ queue[w] \in Seq(Cmds) /\ Len(queue[w]) \in Nat
          /\ DOMAIN queue[w] = 1..Len(queue[w])
      BY QueueElements
    <3>3. /\ Tail(queue[w]) \in Seq(Cmds) /\ c \in Cmds
          /\ Len(Tail(queue[w])) = Len(queue[w]) - 1
          /\ c = queue[w][1] /\ 1 \in DOMAIN queue[w]
          /\ \A i \in 1..(Len(queue[w]) - 1) :
               Tail(queue[w])[i] = queue[w][i + 1]
      BY <2>1, <3>2, HeadTailProperties, EmptySeq
    <3>4. /\ DOMAIN queue'[w] = 1..(Len(queue[w]) - 1)
          /\ queue'[w] = Tail(queue[w])
      BY <1>a, <3>1, <3>3, LenProperties
    <3> HIDE DEF c
    <3>5. ASSUME NEW v \in Sessions, NEW i \in DOMAIN queue'[v]
          PROVE  \E k \in DOMAIN queue[v] :
                   /\ queue'[v][i] = queue[v][k]
                   /\ v = w => k # 1
      <4>1. CASE v = w
        <5>1. i + 1 \in DOMAIN queue[w] /\ i + 1 # 1
              /\ queue'[w][i] = queue[w][i + 1]
          <6>1. i \in 1..(Len(queue[w]) - 1)
            BY <3>4, <3>5, <4>1
          <6> QED BY <3>2, <3>3, <3>4, <6>1
        <5> QED BY <4>1, <5>1
      <4>2. CASE v # w
        BY <1>a, <3>1, <3>5, <4>2
      <4> QED BY <4>1, <4>2
    <3>6. \A v \in Sessions : \A i \in DOMAIN queue'[v] :
            fate'[queue'[v][i]] = "queued"
      <4>1. ASSUME NEW v \in Sessions, NEW i \in DOMAIN queue'[v]
            PROVE  fate'[queue'[v][i]] = "queued"
        <5>1. PICK k \in DOMAIN queue[v] :
                queue'[v][i] = queue[v][k] /\ (v = w => k # 1)
          BY <3>5, <4>1
        <5>2. queue[v][k] # c
          BY <3>3, <5>1, QueuedOnce
        <5> QED BY <1>a, <3>1, <5>1, <5>2, QueueElements DEF FatesTrue
      <4> QED BY <4>1
    <3>7. fate[c] = "queued" /\ c \in Nat /\ c <= sent
      BY <1>a, <3>3 DEF FatesTrue, Ordered
    <3>8. \A d \in Cmds : d > sent' => fate'[d] = "unsent"
      BY <1>a, <3>1, <3>3, <3>7 DEF FatesTrue
    <3>9. \A v \in Sessions : tpc'[v] # "none" \/ Owes(v)' =>
            fate'[tcmd'[v]] = "started"
      <4>1. \A v \in Sessions : v # w =>
              UNCHANGED <<tpc[v], pc[v], tcmd[v]>>
        BY <1>a, <3>1
      <4>2. fate'[c] = "started" /\ tcmd'[w] = c
        BY <1>a, <3>1, <3>3
      <4>3. \A d \in Cmds : fate[d] = "started" => fate'[d] = "started"
        BY <1>a, <3>1, <3>3
      <4> QED BY <1>b, <4>1, <4>2, <4>3 DEF FatesTrue, Owes
    <3> QED BY <3>6, <3>8, <3>9 DEF FatesTrue
  <2>2. CASE ~(WorkerTake(w) /\ queue[w] # <<>>)
    <3>1. /\ sent' = sent /\ tcmd' = tcmd
          /\ UNCHANGED <<queue, fate>> \/ DropQueue(w)
      BY <1>5, <2>2
         DEF WorkerNext, cmdVars, WorkerReturn,
             WorkerSpawn, WorkerAsk, WorkerGranted, WorkerGiveUp, WorkerPoll,
             WorkerTake, WorkerJoined, WorkerSessionOver, WorkerSeeOut,
             WorkerPanicAck
    <3>2. \A v \in Sessions :
            tpc'[v] # "none" \/ Owes(v)' => tpc[v] # "none" \/ Owes(v)
      BY <1>5, <1>a, <2>2
         DEF WorkerNext, WorkerReturn, Owes,
             WorkerSpawn, WorkerAsk, WorkerGranted, WorkerGiveUp, WorkerPoll,
             WorkerTake, WorkerJoined, WorkerSessionOver, WorkerSeeOut,
             WorkerPanicAck
    <3>3. /\ \A c \in Cmds : \/ fate'[c] = fate[c]
                             \/ fate[c] = "queued" /\ fate'[c] = "dropped"
          /\ \A v \in Sessions : \A i \in DOMAIN queue'[v] :
               fate'[queue'[v][i]] = "queued"
      <4>1. CASE DropQueue(w)
        BY <4>1, DropQueueFates
      <4>2. CASE UNCHANGED <<queue, fate>>
        BY <4>2 DEF FatesTrue
      <4> QED BY <3>1, <4>1, <4>2
    <3>4. \A c \in Cmds : c > sent' => fate'[c] = "unsent"
      BY <3>1, <3>3 DEF FatesTrue
    <3>5. \A v \in Sessions : tpc'[v] # "none" \/ Owes(v)' =>
            fate'[tcmd'[v]] = "started"
      <4>1. ASSUME NEW v \in Sessions, tpc'[v] # "none" \/ Owes(v)'
            PROVE  fate'[tcmd'[v]] = "started"
        <5>1. fate[tcmd[v]] = "started" /\ tcmd[v] \in Cmds
          BY <1>b, <3>2, <4>1 DEF FatesTrue
        <5> QED BY <3>1, <3>3, <5>1
      <4> QED BY <4>1
    <3> QED BY <3>3, <3>4, <3>5 DEF FatesTrue
  <2> QED BY <2>1, <2>2
<1>6. ASSUME NEW w \in Sessions, TaskNext(w) PROVE FatesTrue'
  <2>1. UNCHANGED <<sent, fate, queue, tcmd, pc>>
    BY <1>6 DEF TaskNext, cmdVars, TaskStart, HandlerEnds, TaskAck,
                TaskConfig, TaskCancelled
  <2>2. \A v \in Sessions : tpc'[v] # "none" => tpc[v] # "none"
    BY <1>6, <1>a DEF TaskNext, TaskStart, HandlerEnds, TaskAck,
                      TaskConfig, TaskCancelled
  <2> QED BY <2>1, <2>2 DEF FatesTrue, Owes
<1>7. CASE UNCHANGED vars
  BY <1>3, <1>7 DEF vars, cmdVars, workerVars
<1> QED BY <1>1, <1>2, <1>4, <1>5, <1>6, <1>7 DEF Next, Terminated

\* The frames that may answer a command are counted in numbers.
LEMMA AnswersType ==
    ASSUME IInv, NEW c \in Cmds
    PROVE  /\ AckOf(c) \in CommandFrames /\ PanicOf(c) \in CommandFrames
           /\ BusyOf(c) \in CommandFrames
           /\ Copies(AckOf(c)) \in Nat /\ Copies(PanicOf(c)) \in Nat
           /\ Answers(c) = Copies(AckOf(c)) + Copies(PanicOf(c))
           /\ Answers(c) \in Nat
           /\ Refusals(c) = Copies(BusyOf(c)) /\ Refusals(c) \in Nat
<1>1. /\ AckOf(c) \in CommandFrames /\ PanicOf(c) \in CommandFrames
      /\ BusyOf(c) \in CommandFrames
  BY DEF CommandFrames, AckOf, PanicOf, BusyOf
<1>2. /\ Copies(AckOf(c)) \in Nat /\ Copies(PanicOf(c)) \in Nat
      /\ Copies(BusyOf(c)) \in Nat
  BY <1>1, CopiesType
<1>3. /\ Answers(c) = Copies(AckOf(c)) + Copies(PanicOf(c))
      /\ Refusals(c) = Copies(BusyOf(c))
  BY DEF Answers, Refusals, AckOf, PanicOf, BusyOf
<1> QED BY <1>1, <1>2, <1>3

\* AnswerAccounting for one command.
Accounted(c) ==
    /\ fate[c] = "refused" => Refusals(c) = 1 /\ Answers(c) = 0
    /\ fate[c] = "started" =>
         /\ Refusals(c) = 0
         /\ Answers(c) <= 1
         /\ AckPending(c) => Answers(c) = 0
         /\ ~AckPending(c) /\ ~outClosed => Answers(c) = 1
    /\ fate[c] \notin {"refused", "started"} =>
         Refusals(c) = 0 /\ Answers(c) = 0

\* It is AnswerAccounting.
LEMMA AccountedIsAll == AnswerAccounting <=> \A c \in Cmds : Accounted(c)
BY DEF AnswerAccounting, Accounted

\* There is never more than one copy of a frame that answers a command.
LEMMA SingleCopies ==
    ASSUME IInv, AnswerAccounting, NEW c \in Cmds
    PROVE  /\ Copies(AckOf(c)) <= 1 /\ Copies(PanicOf(c)) <= 1
           /\ Copies(BusyOf(c)) <= 1
<1>1. Accounted(c)
  BY AccountedIsAll
<1>2. Refusals(c) <= 1 /\ Answers(c) <= 1
  BY <1>1 DEF Accounted
<1> QED BY <1>2, AnswersType

\* A step that neither makes nor destroys an answer, starts or refuses nothing,
\* and lets a worker off its ack only once the channel is closed.
LEMMA QuietStep ==
    ASSUME IInv, AnswerAccounting, NEW c \in Cmds,
           Copies(AckOf(c))' = Copies(AckOf(c)),
           Copies(PanicOf(c))' = Copies(PanicOf(c)),
           Copies(BusyOf(c))' = Copies(BusyOf(c)),
           \/ fate'[c] = fate[c]
           \/ fate[c] = "queued" /\ fate'[c] = "dropped",
           outClosed => outClosed',
           AckPending(c)' => AckPending(c),
           AckPending(c) => AckPending(c)' \/ outClosed'
    PROVE  Accounted(c)'
<1>1. Answers(c)' = Answers(c) /\ Refusals(c)' = Refusals(c)
  BY DEF Answers, Refusals, AckOf, PanicOf, BusyOf
<1>2. Accounted(c)
  BY AccountedIsAll
<1> QED BY <1>1, <1>2 DEF Accounted

\* A step that leaves every frame where it is, or replaces a hand that answers
\* no command by another such.
LEMMA FramesStill ==
    ASSUME UNCHANGED <<outbound, wire, lost>>,
           hand' = hand \/ (hand \notin CommandFrames
                              /\ hand' \notin CommandFrames),
           NEW f \in CommandFrames
    PROVE  Copies(f)' = Copies(f)
<1>1. (hand' = f) <=> (hand = f)
  OBVIOUS
<1> QED BY <1>1 DEF Copies, Occurrences

\* Who owes an ack is settled by the workers' and their tasks' places.
LEMMA SameDebts ==
    ASSUME \A v \in Sessions : (Owes(v)' <=> Owes(v)), tcmd' = tcmd, NEW c \in Cmds
    PROVE  AckPending(c)' <=> AckPending(c)
<1>1. AckPending(c) <=> \E v \in Sessions : tcmd[v] = c /\ Owes(v)
  BY DEF AckPending, Owes
<1>2. AckPending(c)' <=> \E v \in Sessions : tcmd'[v] = c /\ Owes(v)'
  BY DEF AckPending, Owes
<1> QED BY <1>1, <1>2

\* One worker at most owes an ack.
LEMMA OneDebtor ==
    ASSUME IInv, NEW v \in Sessions, NEW w \in Sessions, Owes(v), Owes(w)
    PROVE  v = w
<1>1. OneAtATime
  BY DEF IInv, TurnHeld, TaskInWorker, OneAtATime, Busy
<1>2. Busy(v) /\ Busy(w)
  BY DEF Owes, Busy
<1> QED BY <1>1, <1>2 DEF OneAtATime

\* The loop's steps and the vendor's.
LEMMA LoopAccounts ==
    ASSUME IInv, FatesTrue, LoopShape, AnswerAccounting, NEW c \in Cmds,
           LoopNext \/ RequestShutdown \/ VendorEmit
    PROVE  Accounted(c)'
<1>a. /\ AckOf(c) \in CommandFrames /\ PanicOf(c) \in CommandFrames
      /\ BusyOf(c) \in CommandFrames
      /\ NoFrame \notin CommandFrames /\ OtherFrame \notin CommandFrames
  BY AnswersType DEF CommandFrames, NoFrame, OtherFrame
<1>b. OtherFrame \in QueuedFrames
  BY DEF QueuedFrames
<1>c. outClosed => outClosed'
  BY DEF LoopNext, chanVars,
         Connect, RouteCommand, RoutePing, TakeOutbound, Heartbeat,
         WriteDone, ManagerClose, EndInbound, EndLost, EndShutdown,
         CancelSession, WriteClose, BreakLoop, StartDrain, DrainDone,
         DrainTimeout, RequestShutdown, VendorEmit
<1>d. UNCHANGED <<tpc, tcmd>>
  BY DEF LoopNext, workerVars,
         Connect, RouteCommand, RoutePing, TakeOutbound, Heartbeat,
         WriteDone, ManagerClose, EndInbound, EndLost, EndShutdown,
         CancelSession, WriteClose, BreakLoop, StartDrain, DrainDone,
         DrainTimeout, RequestShutdown, VendorEmit
<1>e. \A v \in Sessions : pc'[v] = pc[v] \/ (pc[v] = "unborn"
                                                /\ pc'[v] = "spawned")
  <2>1. CASE Connect
    <3>1. session + 1 \in Sessions /\ session + 1 > session
      BY <2>1, BoundsAssumption DEF Connect, IInv, TypeOK, Sessions
    <3>2. pc[session + 1] = "unborn"
      BY <3>1 DEF IInv, TaskInWorker
    <3> QED BY <2>1, <3>2 DEF Connect, IInv, TypeOK
  <2>2. CASE ~Connect
    BY <2>2
       DEF LoopNext, workerVars,
           RouteCommand, RoutePing, TakeOutbound, Heartbeat,
           WriteDone, ManagerClose, EndInbound, EndLost, EndShutdown,
           CancelSession, WriteClose, BreakLoop, StartDrain, DrainDone,
           DrainTimeout, RequestShutdown, VendorEmit
  <2> QED BY <2>1, <2>2
<1>f. AckPending(c)' <=> AckPending(c)
  <2>1. \A v \in Sessions : (Owes(v)' <=> Owes(v))
    BY <1>d, <1>e DEF Owes
  <2> QED BY <1>d, <2>1, SameDebts
<1>1. CASE RouteCommand
  <2>1. /\ sent + 1 \in Cmds /\ fate \in [Cmds -> Fates]
        /\ UNCHANGED <<outbound, wire, lost, outClosed>> /\ hand = NoFrame
        /\ \/ /\ fate' = [fate EXCEPT ![sent + 1] = "queued"]
              /\ hand' = hand
           \/ /\ fate' = [fate EXCEPT ![sent + 1] = "refused"]
              /\ hand' = BusyOf(sent + 1)
    <3>1. sent \in Nat /\ sent < MaxCmds /\ MaxCmds \in Nat
      BY <1>1, BoundsAssumption DEF RouteCommand, IInv, TypeOK
    <3>2. sent + 1 \in Cmds
      BY <3>1 DEF Cmds
    <3> QED BY <1>1, <3>2 DEF RouteCommand, chanVars, IInv, TypeOK, BusyOf
  <2>2. fate[sent + 1] = "unsent"
    BY <2>1, BoundsAssumption DEF FatesTrue, IInv, TypeOK
  <2>3. CASE c # sent + 1
    <3>1. fate'[c] = fate[c]
      BY <2>1, <2>3
    <3>2. \A f \in {AckOf(c), PanicOf(c), BusyOf(c)} :
            (hand' = f) <=> (hand = f)
      BY <1>a, <2>1, <2>3 DEF AckOf, PanicOf, BusyOf
    <3>3. \A f \in {AckOf(c), PanicOf(c), BusyOf(c)} : Copies(f)' = Copies(f)
      BY <2>1, <3>2 DEF Copies, Occurrences
    <3>4. /\ Copies(AckOf(c))' = Copies(AckOf(c))
          /\ Copies(PanicOf(c))' = Copies(PanicOf(c))
          /\ Copies(BusyOf(c))' = Copies(BusyOf(c))
      BY <3>3
    <3> QED BY <1>c, <1>f, <3>1, <3>4, QuietStep
  <2>4. CASE c = sent + 1
    <3>1. Accounted(c) /\ fate[c] = "unsent"
      BY <2>2, <2>4, AccountedIsAll
    <3>2. /\ Refusals(c) = 0 /\ Answers(c) = 0
      BY <3>1 DEF Accounted
    <3>3. \A f \in {AckOf(c), PanicOf(c)} : Copies(f)' = Copies(f)
      <4>1. \A f \in {AckOf(c), PanicOf(c)} : hand' # f /\ hand # f
        BY <1>a, <2>1 DEF AckOf, PanicOf, BusyOf
      <4> QED BY <2>1, <4>1 DEF Copies, Occurrences
    <3>4. Answers(c)' = 0
      BY <3>2, <3>3 DEF Answers, AckOf, PanicOf
    <3>5. CASE fate'[c] = "queued" /\ hand' = hand
      <4>1. Refusals(c)' = 0
        BY <2>1, <3>2, <3>5 DEF Refusals, Copies, Occurrences
      <4> QED BY <3>4, <3>5, <4>1 DEF Accounted
    <3>6. CASE fate'[c] = "refused" /\ hand' = BusyOf(c)
      <4>1. Copies(BusyOf(c))' = Occurrences(outbound, BusyOf(c))
              + Occurrences(wire, BusyOf(c)) + 1
              + (IF BusyOf(c) \in lost THEN 1 ELSE 0)
        BY <2>1, <3>6 DEF Copies, Occurrences
      <4>2. Copies(BusyOf(c)) = Occurrences(outbound, BusyOf(c))
              + Occurrences(wire, BusyOf(c)) + 0
              + (IF BusyOf(c) \in lost THEN 1 ELSE 0)
        BY <1>a, <2>1 DEF Copies
      <4>3. Copies(BusyOf(c)) = 0
        BY <3>2, AnswersType
      <4>4. Copies(BusyOf(c))' = 1
        BY <1>a, <4>1, <4>2, <4>3, CopiesType
      <4>5. Refusals(c)' = 1
        BY <4>4 DEF Refusals, BusyOf
      <4> QED BY <3>4, <3>6, <4>5 DEF Accounted
    <3> QED BY <2>1, <2>4, <3>5, <3>6
  <2> QED BY <2>3, <2>4
<1>2. CASE ~RouteCommand
  <2>1. fate' = fate
    BY <1>2
       DEF LoopNext, cmdVars,
           Connect, RoutePing, TakeOutbound, Heartbeat,
           WriteDone, ManagerClose, EndInbound, EndLost, EndShutdown,
           CancelSession, WriteClose, BreakLoop, StartDrain, DrainDone,
           DrainTimeout, RequestShutdown, VendorEmit
  <2>2. ASSUME NEW f \in {AckOf(c), PanicOf(c), BusyOf(c)}
        PROVE  Copies(f)' = Copies(f)
    <3>1. f \in CommandFrames
      BY <1>a, <2>2
    <3>2. CASE VendorEmit
      <4>1. Emit(OtherFrame) /\ UNCHANGED <<hand, wire, lost>>
        BY <3>2 DEF VendorEmit, loopVars
      <4>2. Copies(f)' = Copies(f) + (IF outClosed THEN 0 ELSE One(OtherFrame, f))
        BY <1>b, <3>1, <4>1, EmitCopies
      <4>3. One(OtherFrame, f) = 0
        BY <1>a, <3>1 DEF One
      <4> QED BY <3>1, <4>2, <4>3, CopiesType
    <3>3. CASE TakeOutbound
      BY <3>1, <3>3, TakeCopies
    <3>4. CASE WriteDone \/ EndLost \/ WriteClose
      <4>1. /\ outbound' = outbound /\ hand' = NoFrame
            /\ \/ wire' = Written(hand) /\ lost' = lost
               \/ lost' = Dropped(hand) /\ wire' = wire
        BY <3>4 DEF WriteDone, EndLost, WriteClose
      <4>2. Copies(f) <= 1
        BY <2>2, SingleCopies
      <4> QED BY <3>1, <4>1, <4>2, LetGo
    <3>5. CASE Connect
      <4>1. hand = NoFrame
        BY <3>5 DEF LoopShape, Connect
      <4> QED BY <3>1, <3>5, <4>1, FramesStill DEF Connect, chanVars
    <3>6. CASE RoutePing \/ Heartbeat
      BY <1>a, <3>1, <3>6, FramesStill DEF RoutePing, Heartbeat, chanVars
    <3>7. CASE \/ ManagerClose \/ EndInbound \/ EndShutdown \/ CancelSession
               \/ BreakLoop \/ StartDrain \/ DrainDone \/ DrainTimeout
               \/ RequestShutdown
      BY <3>1, <3>7, FramesStill
         DEF loopVars, chanVars, ManagerClose, EndInbound, EndShutdown,
             CancelSession, BreakLoop, StartDrain, DrainDone, DrainTimeout,
             RequestShutdown
    <3> QED BY <1>2, <3>2, <3>3, <3>4, <3>5, <3>6, <3>7 DEF LoopNext
  <2>3. /\ Copies(AckOf(c))' = Copies(AckOf(c))
        /\ Copies(PanicOf(c))' = Copies(PanicOf(c))
        /\ Copies(BusyOf(c))' = Copies(BusyOf(c))
    BY <2>2
  <2> QED BY <1>c, <1>f, <2>1, <2>3, QuietStep
<1> QED BY <1>1, <1>2

\* A worker or task that queues the one ack it owes settles the command.
LEMMA AckSettles ==
    ASSUME IInv, FatesTrue, AnswerAccounting, NEW w \in Sessions, Owes(w),
           NEW g \in {AckOf(tcmd[w]), PanicOf(tcmd[w])},
           Emit(g), UNCHANGED <<hand, wire, lost, outClosed, tcmd>>,
           ~Owes(w)', \A v \in Sessions : v # w => (Owes(v)' <=> Owes(v)),
           NEW c \in Cmds,
           \/ fate'[c] = fate[c]
           \/ fate[c] = "queued" /\ fate'[c] = "dropped"
    PROVE  Accounted(c)'
<1>1. tcmd[w] \in Cmds /\ fate[tcmd[w]] = "started"
  BY DEF IInv, TaskInWorker, Busy, Owes, FatesTrue
<1>2. g \in CommandFrames /\ g \in QueuedFrames
  BY <1>1, AnswersType DEF QueuedFrames
<1>3. \A f \in CommandFrames :
        Copies(f)' = Copies(f) + (IF outClosed THEN 0 ELSE One(g, f))
  BY <1>2, EmitCopies
<1>4. /\ AckOf(c) \in CommandFrames /\ PanicOf(c) \in CommandFrames
      /\ BusyOf(c) \in CommandFrames
      /\ Copies(AckOf(c)) \in Nat /\ Copies(PanicOf(c)) \in Nat
      /\ Copies(BusyOf(c)) \in Nat
  BY AnswersType
<1>5. AckPending(c) <=> \E v \in Sessions : tcmd[v] = c /\ Owes(v)
  BY DEF AckPending, Owes
<1>6. AckPending(c)' <=> \E v \in Sessions : tcmd[v] = c /\ Owes(v)'
  BY DEF AckPending, Owes
<1>7. CASE c # tcmd[w]
  <2>1. AckPending(c)' <=> AckPending(c)
    BY <1>5, <1>6, <1>7
  <2>2. \A f \in {AckOf(c), PanicOf(c), BusyOf(c)} : One(g, f) = 0
    BY <1>7 DEF One, AckOf, PanicOf, BusyOf
  <2>3. \A f \in {AckOf(c), PanicOf(c), BusyOf(c)} : Copies(f)' = Copies(f)
    BY <1>3, <1>4, <2>2
  <2>4. /\ Copies(AckOf(c))' = Copies(AckOf(c))
        /\ Copies(PanicOf(c))' = Copies(PanicOf(c))
        /\ Copies(BusyOf(c))' = Copies(BusyOf(c))
    BY <2>3
  <2> QED BY <2>1, <2>4, QuietStep
<1>8. CASE c = tcmd[w]
  <2>1. AckPending(c) /\ fate[c] = "started" /\ Accounted(c)
    BY <1>1, <1>5, <1>8, AccountedIsAll
  <2>2. Refusals(c) = 0 /\ Answers(c) = 0
    BY <2>1 DEF Accounted
  <2>3. ~AckPending(c)'
    BY <1>6, OneDebtor
  <2>4. fate'[c] = "started"
    BY <2>1
  <2>5. /\ One(g, BusyOf(c)) = 0
        /\ One(g, AckOf(c)) + One(g, PanicOf(c)) = 1
        /\ One(g, AckOf(c)) \in Nat /\ One(g, PanicOf(c)) \in Nat
    BY <1>8 DEF One, AckOf, PanicOf, BusyOf
  <2>6. Refusals(c)' = 0
    <3>1. Copies(BusyOf(c))' = 0
      BY <1>3, <1>4, <2>2, <2>5, AnswersType
    <3> QED BY <3>1 DEF Refusals, BusyOf
  <2>7. Answers(c)' = IF outClosed THEN 0 ELSE 1
    <3>1. Answers(c)' = Copies(AckOf(c))' + Copies(PanicOf(c))'
      BY DEF Answers, AckOf, PanicOf
    <3>2. Copies(AckOf(c)) = 0 /\ Copies(PanicOf(c)) = 0
      BY <1>4, <2>2, AnswersType
    <3>3. Copies(AckOf(c))' = IF outClosed THEN 0 ELSE One(g, AckOf(c))
      BY <1>3, <1>4, <2>5, <3>2
    <3>4. Copies(PanicOf(c))' = IF outClosed THEN 0 ELSE One(g, PanicOf(c))
      BY <1>3, <1>4, <2>5, <3>2
    <3> QED BY <2>5, <3>1, <3>3, <3>4
  <2> QED BY <2>3, <2>4, <2>6, <2>7 DEF Accounted
<1> QED BY <1>7, <1>8

\* The workers' steps.
LEMMA WorkerAccounts ==
    ASSUME IInv, Ordered, FatesTrue, LoopShape, AnswerAccounting,
           NEW c \in Cmds, NEW w \in Sessions, WorkerNext(w)
    PROVE  Accounted(c)'
<1>a. /\ pc \in [Sessions -> WorkerPCs] /\ tpc \in [Sessions -> TaskPCs]
      /\ tcmd \in [Sessions -> 0..MaxCmds] /\ fate \in [Cmds -> Fates]
      /\ queue \in [Sessions -> Seq(Cmds)]
  BY DEF IInv, TypeOK
<1>b. /\ AckOf(c) \in CommandFrames /\ PanicOf(c) \in CommandFrames
      /\ BusyOf(c) \in CommandFrames
  BY AnswersType
<1>c. tpc[w] # "none" => pc[w] \in {"run", "seeout"}
  BY DEF IInv, TaskInWorker
<1>d. UNCHANGED <<hand, wire, lost, outClosed>>
  BY DEF WorkerNext, loopVars, chanVars,
         WorkerSpawn, WorkerAsk, WorkerGranted, WorkerGiveUp, WorkerPoll,
         WorkerTake, WorkerJoined, WorkerSessionOver, WorkerSeeOut,
         WorkerPanicAck
<1>1. CASE WorkerPanicAck(w)
  <2>1. /\ Owes(w) /\ Emit(PanicOf(tcmd[w])) /\ UNCHANGED tcmd
    BY <1>1 DEF WorkerPanicAck, Owes, PanicOf
  <2>2. /\ \A v \in Sessions : v # w => pc'[v] = pc[v] /\ tpc'[v] = tpc[v]
        /\ pc'[w] \in {"poll", "done"} /\ tpc'[w] = "none"
    BY <1>1, <1>a, <1>c DEF WorkerPanicAck, WorkerReturn
  <2>3. ~Owes(w)' /\ \A v \in Sessions : v # w => (Owes(v)' <=> Owes(v))
    BY <2>2 DEF Owes
  <2>4. \/ fate'[c] = fate[c]
        \/ fate[c] = "queued" /\ fate'[c] = "dropped"
    <3>1. UNCHANGED fate \/ DropQueue(w)
      BY <1>1 DEF WorkerPanicAck, WorkerReturn
    <3> QED BY <3>1, DropQueueFates
  <2>5. PanicOf(tcmd[w]) \in {AckOf(tcmd[w]), PanicOf(tcmd[w])}
    OBVIOUS
  <2> QED BY <1>d, <2>1, <2>3, <2>4, <2>5, AckSettles
<1>2. CASE ~WorkerPanicAck(w)
  <2>1. outbound' = outbound
    BY <1>2
       DEF WorkerNext, chanVars,
           WorkerSpawn, WorkerAsk, WorkerGranted, WorkerGiveUp, WorkerPoll,
           WorkerTake, WorkerJoined, WorkerSessionOver, WorkerSeeOut
  <2>2. /\ Copies(AckOf(c))' = Copies(AckOf(c))
        /\ Copies(PanicOf(c))' = Copies(PanicOf(c))
        /\ Copies(BusyOf(c))' = Copies(BusyOf(c))
    BY <1>b, <1>d, <2>1, FramesStill
  <2>3. CASE WorkerTake(w) /\ queue[w] # <<>>
    <3> DEFINE d == Head(queue[w])
    <3>1. /\ pc[w] = "take" /\ pc' = [pc EXCEPT ![w] = "run"]
          /\ tpc' = [tpc EXCEPT ![w] = "spawned"]
          /\ tcmd' = [tcmd EXCEPT ![w] = d]
          /\ fate' = [fate EXCEPT ![d] = "started"]
      BY <2>3 DEF WorkerTake, WorkerReturn
    <3>2. 1 \in DOMAIN queue[w] /\ d = queue[w][1] /\ d \in Cmds
      BY <2>3, QueueElements, HeadTailProperties, EmptySeq
    <3> HIDE DEF d
    <3>3. fate[d] = "queued"
      BY <3>2 DEF FatesTrue
    <3>4. ~Owes(w) /\ Owes(w)'
      BY <1>a, <1>c, <3>1 DEF Owes
    <3>5. \A v \in Sessions : v # w =>
            (Owes(v)' <=> Owes(v)) /\ tcmd'[v] = tcmd[v]
      BY <1>a, <3>1 DEF Owes
    <3>6. tcmd'[w] = d
      BY <1>a, <3>1
    <3>7. AckPending(c) <=> \E v \in Sessions : tcmd[v] = c /\ Owes(v)
      BY DEF AckPending, Owes
    <3>8. AckPending(c)' <=> \E v \in Sessions : tcmd'[v] = c /\ Owes(v)'
      BY DEF AckPending, Owes
    <3>9. CASE c # d
      <4>1. AckPending(c)' <=> AckPending(c)
        BY <3>4, <3>5, <3>6, <3>7, <3>8, <3>9
      <4>2. fate'[c] = fate[c]
        BY <3>1, <3>9
      <4> QED BY <1>d, <2>2, <4>1, <4>2, QuietStep
    <3>10. CASE c = d
      <4>1. Accounted(c) /\ fate[c] = "queued"
        BY <3>3, <3>10, AccountedIsAll
      <4>2. Refusals(c) = 0 /\ Answers(c) = 0
        BY <4>1 DEF Accounted
      <4>3. Refusals(c)' = 0 /\ Answers(c)' = 0
        BY <2>2, <4>2 DEF Refusals, Answers, AckOf, PanicOf, BusyOf
      <4>4. AckPending(c)' /\ fate'[c] = "started"
        BY <1>a, <3>1, <3>4, <3>6, <3>8, <3>10
      <4> QED BY <4>3, <4>4 DEF Accounted
    <3> QED BY <3>9, <3>10
  <2>4. CASE ~(WorkerTake(w) /\ queue[w] # <<>>)
    <3>1. /\ tcmd' = tcmd
          /\ UNCHANGED fate \/ DropQueue(w)
      BY <1>2, <2>4
         DEF WorkerNext, cmdVars, WorkerReturn,
             WorkerSpawn, WorkerAsk, WorkerGranted, WorkerGiveUp, WorkerPoll,
             WorkerTake, WorkerJoined, WorkerSessionOver, WorkerSeeOut
    <3>2. \A v \in Sessions : v # w => pc'[v] = pc[v] /\ tpc'[v] = tpc[v]
      BY <1>a, <1>2, <2>4
         DEF WorkerNext, WorkerReturn,
             WorkerSpawn, WorkerAsk, WorkerGranted, WorkerGiveUp, WorkerPoll,
             WorkerTake, WorkerJoined, WorkerSessionOver, WorkerSeeOut
    <3>3. Owes(w)' <=> Owes(w)
      BY <1>a, <1>c, <1>2, <2>4
         DEF WorkerNext, WorkerReturn, Owes,
             WorkerSpawn, WorkerAsk, WorkerGranted, WorkerGiveUp, WorkerPoll,
             WorkerTake, WorkerJoined, WorkerSessionOver, WorkerSeeOut
    <3>4. \A v \in Sessions : Owes(v)' <=> Owes(v)
      BY <3>2, <3>3 DEF Owes
    <3>5. AckPending(c)' <=> AckPending(c)
      BY <3>1, <3>4, SameDebts
    <3>6. \/ fate'[c] = fate[c]
          \/ fate[c] = "queued" /\ fate'[c] = "dropped"
      BY <3>1, DropQueueFates
    <3> QED BY <1>d, <2>2, <3>5, <3>6, QuietStep
  <2> QED BY <2>3, <2>4
<1> QED BY <1>1, <1>2

\* The commands' tasks' steps.
LEMMA TaskAccounts ==
    ASSUME IInv, FatesTrue, LoopShape, AnswerAccounting,
           NEW c \in Cmds, NEW w \in Sessions, TaskNext(w)
    PROVE  Accounted(c)'
<1>a. /\ tpc \in [Sessions -> TaskPCs]
      /\ tcmd \in [Sessions -> 0..MaxCmds]
  BY DEF IInv, TypeOK
<1>b. /\ AckOf(c) \in CommandFrames /\ PanicOf(c) \in CommandFrames
      /\ BusyOf(c) \in CommandFrames
  BY AnswersType
<1>c. /\ UNCHANGED <<hand, wire, lost, outClosed, pc, tcmd, fate>>
      /\ \A v \in Sessions : v # w => tpc'[v] = tpc[v]
  BY <1>a DEF TaskNext, loopVars, chanVars, cmdVars,
         TaskStart, HandlerEnds, TaskAck, TaskConfig, TaskCancelled
<1>d. tpc[w] # "none" => pc[w] \in {"run", "seeout"}
  BY DEF IInv, TaskInWorker
<1>1. \A v \in Sessions : v # w => (Owes(v)' <=> Owes(v))
  BY <1>c DEF Owes
<1>2. CASE TaskAck(w)
  <2>1. /\ Owes(w) /\ Emit(AckOf(tcmd[w])) /\ tpc[w] = "ack"
    BY <1>2 DEF TaskAck, Owes, AckOf
  <2>2. tpc'[w] \in {"config", "returned"}
    BY <1>2, <1>a DEF TaskAck
  <2>3. ~Owes(w)'
    BY <1>c, <1>d, <2>1, <2>2 DEF Owes
  <2>4. AckOf(tcmd[w]) \in {AckOf(tcmd[w]), PanicOf(tcmd[w])}
    OBVIOUS
  <2> QED BY <1>c, <1>1, <2>1, <2>3, <2>4, AckSettles
<1>3. CASE TaskConfig(w)
  <2> DEFINE g == [kind |-> "config", cmd |-> tcmd[w]]
  <2>1. Emit(g) /\ tpc[w] = "config" /\ tpc'[w] = "returned"
    BY <1>3, <1>a DEF TaskConfig
  <2>2. ~Owes(w) /\ ~Owes(w)'
    BY <1>c, <1>d, <2>1 DEF Owes
  <2>3. AckPending(c)' <=> AckPending(c)
    BY <1>c, <1>1, <2>2, SameDebts
  <2>4. g \in QueuedFrames
    BY <2>1 DEF IInv, TaskInWorker, Busy, QueuedFrames, CommandFrames
  <2>5. \A f \in {AckOf(c), PanicOf(c), BusyOf(c)} : One(g, f) = 0
    BY DEF One, AckOf, PanicOf, BusyOf
  <2> HIDE DEF g
  <2>6. ASSUME NEW f \in {AckOf(c), PanicOf(c), BusyOf(c)}
        PROVE  Copies(f)' = Copies(f)
    <3>1. f \in CommandFrames /\ One(g, f) = 0
      BY <1>b, <2>5
    <3>2. Copies(f)' = Copies(f) + (IF outClosed THEN 0 ELSE One(g, f))
      BY <1>c, <2>1, <2>4, <3>1, EmitCopies
    <3> QED BY <3>1, <3>2, CopiesType
  <2>7. /\ Copies(AckOf(c))' = Copies(AckOf(c))
        /\ Copies(PanicOf(c))' = Copies(PanicOf(c))
        /\ Copies(BusyOf(c))' = Copies(BusyOf(c))
    BY <2>6
  <2> QED BY <1>c, <2>3, <2>7, QuietStep
<1>4. CASE TaskStart(w) \/ HandlerEnds(w) \/ TaskCancelled(w)
  <2>1. outbound' = outbound
    BY <1>4 DEF chanVars, TaskStart, HandlerEnds, TaskCancelled
  <2>2. /\ Copies(AckOf(c))' = Copies(AckOf(c))
        /\ Copies(PanicOf(c))' = Copies(PanicOf(c))
        /\ Copies(BusyOf(c))' = Copies(BusyOf(c))
    BY <1>b, <1>c, <2>1, FramesStill
  <2>3. (Owes(w)' <=> Owes(w)) \/ (Owes(w) /\ outClosed)
    BY <1>4, <1>a, <1>c, <1>d
       DEF Owes, LoopShape, TaskStart, HandlerEnds, TaskCancelled
  <2>4. AckPending(c) <=> \E v \in Sessions : tcmd[v] = c /\ Owes(v)
    BY DEF AckPending, Owes
  <2>5. AckPending(c)' <=> \E v \in Sessions : tcmd'[v] = c /\ Owes(v)'
    BY DEF AckPending, Owes
  <2>6. /\ AckPending(c)' => AckPending(c)
        /\ AckPending(c) => AckPending(c)' \/ outClosed'
    BY <1>c, <1>1, <2>3, <2>4, <2>5
  <2> QED BY <1>c, <2>2, <2>6, QuietStep
<1> QED BY <1>2, <1>3, <1>4 DEF TaskNext

\* Every step keeps the accounts.
LEMMA AccountsNext ==
    IInv /\ Ordered /\ FatesTrue /\ LoopShape /\ AnswerAccounting
      /\ [Next]_vars => AnswerAccounting'
<1> SUFFICES ASSUME IInv, Ordered, FatesTrue, LoopShape, AnswerAccounting,
                    [Next]_vars
             PROVE  \A c \in Cmds : Accounted(c)'
  BY DEF AnswerAccounting, Accounted
<1> TAKE c \in Cmds
<1>1. CASE LoopNext \/ RequestShutdown \/ VendorEmit
  BY <1>1, LoopAccounts
<1>2. ASSUME NEW w \in Sessions, WorkerNext(w) PROVE Accounted(c)'
  BY <1>2, WorkerAccounts
<1>3. ASSUME NEW w \in Sessions, TaskNext(w) PROVE Accounted(c)'
  BY <1>3, TaskAccounts
<1>4. CASE UNCHANGED vars
  <2>1. /\ UNCHANGED <<hand, outbound, wire, lost, outClosed, fate, pc, tpc,
                       tcmd>>
    BY <1>4 DEF vars, loopVars, chanVars, cmdVars, workerVars
  <2>2. /\ Copies(AckOf(c))' = Copies(AckOf(c))
        /\ Copies(PanicOf(c))' = Copies(PanicOf(c))
        /\ Copies(BusyOf(c))' = Copies(BusyOf(c))
    BY <2>1, AnswersType, FramesStill
  <2>3. AckPending(c)' <=> AckPending(c)
    BY <2>1 DEF AckPending
  <2> QED BY <2>1, <2>2, <2>3, QuietStep
<1> QED BY <1>1, <1>2, <1>3, <1>4 DEF Next, Terminated

\* At first there is no frame and no fate.
LEMMA AccountsInit == Init => FatesTrue /\ LoopShape /\ AnswerAccounting
<1> SUFFICES ASSUME Init PROVE FatesTrue /\ LoopShape /\ AnswerAccounting
  OBVIOUS
<1>1. FatesTrue
  <2>1. \A w \in Sessions : DOMAIN queue[w] = {}
    BY DEF Init
  <2> QED BY <2>1 DEF Init, FatesTrue, Owes
<1>2. LoopShape
  BY DEF Init, LoopShape
<1>3. \A f \in CommandFrames : Copies(f) = 0
  <2>1. \A f \in CommandFrames : hand # f /\ f \notin lost
    BY DEF Init, CommandFrames, NoFrame
  <2> QED BY <2>1, NoOccurrences DEF Init, Copies
<1>4. \A c \in Cmds : Answers(c) = 0 /\ Refusals(c) = 0
  BY <1>3 DEF Answers, Refusals, CommandFrames
<1>5. AnswerAccounting
  BY <1>4 DEF Init, AnswerAccounting
<1> QED BY <1>1, <1>2, <1>5

\* Every command is answered once or never, and the answer tells the truth:
\* gateway_busy for a refused one, nothing for a dropped one, one ack for one
\* that started, whether its handler returned or panicked and whichever session
\* carries the ack (route_inbound, run_command, finish_command, send_bounded).
THEOREM AnswersAddUp == Spec => []AnswerAccounting
BY InitInv, NextInv, OrderedInit, OrderedNext, AccountsInit, FatesNext,
   LoopShapeNext, AccountsNext, PTL DEF Spec

-----------------------------------------------------------------------------
(* What a set of commands costs.                                            *)

\* A set of numbers that is not empty has a least one.
LEMMA NatLeast ==
    ASSUME NEW T \in SUBSET Nat, T # {}
    PROVE  \E x \in T : \A y \in T : x <= y
<1>1. \E x \in T : \A y \in T : ~(<<y, x>> \in OpToRel(<, Nat))
  BY NatLessThanWellFounded, WFMin
<1>2. \A x, y \in Nat : y < x => <<y, x>> \in OpToRel(<, Nat)
  BY DEF OpToRel
<1>3. \E x \in T : \A y \in T : ~(y < x)
  BY <1>1, <1>2, Zenon
<1> QED BY <1>3, SMT

\* Induction: a set with zero in it and, up to N, the successor of each of its
\* members has every number up to N.
LEMMA CountUp ==
    ASSUME NEW N \in Nat, NEW S, 0 \in S,
           \A n \in 0..N : n \in S /\ n < N => n + 1 \in S
    PROVE  0..N \subseteq S
<1> DEFINE T == (0..N) \ S
<1> SUFFICES ASSUME T # {} PROVE FALSE
  OBVIOUS
<1>1. PICK x \in T : \A y \in T : x <= y
  <2>1. T \in SUBSET Nat
    OBVIOUS
  <2> HIDE DEF T
  <2> QED BY <2>1, NatLeast
<1>2. x \in Nat /\ x # 0 /\ x <= N /\ x \notin S
  BY <1>1
<1>3. x - 1 \in 0..N /\ x - 1 < N /\ (x - 1) + 1 = x
  BY <1>2
<1>4. x - 1 \in S
  BY <1>1, <1>2, <1>3
<1> QED BY <1>2, <1>3, <1>4

\* The recursion behind CostUpTo.
CostStep(S, f) ==
    [n \in 0..MaxCmds |->
       IF n = 0 THEN 0
       ELSE f[n - 1] + (IF n \in S THEN Cost[n] ELSE 0)]

\* It has a solution, which CostUpTo is.
LEMMA CostDefined ==
    ASSUME NEW S
    PROVE  CostUpTo(S) = CostStep(S, CostUpTo(S))
<1> DEFINE w(n) == IF n \in S THEN Cost[n] ELSE 0
           part(m, f) == [n \in 0..m |-> IF n = 0 THEN 0 ELSE f[n - 1] + w(n)]
           solved == {m \in Nat : \E f : f = part(m, f)}
<1>1. 0 \in solved
  <2>1. [n \in 0..0 |-> 0] = part(0, [n \in 0..0 |-> 0])
    OBVIOUS
  <2> QED BY <2>1
<1>2. ASSUME NEW m \in Nat, m \in solved PROVE m + 1 \in solved
  <2>1. PICK f : f = part(m, f)
    BY <1>2
  <2> DEFINE g == [n \in 0..(m + 1) |-> IF n = m + 1 THEN f[m] + w(m + 1)
                                                    ELSE f[n]]
  <2>2. \A n \in 0..(m + 1) :
          g[n] = IF n = 0 THEN 0 ELSE g[n - 1] + w(n)
    <3>1. ASSUME NEW n \in 0..(m + 1), n = m + 1
          PROVE  g[n] = IF n = 0 THEN 0 ELSE g[n - 1] + w(n)
      <4>1. n # 0 /\ n - 1 = m /\ m \in 0..(m + 1) /\ m # m + 1
        BY <3>1
      <4>2. g[m] = f[m] /\ g[n] = f[m] + w(n)
        BY <3>1, <4>1
      <4> QED BY <4>1, <4>2
    <3>2. ASSUME NEW n \in 0..(m + 1), n # m + 1
          PROVE  g[n] = IF n = 0 THEN 0 ELSE g[n - 1] + w(n)
      <4>1. n \in 0..m /\ g[n] = f[n]
        BY <3>2
      <4>2. f[n] = IF n = 0 THEN 0 ELSE f[n - 1] + w(n)
        BY <2>1, <4>1
      <4>3. n # 0 => n - 1 \in 0..(m + 1) /\ n - 1 # m + 1
        BY <4>1
      <4>4. n # 0 => g[n - 1] = f[n - 1]
        BY <4>3
      <4> QED BY <4>1, <4>2, <4>4
    <3> QED BY <3>1, <3>2
  <2>3. g = part(m + 1, g)
    <3> HIDE DEF w
    <3>1. g = [n \in 0..(m + 1) |-> g[n]]
      OBVIOUS
    <3> HIDE DEF g
    <3> QED BY <2>2, <3>1
  <2> HIDE DEF g, part
  <2> QED BY <2>3
<1>3. MaxCmds \in solved
  <2> HIDE DEF solved
  <2>1. \A n \in 0..MaxCmds : n \in solved /\ n < MaxCmds => n + 1 \in solved
    BY <1>2, BoundsAssumption
  <2>2. MaxCmds \in Nat
    BY BoundsAssumption
  <2>3. 0..MaxCmds \subseteq solved
    BY <1>1, <2>1, <2>2, CountUp
  <2> QED BY <2>2, <2>3
<1>4. \E f : f = CostStep(S, f)
  BY <1>3 DEF CostStep
<1>5. CostUpTo(S) = CHOOSE f : f = CostStep(S, f)
  BY DEF CostUpTo, CostStep
<1> QED BY <1>4, <1>5

\* One more command costs its wire size more, from its number on.
LEMMA CostAdds ==
    ASSUME NEW S, NEW c \in Cmds, c \notin S
    PROVE  /\ CostOf(S) \in Nat
           /\ CostOf(S \cup {c}) = CostOf(S) + Cost[c]
<1> DEFINE f == CostUpTo(S)
           g == CostUpTo(S \cup {c})
           more(n) == IF c <= n THEN Cost[c] ELSE 0
           right == {n \in 0..MaxCmds : f[n] \in Nat /\ g[n] = f[n] + more(n)}
<1>1. MaxCmds \in Nat /\ c \in 1..MaxCmds /\ \A n \in Cmds : Cost[n] \in Nat
  BY BoundsAssumption, CostAssumption DEF Cmds
<1>2. \A n \in 0..MaxCmds :
        f[n] = IF n = 0 THEN 0 ELSE f[n - 1] + (IF n \in S THEN Cost[n] ELSE 0)
  <2>1. f = CostStep(S, f)
    BY CostDefined
  <2> HIDE DEF f
  <2> QED BY <2>1 DEF CostStep
<1>3. \A n \in 0..MaxCmds :
        g[n] = IF n = 0 THEN 0
               ELSE g[n - 1] + (IF n \in S \cup {c} THEN Cost[n] ELSE 0)
  <2>1. g = CostStep(S \cup {c}, g)
    BY CostDefined
  <2> HIDE DEF g
  <2> QED BY <2>1 DEF CostStep
<1> HIDE DEF f, g
<1>4. 0 \in right
  BY <1>1, <1>2, <1>3
<1>5. ASSUME NEW n \in 0..MaxCmds, n \in right, n < MaxCmds
      PROVE  n + 1 \in right
  <2>1. /\ n + 1 \in 0..MaxCmds /\ n + 1 # 0 /\ (n + 1) - 1 = n
        /\ n + 1 \in Cmds /\ n \in Nat
    BY <1>1, <1>5 DEF Cmds
  <2>2. /\ f[n + 1] = f[n] + (IF n + 1 \in S THEN Cost[n + 1] ELSE 0)
        /\ g[n + 1] = g[n] + (IF n + 1 \in S \cup {c} THEN Cost[n + 1] ELSE 0)
    BY <1>2, <1>3, <2>1
  <2>3. /\ f[n] \in Nat /\ g[n] = f[n] + more(n)
        /\ Cost[n + 1] \in Nat /\ Cost[c] \in Nat
    BY <1>1, <1>5, <2>1
  <2>4. f[n + 1] \in Nat
    BY <2>2, <2>3
  <2>5. CASE n + 1 = c
    <3>1. /\ more(n) = 0 /\ more(n + 1) = Cost[c]
          /\ n + 1 \notin S /\ n + 1 \in S \cup {c}
      BY <1>1, <2>1, <2>5
    <3> HIDE DEF more
    <3> QED BY <2>1, <2>2, <2>3, <2>4, <2>5, <3>1
  <2>6. CASE n + 1 # c
    <3>1. /\ more(n) = more(n + 1) /\ more(n) \in Nat
          /\ n + 1 \in S <=> n + 1 \in S \cup {c}
      BY <1>1, <2>1, <2>3, <2>6
    <3> HIDE DEF more
    <3> QED BY <2>1, <2>2, <2>3, <2>4, <3>1
  <2> QED BY <2>5, <2>6
<1>6. MaxCmds \in right
  <2> HIDE DEF right
  <2>1. 0..MaxCmds \subseteq right
    BY <1>1, <1>4, <1>5, CountUp
  <2> QED BY <1>1, <2>1
<1>7. more(MaxCmds) = Cost[c]
  BY <1>1
<1> QED BY <1>6, <1>7 DEF CostOf, f, g

\* No command costs nothing.
LEMMA CostNone == CostOf({}) = 0
<1> DEFINE f == CostUpTo({})
           right == {n \in 0..MaxCmds : f[n] = 0}
<1>1. MaxCmds \in Nat
  BY BoundsAssumption
<1>2. f = CostStep({}, f)
  BY CostDefined
<1> HIDE DEF f
<1>3. \A n \in 0..MaxCmds : f[n] = IF n = 0 THEN 0 ELSE f[n - 1] + 0
  BY <1>2 DEF CostStep
<1>4. 0 \in right
  BY <1>1, <1>3
<1>5. ASSUME NEW n \in 0..MaxCmds, n \in right, n < MaxCmds
      PROVE  n + 1 \in right
  BY <1>1, <1>3, <1>5
<1> HIDE DEF right
<1>6. 0..MaxCmds \subseteq right
  BY <1>1, <1>4, <1>5, CountUp
<1> QED BY <1>1, <1>6 DEF right, CostOf, f

-----------------------------------------------------------------------------
(* The command budget.                                                      *)

InQueue(w) == {queue[w][i] : i \in DOMAIN queue[w]}
JustTaken(w) == IF tpc[w] = "spawned" THEN {tcmd[w]} ELSE {}

\* A session not born yet has its whole budget, and its worker does not retire
\* while it is up.
SessionShape ==
    /\ \A w \in Sessions : w > session => free[w] = QueueBytes
    /\ \A w \in Sessions : pc[w] \in {"seeout", "panicout"} => Over(w)
    /\ \A w \in Sessions : tpc[w] = "cancelled" => run = "exited"
    /\ run = "up" => session \in Sessions

\* Every step keeps it.
LEMMA SessionShapeNext == IInv /\ SessionShape /\ [Next]_vars => SessionShape'
<1> SUFFICES ASSUME IInv, SessionShape, [Next]_vars PROVE SessionShape'
  OBVIOUS
<1>a. /\ pc \in [Sessions -> WorkerPCs] /\ tpc \in [Sessions -> TaskPCs]
      /\ free \in [Sessions -> Int]
      /\ session \in Nat /\ Sessions \subseteq Nat
  BY BoundsAssumption DEF IInv, TypeOK, Sessions
<1>1. CASE RouteCommand
  <2>1. /\ UNCHANGED <<run, session, pc, tpc>>
        /\ \A w \in Sessions : w # session => free'[w] = free[w]
    BY <1>1, <1>a DEF RouteCommand, workerVars
  <2> QED BY <1>1, <1>a, <2>1 DEF SessionShape, Over
<1>2. CASE (LoopNext \/ RequestShutdown \/ VendorEmit) /\ ~RouteCommand
  <2>1. /\ UNCHANGED <<tpc, free>>
        /\ session' \in Nat /\ session <= session'
        /\ run = "exited" => run' = "exited"
        /\ pc' = pc \/ pc' = [pc EXCEPT ![session + 1] = "spawned"]
    BY <1>2, <1>a
       DEF LoopNext, loopVars, cmdVars, workerVars,
           Connect, RoutePing, TakeOutbound, Heartbeat,
           WriteDone, ManagerClose, EndInbound, EndLost, EndShutdown,
           CancelSession, WriteClose, BreakLoop, StartDrain, DrainDone,
           DrainTimeout, RequestShutdown, VendorEmit
  <2>2. \A w \in Sessions : Over(w) => Over(w)'
    BY <1>2, OverStable
  <2>3. \A w \in Sessions : pc'[w] = pc[w] \/ pc'[w] = "spawned"
    BY <1>a, <2>1
  <2>4. \A w \in Sessions : w > session' => w > session
    BY <1>a, <2>1
  <2>5. run' = "up" => session' \in Sessions
    <3>1. CASE Connect
      <4>1. session + 1 \in Sessions
        BY <1>a, <3>1, BoundsAssumption DEF Connect, Sessions
      <4> QED BY <3>1, <4>1 DEF Connect
    <3>2. CASE ~Connect
      <4>1. run' = "up" => run = "up" /\ session' = session
        BY <1>2, <3>2
           DEF LoopNext, loopVars,
               RoutePing, TakeOutbound, Heartbeat,
               WriteDone, ManagerClose, EndInbound, EndLost, EndShutdown,
               CancelSession, WriteClose, BreakLoop, StartDrain, DrainDone,
               DrainTimeout, RequestShutdown, VendorEmit
      <4> QED BY <4>1 DEF SessionShape
    <3> QED BY <3>1, <3>2
  <2> QED BY <2>1, <2>2, <2>3, <2>4, <2>5 DEF SessionShape
<1>3. ASSUME NEW w \in Sessions, WorkerNext(w) PROVE SessionShape'
  <2>1. /\ \A v \in Sessions : (Over(v)' <=> Over(v))
        /\ session' = session /\ run' = run
    BY <1>3, OverUnchanged
       DEF loopVars, WorkerNext,
           WorkerSpawn, WorkerAsk, WorkerGranted, WorkerGiveUp, WorkerPoll,
           WorkerTake, WorkerJoined, WorkerSessionOver, WorkerSeeOut,
           WorkerPanicAck
  <2>2. free' = free
    BY <1>3
       DEF cmdVars, WorkerNext,
           WorkerSpawn, WorkerAsk, WorkerGranted, WorkerGiveUp, WorkerPoll,
           WorkerTake, WorkerJoined, WorkerSessionOver, WorkerSeeOut,
           WorkerPanicAck
  <2>3. \E p \in WorkerPCs :
          /\ pc' = [pc EXCEPT ![w] = p]
          /\ p \in {"seeout", "panicout"} => Over(w)
    BY <1>3, <1>a
       DEF WorkerNext, WorkerPCs, WorkerReturn, SessionShape,
           WorkerSpawn, WorkerAsk, WorkerGranted, WorkerGiveUp, WorkerPoll,
           WorkerTake, WorkerJoined, WorkerSessionOver, WorkerSeeOut,
           WorkerPanicAck
  <2>4. \A v \in Sessions : tpc'[v] = "cancelled" => tpc[v] = "cancelled"
    BY <1>3, <1>a
       DEF WorkerNext, WorkerReturn,
           WorkerSpawn, WorkerAsk, WorkerGranted, WorkerGiveUp, WorkerPoll,
           WorkerTake, WorkerJoined, WorkerSessionOver, WorkerSeeOut,
           WorkerPanicAck
  <2>5. \A v \in Sessions : pc'[v] \in {"seeout", "panicout"} => Over(v)
    BY <1>a, <2>3 DEF SessionShape
  <2> QED BY <2>1, <2>2, <2>4, <2>5 DEF SessionShape
<1>4. ASSUME NEW w \in Sessions, TaskNext(w) PROVE SessionShape'
  <2>1. UNCHANGED <<run, session, pc>>
    BY <1>4 DEF loopVars, TaskNext, TaskStart, HandlerEnds, TaskAck,
                TaskConfig, TaskCancelled
  <2>2. tpc[w] # "none"
    BY <1>4 DEF TaskNext, TaskStart, HandlerEnds, TaskAck, TaskConfig,
                TaskCancelled
  <2>3. ~(w > session)
    BY <2>2 DEF IInv, TaskInWorker
  <2>4. \A v \in Sessions : v # w => free'[v] = free[v]
    BY <1>4, <1>a DEF cmdVars, TaskNext, TaskStart, HandlerEnds, TaskAck,
                      TaskConfig, TaskCancelled
  <2>5. \A v \in Sessions :
          tpc'[v] = "cancelled" => tpc[v] = "cancelled" \/ run = "exited"
    BY <1>4, <1>a DEF TaskNext, TaskStart, HandlerEnds, TaskAck, TaskConfig,
                      TaskCancelled
  <2> QED BY <2>1, <2>3, <2>4, <2>5 DEF SessionShape, Over
<1>5. CASE UNCHANGED vars
  BY <1>5 DEF SessionShape, Over, vars, loopVars, cmdVars, workerVars
<1> QED BY <1>1, <1>2, <1>3, <1>4, <1>5 DEF Next, Terminated

\* What the current session's budget must add up to.
Budget ==
    /\ free[session] >= 0
    /\ free[session] + CostOf(InQueue(session) \cup JustTaken(session))
         = QueueBytes

\* A routed command takes its bytes out of the budget.
LEMMA RouteBudget ==
    ASSUME IInv, Ordered, FatesTrue, Budget, RouteCommand,
           session \in Sessions
    PROVE  Budget'
<1> DEFINE c == sent + 1
           held == InQueue(session) \cup JustTaken(session)
<1>1. c \in Cmds /\ Cost[c] \in Nat /\ QueueBytes \in Nat
  <2>1. sent \in Nat /\ sent < MaxCmds /\ MaxCmds \in Nat
    BY BoundsAssumption DEF RouteCommand, IInv, TypeOK
  <2>2. c \in Cmds
    BY <2>1 DEF Cmds
  <2> QED BY <2>2, BoundsAssumption, CostAssumption
<1>2. UNCHANGED <<session, tpc, tcmd>>
  BY DEF RouteCommand, workerVars
<1>3. CASE UNCHANGED <<queue, free>>
  BY <1>2, <1>3 DEF Budget, InQueue, JustTaken
<1>4. CASE ~UNCHANGED <<queue, free>>
  <2>1. /\ queue' = [queue EXCEPT ![session] = Append(queue[session], c)]
        /\ free' = [free EXCEPT ![session] = free[session] - Cost[c]]
        /\ Cost[c] <= free[session]
        /\ queue \in [Sessions -> Seq(Cmds)] /\ free \in [Sessions -> Int]
    BY <1>4 DEF RouteCommand, HasRoom, IInv, TypeOK
  <2>2. queue'[session] = Append(queue[session], c)
        /\ free'[session] = free[session] - Cost[c]
        /\ free[session] \in Int
    BY <2>1
  <2>3. /\ queue[session] \in Seq(Cmds) /\ Len(queue[session]) \in Nat
        /\ DOMAIN queue[session] = 1..Len(queue[session])
    BY QueueElements
  <2>4. /\ DOMAIN queue'[session] = 1..(Len(queue[session]) + 1)
        /\ queue'[session][Len(queue[session]) + 1] = c
        /\ \A i \in 1..Len(queue[session]) :
             queue'[session][i] = queue[session][i]
    BY <1>1, <2>2, <2>3, AppendProperties, LenProperties
  <2>5. InQueue(session)' = InQueue(session) \cup {c}
    <3>1. InQueue(session)'
            = {queue'[session][i] : i \in DOMAIN queue'[session]}
      BY <1>2 DEF InQueue
    <3>2. \A x : x \in {queue'[session][i] : i \in DOMAIN queue'[session]}
                   <=> x \in InQueue(session) \cup {c}
      <4>1. \A i \in DOMAIN queue'[session] :
              queue'[session][i] \in InQueue(session) \cup {c}
        BY <2>3, <2>4 DEF InQueue
      <4>2. \A i \in DOMAIN queue[session] :
              i \in DOMAIN queue'[session]
                /\ queue'[session][i] = queue[session][i]
        BY <2>3, <2>4
      <4>3. Len(queue[session]) + 1 \in DOMAIN queue'[session]
        BY <2>3, <2>4
      <4> QED BY <2>4, <4>1, <4>2, <4>3 DEF InQueue
    <3> QED BY <3>1, <3>2
  <2>6. JustTaken(session)' = JustTaken(session)
    BY <1>2 DEF JustTaken
  <2>7. c \notin held
    <3>1. fate[c] = "unsent"
      BY <1>1, BoundsAssumption DEF FatesTrue, IInv, TypeOK
    <3>2. c \notin InQueue(session)
      BY <3>1 DEF FatesTrue, InQueue
    <3>3. c \notin JustTaken(session)
      BY <3>1 DEF FatesTrue, JustTaken
    <3> QED BY <3>2, <3>3
  <2>8. CostOf(held \cup {c}) = CostOf(held) + Cost[c] /\ CostOf(held) \in Nat
    BY <1>1, <2>7, CostAdds
  <2>9. InQueue(session)' \cup JustTaken(session)' = held \cup {c}
    BY <2>5, <2>6
  <2>10. CostOf(InQueue(session) \cup JustTaken(session))'
           = CostOf(held \cup {c})
    BY <2>9 DEF CostOf, CostUpTo
  <2>11. free'[session'] = free[session] - Cost[c]
    BY <1>2, <2>2
  <2>12. free[session] + CostOf(held) = QueueBytes
    BY DEF Budget
  <2> HIDE DEF c, held
  <2> QED BY <1>1, <2>1, <2>2, <2>8, <2>10, <2>11, <2>12 DEF Budget
<1> QED BY <1>3, <1>4

\* A worker that takes a command holds it instead of the queue.
LEMMA TakeBudget ==
    ASSUME IInv, Budget, session \in Sessions,
           WorkerTake(session), queue[session] # <<>>
    PROVE  Budget'
<1> DEFINE c == Head(queue[session])
<1>1. /\ queue' = [queue EXCEPT ![session] = Tail(queue[session])]
      /\ tpc' = [tpc EXCEPT ![session] = "spawned"]
      /\ tcmd' = [tcmd EXCEPT ![session] = c]
      /\ UNCHANGED <<free, session>> /\ pc[session] = "take"
  BY DEF WorkerTake, WorkerReturn, loopVars
<1>2. /\ queue'[session] = Tail(queue[session])
      /\ tpc'[session] = "spawned" /\ tcmd'[session] = c
      /\ tpc[session] = "none"
  BY <1>1 DEF IInv, TypeOK, TaskInWorker
<1>3. /\ queue[session] \in Seq(Cmds) /\ Len(queue[session]) \in Nat
      /\ DOMAIN queue[session] = 1..Len(queue[session])
  BY QueueElements
<1>4. /\ Tail(queue[session]) \in Seq(Cmds)
      /\ Len(Tail(queue[session])) = Len(queue[session]) - 1
      /\ c = queue[session][1] /\ 1 \in DOMAIN queue[session]
      /\ \A i \in 1..(Len(queue[session]) - 1) :
           Tail(queue[session])[i] = queue[session][i + 1]
  BY <1>3, HeadTailProperties, EmptySeq
<1>5. DOMAIN Tail(queue[session]) = 1..(Len(queue[session]) - 1)
  BY <1>4, LenProperties
<1> DEFINE rest == {Tail(queue[session])[i] : i \in DOMAIN Tail(queue[session])}
<1>6. InQueue(session) = rest \cup {c}
  <2>1. \A i \in DOMAIN queue[session] : queue[session][i] \in rest \cup {c}
    <3>1. ASSUME NEW i \in DOMAIN queue[session], i # 1
          PROVE  queue[session][i] \in rest
      <4>1. i - 1 \in 1..(Len(queue[session]) - 1) /\ (i - 1) + 1 = i
        BY <1>3, <3>1
      <4>2. Tail(queue[session])[i - 1] = queue[session][i]
        BY <1>4, <4>1
      <4> QED BY <1>5, <4>1, <4>2
    <3> HIDE DEF rest
    <3> QED BY <1>4, <3>1
  <2>2. \A i \in DOMAIN Tail(queue[session]) :
          \E k \in DOMAIN queue[session] :
            Tail(queue[session])[i] = queue[session][k]
    <3>1. ASSUME NEW i \in DOMAIN Tail(queue[session])
          PROVE  i + 1 \in DOMAIN queue[session]
                 /\ Tail(queue[session])[i] = queue[session][i + 1]
      BY <1>3, <1>4, <1>5, <3>1
    <3> QED BY <3>1
  <2> HIDE DEF c
  <2> QED BY <1>4, <2>1, <2>2 DEF InQueue
<1>7. InQueue(session)' = rest
  BY <1>1, <1>2 DEF InQueue
<1>8. JustTaken(session) = {} /\ JustTaken(session)' = {c}
  BY <1>1, <1>2 DEF JustTaken
<1> HIDE DEF c, rest
<1>9. InQueue(session)' \cup JustTaken(session)'
        = InQueue(session) \cup JustTaken(session)
  BY <1>6, <1>7, <1>8
<1>10. CostOf(InQueue(session) \cup JustTaken(session))'
         = CostOf(InQueue(session) \cup JustTaken(session))
  BY <1>9 DEF CostOf, CostUpTo
<1> QED BY <1>1, <1>10 DEF Budget

\* A command that starts gives its bytes back.
LEMMA StartBudget ==
    ASSUME IInv, FatesTrue, Budget, session \in Sessions, TaskStart(session)
    PROVE  Budget'
<1> DEFINE c == tcmd[session]
<1>1. /\ tpc[session] = "spawned" /\ tpc'[session] = "handler"
      /\ free'[session] = free[session] + Cost[c]
      /\ free[session] \in Int
      /\ UNCHANGED <<queue, session, tcmd>>
  BY DEF TaskStart, loopVars, IInv, TypeOK
<1>2. c \in Cmds /\ Cost[c] \in Nat
  BY <1>1, BoundsAssumption, CostAssumption DEF IInv, TaskInWorker, Busy
<1>3. fate[c] = "started"
  BY <1>1 DEF FatesTrue
<1>4. c \notin InQueue(session)
  BY <1>3 DEF FatesTrue, InQueue
<1>5. JustTaken(session) = {c} /\ JustTaken(session)' = {}
  BY <1>1 DEF JustTaken
<1>6. InQueue(session)' = InQueue(session)
  BY <1>1 DEF InQueue
<1>7. /\ CostOf(InQueue(session)) \in Nat
      /\ CostOf(InQueue(session) \cup {c}) = CostOf(InQueue(session)) + Cost[c]
  BY <1>2, <1>4, CostAdds
<1>8. InQueue(session)' \cup JustTaken(session)' = InQueue(session)
  BY <1>5, <1>6
<1>9. CostOf(InQueue(session) \cup JustTaken(session))'
        = CostOf(InQueue(session))
  BY <1>8 DEF CostOf, CostUpTo
<1>10. free'[session'] = free[session] + Cost[c]
  BY <1>1
<1>11. /\ free[session] >= 0
       /\ free[session] + CostOf(InQueue(session) \cup {c}) = QueueBytes
  BY <1>5 DEF Budget
<1> HIDE DEF c
<1>12. /\ free'[session'] >= 0
       /\ free'[session'] + CostOf(InQueue(session)) = QueueBytes
  BY <1>1, <1>2, <1>7, <1>10, <1>11
<1> QED BY <1>9, <1>12 DEF Budget

\* Any other step leaves the sum alone.
LEMMA SameBudget ==
    ASSUME Budget, session \in Sessions, session' = session,
           queue'[session] = queue[session], free'[session] = free[session],
           tcmd'[session] = tcmd[session],
           tpc'[session] = "spawned" <=> tpc[session] = "spawned"
    PROVE  Budget'
<1>1. InQueue(session)' = InQueue(session)
  BY DEF InQueue
<1>2. JustTaken(session)' = JustTaken(session)
  BY DEF JustTaken
<1>3. CostOf(InQueue(session) \cup JustTaken(session))'
        = CostOf(InQueue(session) \cup JustTaken(session))
  BY <1>1, <1>2 DEF CostOf, CostUpTo
<1> QED BY <1>3 DEF Budget

\* A new session's budget is whole.
LEMMA ConnectBudget ==
    ASSUME IInv, Ordered, SessionShape, Connect PROVE Budget'
<1> DEFINE w == session + 1
<1>1. /\ session' = w /\ UNCHANGED <<queue, free, tpc, tcmd>>
      /\ w \in Sessions /\ w > session /\ session \in Nat
  <2>1. session < MaxSessions /\ session \in Nat /\ MaxSessions \in Nat
    BY BoundsAssumption DEF Connect, IInv, TypeOK
  <2>2. w \in Sessions /\ w > session
    BY <2>1 DEF Sessions
  <2> QED BY <2>1, <2>2 DEF Connect, cmdVars
<1>2. free[w] = QueueBytes
  BY <1>1 DEF SessionShape
<1>3. tpc[w] = "none"
  BY <1>1 DEF IInv, TypeOK, TaskInWorker
<1>4. \A i \in DOMAIN queue[w] : FALSE
  BY <1>1 DEF Ordered
<1>5. InQueue(w) = {} /\ JustTaken(w) = {}
  BY <1>3, <1>4 DEF InQueue, JustTaken
<1>6. InQueue(session)' \cup JustTaken(session)' = {}
  BY <1>1, <1>5 DEF InQueue, JustTaken
<1>7. CostOf(InQueue(session) \cup JustTaken(session))' = CostOf({})
  BY <1>6 DEF CostOf, CostUpTo
<1>8. free'[session'] = QueueBytes /\ QueueBytes \in Nat
  BY <1>1, <1>2, BoundsAssumption
<1> HIDE DEF w
<1> QED BY <1>7, <1>8, CostNone DEF Budget

\* Every step keeps the budget of a session that is up.
LEMMA BudgetNext ==
    /\ IInv /\ Ordered /\ FatesTrue /\ SessionShape
    /\ run = "up" => Budget
    /\ [Next]_vars
    => (run = "up" => Budget)'
<1> SUFFICES ASSUME IInv, Ordered, FatesTrue, SessionShape,
                    run = "up" => Budget, [Next]_vars, run' = "up"
             PROVE  Budget'
  OBVIOUS
<1>a. /\ pc \in [Sessions -> WorkerPCs] /\ tpc \in [Sessions -> TaskPCs]
      /\ tcmd \in [Sessions -> 0..MaxCmds] /\ free \in [Sessions -> Int]
      /\ queue \in [Sessions -> Seq(Cmds)] /\ session \in Nat
  BY BoundsAssumption DEF IInv, TypeOK
<1>1. CASE Connect
  BY <1>1, ConnectBudget
<1>2. CASE run = "up" /\ ~Connect
  <2>1. Budget
    BY <1>2
  <2>2. session \in Sessions
    BY <1>2 DEF SessionShape
  <2>3. CASE session \in Sessions
    <3>a. ~Over(session)
      BY <1>a, <1>2 DEF Over
    <3>1. CASE RouteCommand
      BY <2>1, <2>3, <3>1, RouteBudget
    <3>2. CASE (LoopNext \/ RequestShutdown \/ VendorEmit) /\ ~RouteCommand
      <4>1. UNCHANGED <<session, queue, free, tpc, tcmd>>
        BY <1>2, <3>2
           DEF LoopNext, loopVars, cmdVars, workerVars,
               RoutePing, TakeOutbound, Heartbeat,
               WriteDone, ManagerClose, EndInbound, EndLost, EndShutdown,
               CancelSession, WriteClose, BreakLoop, StartDrain, DrainDone,
               DrainTimeout, RequestShutdown, VendorEmit
      <4> QED BY <2>1, <2>3, <4>1, SameBudget
    <3>3. ASSUME NEW w \in Sessions, WorkerNext(w) PROVE Budget'
      <4>1. session' = session /\ free' = free
        BY <3>3
           DEF loopVars, cmdVars, WorkerNext,
               WorkerSpawn, WorkerAsk, WorkerGranted, WorkerGiveUp, WorkerPoll,
               WorkerTake, WorkerJoined, WorkerSessionOver, WorkerSeeOut,
               WorkerPanicAck
      <4>2. CASE w # session
        <5>1. queue'[session] = queue[session]
          BY <1>a, <2>3, <3>3, <4>2
             DEF WorkerNext, WorkerReturn, DropQueue, cmdVars,
                 WorkerSpawn, WorkerAsk, WorkerGranted, WorkerGiveUp,
                 WorkerPoll, WorkerTake, WorkerJoined, WorkerSessionOver,
                 WorkerSeeOut, WorkerPanicAck
        <5>2. tpc'[session] = tpc[session] /\ tcmd'[session] = tcmd[session]
          BY <1>a, <2>3, <3>3, <4>2
             DEF WorkerNext, WorkerReturn, cmdVars,
                 WorkerSpawn, WorkerAsk, WorkerGranted, WorkerGiveUp,
                 WorkerPoll, WorkerTake, WorkerJoined, WorkerSessionOver,
                 WorkerSeeOut, WorkerPanicAck
        <5> QED BY <2>1, <2>3, <4>1, <5>1, <5>2, SameBudget
      <4>3. CASE w = session /\ WorkerTake(w) /\ queue[w] # <<>>
        BY <2>1, <4>3, TakeBudget
      <4>4. CASE w = session /\ ~(WorkerTake(w) /\ queue[w] # <<>>)
        <5>1. /\ pc[session] \notin {"seeout", "panicout"}
              /\ tpc[session] # "cancelled"
              /\ tpc[session] # "none" => pc[session] \in {"run", "seeout"}
          BY <1>2, <2>3, <3>a DEF SessionShape, IInv, TaskInWorker
        <5>2. /\ queue'[session] = queue[session]
              /\ tcmd'[session] = tcmd[session]
          BY <1>a, <2>3, <3>3, <3>a, <4>4, <5>1
             DEF WorkerNext, WorkerReturn, DropQueue, TokenCancelled, cmdVars,
                 WorkerSpawn, WorkerAsk, WorkerGranted, WorkerGiveUp,
                 WorkerPoll, WorkerTake, WorkerJoined, WorkerSessionOver,
                 WorkerSeeOut, WorkerPanicAck
        <5>3. tpc'[session] = "spawned" <=> tpc[session] = "spawned"
          BY <1>a, <2>3, <3>3, <3>a, <4>4, <5>1
             DEF WorkerNext, WorkerReturn, TokenCancelled,
                 WorkerSpawn, WorkerAsk, WorkerGranted, WorkerGiveUp,
                 WorkerPoll, WorkerTake, WorkerJoined, WorkerSessionOver,
                 WorkerSeeOut, WorkerPanicAck
        <5> QED BY <2>1, <2>3, <4>1, <5>2, <5>3, SameBudget
      <4> QED BY <4>2, <4>3, <4>4
    <3>4. ASSUME NEW w \in Sessions, TaskNext(w) PROVE Budget'
      <4>1. UNCHANGED <<session, queue, tcmd>>
        BY <3>4 DEF loopVars, cmdVars, TaskNext, TaskStart, HandlerEnds,
                    TaskAck, TaskConfig, TaskCancelled
      <4>2. CASE w = session /\ TaskStart(w)
        BY <2>1, <4>2, StartBudget
      <4>3. CASE ~(w = session /\ TaskStart(w))
        <5>1. free'[session] = free[session]
          BY <1>a, <2>3, <3>4, <4>3
             DEF cmdVars, TaskNext, TaskStart, HandlerEnds, TaskAck,
                 TaskConfig, TaskCancelled
        <5>2. tpc'[session] = "spawned" <=> tpc[session] = "spawned"
          BY <1>a, <1>2, <2>3, <3>4, <4>3
             DEF TaskNext, TaskStart, HandlerEnds, TaskAck, TaskConfig,
                 TaskCancelled
        <5> QED BY <2>1, <2>3, <4>1, <5>1, <5>2, SameBudget
      <4> QED BY <4>2, <4>3
    <3>5. CASE UNCHANGED vars
      BY <2>1, <2>3, <3>5, SameBudget DEF vars, loopVars, cmdVars, workerVars
    <3> QED BY <1>2, <3>1, <3>2, <3>3, <3>4, <3>5 DEF Next, Terminated
  <2> QED BY <2>2, <2>3
<1>3. CASE run # "up" /\ ~Connect
  <2>1. run' # "up"
    BY <1>3
       DEF Next, LoopNext, WorkerNext, TaskNext, Terminated, vars, loopVars,
           RouteCommand, RoutePing, TakeOutbound, Heartbeat,
           WriteDone, ManagerClose, EndInbound, EndLost, EndShutdown,
           CancelSession, WriteClose, BreakLoop, StartDrain, DrainDone,
           DrainTimeout, RequestShutdown, VendorEmit,
           WorkerSpawn, WorkerAsk, WorkerGranted, WorkerGiveUp, WorkerPoll,
           WorkerTake, WorkerJoined, WorkerSessionOver, WorkerSeeOut,
           WorkerPanicAck, TaskStart, HandlerEnds, TaskAck, TaskConfig,
           TaskCancelled
  <2> QED BY <2>1
<1> QED BY <1>1, <1>2, <1>3

\* All of it holds at first, and with it goes the budget: no refusal leaks
\* bytes, none are given back twice, and the queue never holds more than
\* COMMAND_QUEUE_BYTES (route_inbound, run_command).
THEOREM BudgetAddsUp == Spec => []BudgetExact
<1>1. Init => SessionShape /\ (run = "up" => Budget)
  BY DEF Init, SessionShape
<1>2. (run = "up" => Budget) => BudgetExact
  BY DEF Budget, BudgetExact, InQueue, JustTaken
<1> QED BY InitInv, NextInv, OrderedInit, OrderedNext, AccountsInit, FatesNext,
           SessionShapeNext, BudgetNext, <1>1, <1>2, PTL DEF Spec
=============================================================================

------------------------- MODULE CommandLinkProofs -------------------------
(***************************************************************************)
(* Proofs about CommandLink for any number of sessions and commands and    *)
(* any size of queue, budget and channel: its types, that commands never   *)
(* overlap and start in the order they were sent, and that shutdown cuts   *)
(* none off that it could have waited for.                                 *)
(***************************************************************************)
EXTENDS CommandLink, SequenceTheorems, TLAPS

\* Whoever may take, is running or owes an answer for a command holds the
\* command turn.  A worker at the top of its loop without the turn has an
\* ended session, so the token turns it away (run_commands: "Without the turn
\* the session is over").
TurnHeld ==
    \A w \in Sessions :
      /\ pc[w] \in {"take", "run", "panic", "seeout", "panicout"} => turn = w
      /\ pc[w] = "poll" => turn = w \/ Over(w)

\* A command's task lives inside its worker's wait for it and runs a real
\* command, and a worker is born with its session.
TaskInWorker ==
    \A w \in Sessions :
      /\ tpc[w] # "none" => pc[w] \in {"run", "seeout"}
      /\ Busy(w) => tcmd[w] \in Cmds
      /\ w > session => pc[w] = "unborn"

IInv == TypeOK /\ TurnHeld /\ TaskInWorker

-----------------------------------------------------------------------------
(* The helpers keep the types of what they change.                          *)

\* A piece of a sequence has the sequence's type.
LEMMA SubSeqType ==
    ASSUME NEW S, NEW s \in Seq(S), NEW m \in 1..(Len(s) + 1),
           NEW n \in 0..Len(s)
    PROVE  SubSeq(s, m, n) \in Seq(S)
<1>1. Len(s) \in Nat
  BY LenProperties
<1>2. m \in Int /\ n \in Int /\ m..n \subseteq 1..Len(s)
  BY <1>1
<1>3. \A i \in m..n : s[i] \in S
  BY <1>2, ElementOfSeq
<1> QED BY <1>2, <1>3, SubSeqProperties

\* The drain's place in line is a number past every session's.
LEMMA DrainerType == Drainer \in Nat /\ Sessions \subseteq 1..Drainer
BY BoundsAssumption DEF Drainer, Sessions

\* Append keeps the type of a sequence and adds one to its length.
LEMMA AppendType ==
    ASSUME NEW S, NEW s \in Seq(S), NEW x \in S
    PROVE  Append(s, x) \in Seq(S) /\ Len(Append(s, x)) = Len(s) + 1
BY AppendProperties

\* Head is an element, and Tail keeps the type and is one shorter.
LEMMA HeadTailType ==
    ASSUME NEW S, NEW s \in Seq(S), s # <<>>
    PROVE  /\ Head(s) \in S
           /\ Tail(s) \in Seq(S)
           /\ Len(Tail(s)) = Len(s) - 1
BY HeadTailProperties

\* Asking for the turn keeps the turn and its line well typed.
LEMMA AskTurnType ==
    ASSUME TypeOK, NEW x \in 1..Drainer, AskTurn(x)
    PROVE  turn' \in 0..Drainer /\ turnQ' \in Seq(1..Drainer)
<1>1. turnQ \in Seq(1..Drainer) /\ turn \in 0..Drainer
  BY DEF TypeOK
<1>2. Append(turnQ, x) \in Seq(1..Drainer)
  BY <1>1, AppendType
<1>3. x \in 0..Drainer
  BY DrainerType
<1> QED BY <1>1, <1>2, <1>3 DEF AskTurn

\* So does handing it to the next in line.
LEMMA ReleaseTurnType ==
    ASSUME TypeOK, ReleaseTurn
    PROVE  turn' \in 0..Drainer /\ turnQ' \in Seq(1..Drainer)
<1>1. turnQ \in Seq(1..Drainer) /\ turn \in 0..Drainer
  BY DEF TypeOK
<1>2. CASE turnQ = <<>>
  BY <1>1, <1>2, DrainerType DEF ReleaseTurn, NoOne
<1>3. CASE turnQ # <<>>
  <2>1. Head(turnQ) \in 1..Drainer /\ Tail(turnQ) \in Seq(1..Drainer)
    BY <1>1, <1>3, HeadTailType
  <2> QED BY <1>3, <2>1, DrainerType DEF ReleaseTurn
<1> QED BY <1>2, <1>3

\* So does leaving the line.
LEMMA LeaveTurnType ==
    ASSUME TypeOK, NEW x \in 1..Drainer, LeaveTurn(x)
    PROVE  turn' \in 0..Drainer /\ turnQ' \in Seq(1..Drainer)
<1>1. CASE turn = x
  BY <1>1, ReleaseTurnType DEF LeaveTurn
<1>2. CASE turn # x
  <2>1. PICK i \in 1..Len(turnQ) :
          turnQ' = SubSeq(turnQ, 1, i - 1) \o SubSeq(turnQ, i + 1, Len(turnQ))
    BY <1>2 DEF LeaveTurn
  <2>2. turnQ \in Seq(1..Drainer) /\ Len(turnQ) \in Nat
    BY LenProperties DEF TypeOK
  <2>3. /\ i - 1 \in 0..Len(turnQ) /\ 1 \in 1..(Len(turnQ) + 1)
        /\ i + 1 \in 1..(Len(turnQ) + 1) /\ Len(turnQ) \in 0..Len(turnQ)
    BY <2>2
  <2>4. /\ SubSeq(turnQ, 1, i - 1) \in Seq(1..Drainer)
        /\ SubSeq(turnQ, i + 1, Len(turnQ)) \in Seq(1..Drainer)
    BY <2>2, <2>3, SubSeqType
  <2>5. turnQ' \in Seq(1..Drainer)
    BY <2>1, <2>4, ConcatProperties
  <2> QED BY <1>2, <2>5 DEF LeaveTurn, TypeOK
<1> QED BY <1>1, <1>2

\* An emit keeps the channel within its capacity.
LEMMA EmitType ==
    ASSUME TypeOK, NEW f \in QueuedFrames, Emit(f)
    PROVE  outbound' \in Seq(QueuedFrames) /\ Len(outbound') <= OutboundSize
<1>1. /\ outbound \in Seq(QueuedFrames) /\ Len(outbound) \in Nat
      /\ Len(outbound) <= OutboundSize /\ OutboundSize \in Nat
  BY BoundsAssumption, LenProperties DEF TypeOK
<1>2. /\ Append(outbound, f) \in Seq(QueuedFrames)
      /\ Len(Append(outbound, f)) = Len(outbound) + 1
  BY <1>1, AppendType
<1> QED BY <1>1, <1>2 DEF Emit

\* Recording a frame keeps the records well typed.
LEMMA RecordType ==
    ASSUME TypeOK, NEW f
    PROVE  Written(f) \in Seq(CommandFrames) /\ Dropped(f) \subseteq CommandFrames
BY AppendProperties DEF TypeOK, Written, Dropped

\* Dropping a queue keeps queues and fates well typed.
LEMMA DropQueueType ==
    ASSUME TypeOK, NEW w \in Sessions, DropQueue(w)
    PROVE  fate' \in [Cmds -> Fates] /\ queue' \in [Sessions -> Seq(Cmds)]
<1>1. <<>> \in Seq(Cmds)
  BY EmptySeq
<1> QED BY <1>1 DEF TypeOK, DropQueue, Fates

\* A returning worker keeps everything it changes well typed.
LEMMA WorkerReturnType ==
    ASSUME TypeOK, NEW w \in Sessions, WorkerReturn(w)
    PROVE  /\ pc' \in [Sessions -> WorkerPCs]
           /\ tpc' \in [Sessions -> TaskPCs]
           /\ fate' \in [Cmds -> Fates]
           /\ queue' \in [Sessions -> Seq(Cmds)]
           /\ turn' \in 0..Drainer
           /\ turnQ' \in Seq(1..Drainer)
<1>1. pc' \in [Sessions -> WorkerPCs] /\ tpc' \in [Sessions -> TaskPCs]
  BY DEF TypeOK, WorkerReturn, WorkerPCs, TaskPCs
<1>2. DropQueue(w)
  BY DEF WorkerReturn
<1>3. turn' \in 0..Drainer /\ turnQ' \in Seq(1..Drainer)
  <2>1. CASE turn = w
    BY <2>1, ReleaseTurnType DEF WorkerReturn
  <2>2. CASE turn # w
    BY <2>2 DEF WorkerReturn, turnVars, TypeOK
  <2> QED BY <2>1, <2>2
<1> QED BY <1>1, <1>2, <1>3, DropQueueType

-----------------------------------------------------------------------------
(* Every step keeps the types.                                              *)

\* Steps of the session loop, of shutdown and of the vendor.
LEMMA LoopType ==
    ASSUME IInv, LoopNext \/ RequestShutdown \/ VendorEmit
    PROVE  TypeOK'
<1> USE DEF loopVars, chanVars, cmdVars, turnVars, workerVars
<1>0. TypeOK
  BY DEF IInv
<1>a. NoFrame \in QueuedFrames \cup {NoFrame} /\ OtherFrame \in QueuedFrames
  BY DEF QueuedFrames
<1>1. CASE Connect
  <2>1. session + 1 \in Sessions /\ session' \in 0..MaxSessions
    BY <1>1, <1>0, BoundsAssumption DEF Connect, TypeOK, Sessions
  <2>2. pc' \in [Sessions -> WorkerPCs]
    BY <1>1, <1>0, <2>1 DEF Connect, TypeOK, WorkerPCs
  <2> QED BY <1>1, <1>0, <1>a, <2>1, <2>2 DEF Connect, TypeOK, RunStates
<1>2. CASE RouteCommand
  <2>1. /\ sent + 1 \in Cmds /\ sent' \in 0..MaxCmds
        /\ session \in 0..MaxSessions
    BY <1>2, <1>0, BoundsAssumption DEF RouteCommand, TypeOK, Cmds
  <2>2. fate' \in [Cmds -> Fates]
    BY <1>2, <1>0, <2>1 DEF RouteCommand, TypeOK, Fates
  <2>3. hand' \in QueuedFrames \cup {NoFrame}
    BY <1>2, <1>0, <2>1 DEF RouteCommand, TypeOK, QueuedFrames, CommandFrames
  <2>4. queue' \in [Sessions -> Seq(Cmds)]
    <3>1. ASSUME session \in Sessions
          PROVE  Append(queue[session], sent + 1) \in Seq(Cmds)
      BY <1>0, <2>1, <3>1, AppendType DEF TypeOK
    <3>2. queue \in [Sessions -> Seq(Cmds)]
      BY <1>0 DEF TypeOK
    <3> QED BY <1>2, <3>1, <3>2 DEF RouteCommand
  <2>5. free' \in [Sessions -> Int]
    BY <1>2, <1>0, <2>1, CostAssumption DEF RouteCommand, TypeOK
  <2> QED BY <1>2, <1>0, <2>1, <2>2, <2>3, <2>4, <2>5
          DEF RouteCommand, TypeOK
<1>3. CASE RoutePing
  BY <1>3, <1>0, <1>a DEF RoutePing, TypeOK, RunStates
<1>4. CASE TakeOutbound
  <2>1. outbound \in Seq(QueuedFrames) /\ outbound # <<>>
    BY <1>4, <1>0 DEF TakeOutbound, TypeOK
  <2>2. /\ Head(outbound) \in QueuedFrames
        /\ Tail(outbound) \in Seq(QueuedFrames)
        /\ Len(Tail(outbound)) = Len(outbound) - 1
    BY <2>1, HeadTailType
  <2>3. Len(outbound') <= OutboundSize
    BY <1>4, <1>0, <2>1, <2>2, LenProperties, BoundsAssumption
       DEF TakeOutbound, TypeOK
  <2> QED BY <1>4, <1>0, <2>2, <2>3 DEF TakeOutbound, TypeOK
<1>5. CASE Heartbeat
  BY <1>5, <1>0, <1>a DEF Heartbeat, TypeOK, RunStates
<1>6. CASE WriteDone
  BY <1>6, <1>0, <1>a, RecordType DEF WriteDone, TypeOK, RunStates
<1>7. CASE ManagerClose
  BY <1>7, <1>0, <1>a DEF ManagerClose, TypeOK, RunStates
<1>8. CASE EndInbound
  BY <1>8, <1>0, <1>a DEF EndInbound, TypeOK, RunStates
<1>9. CASE EndLost
  BY <1>9, <1>0, <1>a, RecordType DEF EndLost, TypeOK, RunStates
<1>10. CASE EndShutdown
  BY <1>10, <1>0, <1>a DEF EndShutdown, TypeOK, RunStates
<1>11. CASE CancelSession
  BY <1>11, <1>0, <1>a DEF CancelSession, TypeOK, RunStates
<1>12. CASE WriteClose
  BY <1>12, <1>0, <1>a, RecordType DEF WriteClose, TypeOK, RunStates
<1>13. CASE BreakLoop
  BY <1>13, <1>0, <1>a DEF BreakLoop, TypeOK, RunStates
<1>14. CASE StartDrain
  <2>1. Drainer \in 1..Drainer
    BY BoundsAssumption DEF Drainer
  <2>2. turn' \in 0..Drainer /\ turnQ' \in Seq(1..Drainer)
    BY <1>14, <1>0, <2>1, AskTurnType DEF StartDrain
  <2> QED BY <1>14, <1>0, <2>2 DEF StartDrain, TypeOK, RunStates
<1>15. CASE DrainDone
  <2>1. turn' \in 0..Drainer /\ turnQ' \in Seq(1..Drainer)
    BY <1>15, <1>0, ReleaseTurnType DEF DrainDone
  <2> QED BY <1>15, <1>0, <2>1 DEF DrainDone, TypeOK, RunStates
<1>16. CASE DrainTimeout
  <2>1. Drainer \in 1..Drainer
    BY BoundsAssumption DEF Drainer
  <2>2. turn' \in 0..Drainer /\ turnQ' \in Seq(1..Drainer)
    BY <1>16, <1>0, <2>1, LeaveTurnType DEF DrainTimeout
  <2> QED BY <1>16, <1>0, <2>2 DEF DrainTimeout, TypeOK, RunStates
<1>17. CASE RequestShutdown
  BY <1>17, <1>0, <1>a DEF RequestShutdown, TypeOK, RunStates
<1>18. CASE VendorEmit
  <2>1. outbound' \in Seq(QueuedFrames) /\ Len(outbound') <= OutboundSize
    BY <1>18, <1>0, <1>a, EmitType DEF VendorEmit
  <2> QED BY <1>18, <1>0, <2>1 DEF VendorEmit, TypeOK
<1> QED BY <1>1, <1>2, <1>3, <1>4, <1>5, <1>6, <1>7, <1>8, <1>9, <1>10, <1>11, <1>12, <1>13, <1>14, <1>15, <1>16, <1>17, <1>18 DEF LoopNext

\* Steps of a worker and of the command task it has spawned.
LEMMA WorkerType ==
    ASSUME IInv, NEW w \in Sessions, WorkerNext(w) \/ TaskNext(w)
    PROVE  TypeOK'
<1> USE DEF loopVars, chanVars, cmdVars, turnVars, workerVars
<1>0. TypeOK
  BY DEF IInv
<1>a. w \in 1..Drainer
  BY DrainerType
<1>b. ASSUME Busy(w), NEW k \in {"ack", "panic", "config"}
      PROVE  [kind |-> k, cmd |-> tcmd[w]] \in QueuedFrames
  BY <1>b DEF IInv, TaskInWorker, QueuedFrames, CommandFrames
<1>1. CASE WorkerSpawn(w)
  BY <1>1, <1>0 DEF WorkerSpawn, TypeOK, WorkerPCs, TaskPCs
<1>2. CASE WorkerAsk(w)
  <2>1. turn' \in 0..Drainer /\ turnQ' \in Seq(1..Drainer)
    BY <1>2, <1>0, <1>a, AskTurnType DEF WorkerAsk
  <2> QED BY <1>2, <1>0, <2>1 DEF WorkerAsk, TypeOK, WorkerPCs
<1>3. CASE WorkerGranted(w)
  BY <1>3, <1>0 DEF WorkerGranted, TypeOK, WorkerPCs, TaskPCs
<1>4. CASE WorkerGiveUp(w)
  <2>1. turn' \in 0..Drainer /\ turnQ' \in Seq(1..Drainer)
    BY <1>4, <1>0, <1>a, LeaveTurnType DEF WorkerGiveUp
  <2> QED BY <1>4, <1>0, <2>1 DEF WorkerGiveUp, TypeOK, WorkerPCs
<1>5. CASE WorkerPoll(w)
  <2>1. CASE WorkerReturn(w)
    BY <1>5, <1>0, <2>1, WorkerReturnType DEF WorkerPoll, TypeOK
  <2>2. CASE ~WorkerReturn(w)
    BY <1>5, <1>0, <2>2 DEF WorkerPoll, TypeOK, WorkerPCs
  <2> QED BY <2>1, <2>2
<1>6. CASE WorkerTake(w)
  <2>1. CASE WorkerReturn(w) /\ queue[w] = <<>>
    BY <1>6, <1>0, <2>1, WorkerReturnType DEF WorkerTake, TypeOK
  <2>2. CASE queue[w] # <<>>
    <3> DEFINE c == Head(queue[w])
               rest == Tail(queue[w])
    <3>1. queue[w] \in Seq(Cmds)
      BY <1>0 DEF TypeOK
    <3>2. c \in Cmds /\ rest \in Seq(Cmds)
      BY <2>2, <3>1, HeadTailType
    <3>3. /\ queue' = [queue EXCEPT ![w] = rest]
          /\ fate' = [fate EXCEPT ![c] = "started"]
          /\ tcmd' = [tcmd EXCEPT ![w] = c]
          /\ \E n \in {late[w], late[w] + 1} : late' = [late EXCEPT ![w] = n]
          /\ pc' = [pc EXCEPT ![w] = "run"]
          /\ tpc' = [tpc EXCEPT ![w] = "spawned"]
      BY <1>6, <2>2 DEF WorkerTake
    <3>4. /\ fate \in [Cmds -> Fates] /\ queue \in [Sessions -> Seq(Cmds)]
          /\ tcmd \in [Sessions -> 0..MaxCmds] /\ late \in [Sessions -> Nat]
          /\ pc \in [Sessions -> WorkerPCs] /\ tpc \in [Sessions -> TaskPCs]
      BY <1>0 DEF TypeOK
    <3> HIDE DEF c, rest
    <3>5. fate' \in [Cmds -> Fates] /\ queue' \in [Sessions -> Seq(Cmds)]
      BY <3>2, <3>3, <3>4 DEF Fates
    <3>6. tcmd' \in [Sessions -> 0..MaxCmds] /\ late' \in [Sessions -> Nat]
      BY <3>2, <3>3, <3>4, BoundsAssumption DEF Cmds
    <3>7. pc' \in [Sessions -> WorkerPCs] /\ tpc' \in [Sessions -> TaskPCs]
      BY <3>3, <3>4 DEF WorkerPCs, TaskPCs
    <3> QED BY <1>6, <1>0, <2>2, <3>5, <3>6, <3>7 DEF WorkerTake, TypeOK
  <2> QED BY <1>6, <2>1, <2>2 DEF WorkerTake
<1>7. CASE WorkerJoined(w)
  <2>1. CASE WorkerReturn(w)
    BY <1>7, <1>0, <2>1, WorkerReturnType DEF WorkerJoined, TypeOK
  <2>2. CASE ~WorkerReturn(w)
    BY <1>7, <1>0, <2>2 DEF WorkerJoined, TypeOK, WorkerPCs, TaskPCs
  <2> QED BY <2>1, <2>2
<1>8. CASE WorkerSessionOver(w)
  <2>1. fate' \in [Cmds -> Fates] /\ queue' \in [Sessions -> Seq(Cmds)]
    BY <1>8, <1>0, DropQueueType DEF WorkerSessionOver
  <2> QED BY <1>8, <1>0, <2>1 DEF WorkerSessionOver, TypeOK, WorkerPCs
<1>9. CASE WorkerSeeOut(w)
  <2>1. CASE WorkerReturn(w)
    BY <1>9, <1>0, <2>1, WorkerReturnType DEF WorkerSeeOut, TypeOK
  <2>2. CASE ~WorkerReturn(w)
    BY <1>9, <1>0, <2>2 DEF WorkerSeeOut, TypeOK, WorkerPCs, TaskPCs
  <2> QED BY <2>1, <2>2
<1>10. CASE WorkerPanicAck(w)
  <2>1. outbound' \in Seq(QueuedFrames) /\ Len(outbound') <= OutboundSize
    <3>1. [kind |-> "panic", cmd |-> tcmd[w]] \in QueuedFrames
      BY <1>10, <1>b DEF WorkerPanicAck, Busy
    <3> QED BY <1>10, <1>0, <3>1, EmitType DEF WorkerPanicAck
  <2>2. CASE WorkerReturn(w)
    BY <1>10, <1>0, <2>1, <2>2, WorkerReturnType DEF WorkerPanicAck, TypeOK
  <2>3. CASE ~WorkerReturn(w)
    BY <1>10, <1>0, <2>1, <2>3 DEF WorkerPanicAck, TypeOK, WorkerPCs
  <2> QED BY <2>2, <2>3
<1>11. CASE TaskStart(w)
  <2>1. tcmd[w] \in Cmds
    BY <1>11 DEF TaskStart, IInv, TaskInWorker, Busy
  <2>2. free' \in [Sessions -> Int]
    BY <1>11, <1>0, <2>1, CostAssumption DEF TaskStart, TypeOK
  <2> QED BY <1>11, <1>0, <2>2 DEF TaskStart, TypeOK, TaskPCs
<1>12. CASE HandlerEnds(w)
  BY <1>12, <1>0 DEF HandlerEnds, TypeOK, WorkerPCs, TaskPCs
<1>13. CASE TaskAck(w)
  <2>1. [kind |-> "ack", cmd |-> tcmd[w]] \in QueuedFrames
    BY <1>13, <1>b DEF TaskAck, Busy
  <2>2. outbound' \in Seq(QueuedFrames) /\ Len(outbound') <= OutboundSize
    BY <1>13, <1>0, <2>1, EmitType DEF TaskAck
  <2> QED BY <1>13, <1>0, <2>2 DEF TaskAck, TypeOK, TaskPCs
<1>14. CASE TaskConfig(w)
  <2>1. [kind |-> "config", cmd |-> tcmd[w]] \in QueuedFrames
    BY <1>14, <1>b DEF TaskConfig, Busy
  <2>2. outbound' \in Seq(QueuedFrames) /\ Len(outbound') <= OutboundSize
    BY <1>14, <1>0, <2>1, EmitType DEF TaskConfig
  <2> QED BY <1>14, <1>0, <2>2 DEF TaskConfig, TypeOK, TaskPCs
<1>15. CASE TaskCancelled(w)
  BY <1>15, <1>0 DEF TaskCancelled, TypeOK, WorkerPCs, TaskPCs
<1> QED BY <1>1, <1>2, <1>3, <1>4, <1>5, <1>6, <1>7, <1>8, <1>9, <1>10, <1>11, <1>12, <1>13, <1>14, <1>15 DEF WorkerNext, TaskNext

-----------------------------------------------------------------------------
(* The command turn.                                                        *)

\* A session that is over stays over, whatever the loop does.
LEMMA OverStable ==
    ASSUME IInv, LoopNext \/ RequestShutdown \/ VendorEmit, NEW w \in Sessions,
           Over(w)
    PROVE  Over(w)'
<1>1. session \in Nat /\ w \in Nat
  BY BoundsAssumption DEF IInv, TypeOK, Sessions
<1>2. CASE Connect
  BY <1>1, <1>2 DEF Connect, Over
<1>3. CASE ~Connect
  BY <1>1, <1>3
     DEF Over, loopVars, LoopNext,
         RouteCommand, RoutePing, TakeOutbound, Heartbeat, WriteDone,
         ManagerClose, EndInbound, EndLost, EndShutdown, CancelSession,
         WriteClose, BreakLoop, StartDrain, DrainDone, DrainTimeout,
         RequestShutdown, VendorEmit
<1> QED BY <1>2, <1>3

\* A step of a worker or of its task leaves every session as it is.
LEMMA OverUnchanged ==
    ASSUME NEW w \in Sessions, WorkerNext(w) \/ TaskNext(w), NEW v
    PROVE  Over(v)' = Over(v) /\ session' = session
BY DEF Over, loopVars, WorkerNext, TaskNext,
       WorkerSpawn, WorkerAsk, WorkerGranted, WorkerGiveUp, WorkerPoll,
       WorkerTake, WorkerJoined, WorkerSessionOver, WorkerSeeOut,
       WorkerPanicAck, TaskStart, HandlerEnds, TaskAck, TaskConfig,
       TaskCancelled

\* The loop's steps take the turn from no worker and touch no worker but the
\* one Connect spawns, which is new.
LEMMA LoopTurn ==
    ASSUME IInv, LoopNext \/ RequestShutdown \/ VendorEmit
    PROVE  TurnHeld' /\ TaskInWorker'
<1> USE DEF loopVars, chanVars, cmdVars, turnVars, workerVars
<1>0. TypeOK /\ TurnHeld /\ TaskInWorker
  BY DEF IInv
<1>a. session \in Nat /\ Sessions \subseteq Nat /\ Drainer \notin Sessions
  BY <1>0, BoundsAssumption DEF TypeOK, Sessions, Drainer
<1>b. \A w \in Sessions : Over(w) => Over(w)'
  BY OverStable
<1>1. CASE UNCHANGED <<session, turn, pc, tpc, tcmd>>
  BY <1>1, <1>0, <1>b DEF TurnHeld, TaskInWorker, Busy
<1>2. CASE Connect
  <2>1. session + 1 \in Sessions
    BY <1>2, <1>0, BoundsAssumption DEF Connect, TypeOK, Sessions
  <2>2. /\ pc \in [Sessions -> WorkerPCs]
        /\ pc' = [pc EXCEPT ![session + 1] = "spawned"]
        /\ session' = session + 1
        /\ UNCHANGED <<turn, tpc, tcmd>>
    BY <1>2, <1>0 DEF Connect, TypeOK
  <2>3. pc[session + 1] = "unborn"
    BY <1>0, <1>a, <2>1 DEF TaskInWorker
  <2>4. TurnHeld'
    BY <1>0, <1>b, <2>1, <2>2 DEF TurnHeld
  <2>5. TaskInWorker'
    BY <1>0, <1>a, <2>1, <2>2, <2>3 DEF TaskInWorker, Busy
  <2> QED BY <2>4, <2>5
<1>3. CASE StartDrain
  <2>1. UNCHANGED <<session, pc, tpc, tcmd>>
    BY <1>3 DEF StartDrain
  <2>2. turn' = turn \/ turn = NoOne
    BY <1>3 DEF StartDrain, AskTurn
  <2>3. \A w \in Sessions : turn = w => turn' = w
    BY <2>2, BoundsAssumption DEF NoOne, Sessions
  <2> QED BY <1>0, <1>b, <2>1, <2>3 DEF TurnHeld, TaskInWorker, Busy
<1>4. CASE DrainDone
  <2>1. UNCHANGED <<session, pc, tpc, tcmd>> /\ turn = Drainer
    BY <1>4 DEF DrainDone
  <2> QED BY <1>0, <1>a, <1>b, <2>1 DEF TurnHeld, TaskInWorker, Busy
<1>5. CASE DrainTimeout
  <2>1. UNCHANGED <<session, turn, pc, tpc, tcmd>>
    BY <1>5 DEF DrainTimeout, LeaveTurn
  <2> QED BY <1>1, <2>1
<1> QED BY <1>1, <1>2, <1>3, <1>4, <1>5
       DEF LoopNext,
           RouteCommand, RoutePing, TakeOutbound, Heartbeat, WriteDone,
           ManagerClose, EndInbound, EndLost, EndShutdown, CancelSession,
           WriteClose, BreakLoop, RequestShutdown, VendorEmit

\* A worker that returns gives up only its own turn.
LEMMA ReturnTurn ==
    ASSUME IInv, NEW w \in Sessions, WorkerReturn(w), pc[w] # "unborn",
           UNCHANGED <<session, tcmd>>,
           \A v \in Sessions : Over(v)' = Over(v)
    PROVE  TurnHeld' /\ TaskInWorker'
<1>0. TypeOK /\ TurnHeld /\ TaskInWorker
  BY DEF IInv
<1>1. /\ pc \in [Sessions -> WorkerPCs] /\ tpc \in [Sessions -> TaskPCs]
      /\ pc' = [pc EXCEPT ![w] = "done"]
      /\ tpc' = [tpc EXCEPT ![w] = "none"]
  BY <1>0 DEF WorkerReturn, TypeOK
<1>2. turn # w => turn' = turn
  BY DEF WorkerReturn, turnVars
<1>3. TurnHeld'
  BY <1>0, <1>1, <1>2 DEF TurnHeld
<1>4. ~(w > session)
  BY <1>0 DEF TaskInWorker
<1>5. TaskInWorker'
  BY <1>0, <1>1, <1>4 DEF TaskInWorker, Busy
<1> QED BY <1>3, <1>5

\* A worker's steps: it goes on only with the turn or with its session over,
\* takes a command only with the turn, and gives the turn up only when it has
\* nothing under way.
LEMMA WorkerTurn ==
    ASSUME IInv, NEW w \in Sessions, WorkerNext(w)
    PROVE  TurnHeld' /\ TaskInWorker'
<1> USE DEF turnVars, workerVars
<1>0. TypeOK /\ TurnHeld /\ TaskInWorker
  BY DEF IInv
<1>a. (\A v \in Sessions : Over(v)' = Over(v)) /\ session' = session
  BY OverUnchanged
<1>b. NoOne \notin Sessions
  BY DEF NoOne, Sessions
<1>c. pc \in [Sessions -> WorkerPCs] /\ tpc \in [Sessions -> TaskPCs]
      /\ tcmd \in [Sessions -> 0..MaxCmds]
  BY <1>0 DEF TypeOK
<1>d. tpc[w] # "none" => pc[w] \in {"run", "seeout"}
  BY <1>0 DEF TaskInWorker
<1>e. pc[w] # "unborn" => ~(w > session)
  BY <1>0 DEF TaskInWorker
<1>1. CASE WorkerSpawn(w)
  BY <1>1, <1>0, <1>a, <1>c, <1>d, <1>e
     DEF WorkerSpawn, TurnHeld, TaskInWorker, Busy
<1>2. CASE WorkerAsk(w)
  <2>1. \A v \in Sessions : turn = v => turn' = v
    BY <1>2, <1>b DEF WorkerAsk, AskTurn
  <2>2. turn = NoOne => turn' = w
    BY <1>2 DEF WorkerAsk, AskTurn
  <2> QED BY <1>2, <1>0, <1>a, <1>c, <1>d, <1>e, <2>1, <2>2
          DEF WorkerAsk, TurnHeld, TaskInWorker, Busy
<1>3. CASE WorkerGranted(w)
  BY <1>3, <1>0, <1>a, <1>c, <1>d, <1>e
     DEF WorkerGranted, TurnHeld, TaskInWorker, Busy
<1>4. CASE WorkerGiveUp(w)
  <2>1. turn # w => turn' = turn
    BY <1>4 DEF WorkerGiveUp, LeaveTurn
  <2> QED BY <1>4, <1>0, <1>a, <1>c, <1>d, <1>e, <2>1
          DEF WorkerGiveUp, TurnHeld, TaskInWorker, Busy
<1>5. CASE WorkerPoll(w)
  <2>1. CASE WorkerReturn(w)
    BY <1>5, <1>a, <2>1, ReturnTurn DEF WorkerPoll
  <2>2. CASE ~WorkerReturn(w)
    BY <1>5, <1>0, <1>a, <1>c, <1>d, <1>e, <2>2
       DEF WorkerPoll, TurnHeld, TaskInWorker, Busy, TokenCancelled
  <2> QED BY <2>1, <2>2
<1>6. CASE WorkerTake(w)
  <2>1. CASE WorkerReturn(w) /\ queue[w] = <<>>
    BY <1>6, <1>a, <2>1, ReturnTurn DEF WorkerTake
  <2>2. CASE queue[w] # <<>>
    <3>1. Head(queue[w]) \in Cmds
      BY <1>0, <2>2, HeadTailType DEF TypeOK
    <3>2. /\ pc' = [pc EXCEPT ![w] = "run"]
          /\ tcmd' = [tcmd EXCEPT ![w] = Head(queue[w])]
          /\ tpc' = [tpc EXCEPT ![w] = "spawned"]
          /\ turn' = turn /\ pc[w] = "take"
      BY <1>6, <2>2 DEF WorkerTake
    <3>3. TurnHeld'
      BY <1>0, <1>a, <1>c, <3>2 DEF TurnHeld
    <3>4. TaskInWorker'
      BY <1>0, <1>a, <1>c, <1>e, <3>1, <3>2 DEF TaskInWorker, Busy
    <3> QED BY <3>3, <3>4
  <2> QED BY <1>6, <2>1, <2>2 DEF WorkerTake
<1>7. CASE WorkerJoined(w)
  <2>1. CASE WorkerReturn(w)
    BY <1>7, <1>a, <2>1, ReturnTurn DEF WorkerJoined
  <2>2. CASE ~WorkerReturn(w)
    BY <1>7, <1>0, <1>a, <1>c, <1>d, <1>e, <2>2
       DEF WorkerJoined, TurnHeld, TaskInWorker, Busy
  <2> QED BY <2>1, <2>2
<1>8. CASE WorkerSessionOver(w)
  BY <1>8, <1>0, <1>a, <1>c, <1>d, <1>e
     DEF WorkerSessionOver, TurnHeld, TaskInWorker, Busy
<1>9. CASE WorkerSeeOut(w)
  <2>1. CASE WorkerReturn(w)
    BY <1>9, <1>a, <2>1, ReturnTurn DEF WorkerSeeOut
  <2>2. CASE ~WorkerReturn(w)
    BY <1>9, <1>0, <1>a, <1>c, <1>d, <1>e, <2>2
       DEF WorkerSeeOut, TurnHeld, TaskInWorker, Busy
  <2> QED BY <2>1, <2>2
<1>10. CASE WorkerPanicAck(w)
  <2>1. CASE WorkerReturn(w)
    BY <1>10, <1>a, <2>1, ReturnTurn DEF WorkerPanicAck
  <2>2. CASE ~WorkerReturn(w)
    BY <1>10, <1>0, <1>a, <1>c, <1>d, <1>e, <2>2
       DEF WorkerPanicAck, TurnHeld, TaskInWorker, Busy
  <2> QED BY <2>1, <2>2
<1> QED BY <1>1, <1>2, <1>3, <1>4, <1>5, <1>6, <1>7, <1>8, <1>9, <1>10
       DEF WorkerNext

\* A task moves on within its worker's wait for it.
LEMMA TaskTurn ==
    ASSUME IInv, NEW w \in Sessions, TaskNext(w)
    PROVE  TurnHeld' /\ TaskInWorker'
<1> USE DEF turnVars, workerVars
<1>0. TypeOK /\ TurnHeld /\ TaskInWorker
  BY DEF IInv
<1>a. (\A v \in Sessions : Over(v)' = Over(v)) /\ session' = session
  BY OverUnchanged
<1>1. /\ UNCHANGED <<turn, pc, tcmd>>
      /\ tpc[w] # "none"
      /\ \E t \in TaskPCs : tpc' = [tpc EXCEPT ![w] = t]
  BY DEF TaskNext, TaskPCs,
         TaskStart, HandlerEnds, TaskAck, TaskConfig, TaskCancelled
<1>2. tpc \in [Sessions -> TaskPCs]
  BY <1>0 DEF TypeOK
<1> QED BY <1>0, <1>a, <1>1, <1>2 DEF TurnHeld, TaskInWorker, Busy

-----------------------------------------------------------------------------

\* The invariant holds initially.
LEMMA InitInv == Init => IInv
<1> SUFFICES ASSUME Init PROVE IInv
  OBVIOUS
<1>1. <<>> \in Seq(QueuedFrames) /\ Len(<<>>) = 0
  BY EmptySeq
<1>2. <<>> \in Seq(CommandFrames) /\ <<>> \in Seq(Cmds) /\ <<>> \in Seq(1..Drainer)
  BY EmptySeq
<1>3. TypeOK
  <2>1. /\ 0 \in 0..MaxSessions /\ 0 \in 0..MaxCmds /\ 0 \in 0..Drainer
        /\ 0 <= OutboundSize /\ QueueBytes \in Int
    BY BoundsAssumption, DrainerType
  <2>2. /\ fate \in [Cmds -> Fates] /\ pc \in [Sessions -> WorkerPCs]
        /\ tpc \in [Sessions -> TaskPCs] /\ run \in RunStates
    BY DEF Init, Fates, WorkerPCs, TaskPCs, RunStates
  <2>3. /\ tcmd \in [Sessions -> 0..MaxCmds] /\ late \in [Sessions -> Nat]
        /\ free \in [Sessions -> Int] /\ queue \in [Sessions -> Seq(Cmds)]
    BY <1>2, <2>1 DEF Init
  <2>4. /\ outbound \in Seq(QueuedFrames) /\ Len(outbound) <= OutboundSize
        /\ wire \in Seq(CommandFrames) /\ turnQ \in Seq(1..Drainer)
    BY <1>1, <1>2, <2>1 DEF Init
  <2> QED BY <2>1, <2>2, <2>3, <2>4 DEF Init, TypeOK, NoOne
<1>4. TurnHeld /\ TaskInWorker
  BY DEF Init, TurnHeld, TaskInWorker, Busy
<1> QED BY <1>3, <1>4 DEF IInv

\* Every step keeps it.
LEMMA NextInv == IInv /\ [Next]_vars => IInv'
<1> SUFFICES ASSUME IInv, [Next]_vars PROVE IInv'
  OBVIOUS
<1>1. CASE LoopNext \/ RequestShutdown \/ VendorEmit
  BY <1>1, LoopType, LoopTurn DEF IInv
<1>2. ASSUME NEW w \in Sessions, WorkerNext(w)
      PROVE  IInv'
  BY <1>2, WorkerType, WorkerTurn DEF IInv
<1>3. ASSUME NEW w \in Sessions, TaskNext(w)
      PROVE  IInv'
  BY <1>3, WorkerType, TaskTurn DEF IInv
<1>4. CASE UNCHANGED vars
  BY <1>4 DEF IInv, TypeOK, TurnHeld, TaskInWorker, Busy, Over, vars, loopVars,
              chanVars, cmdVars, turnVars, workerVars
<1> QED BY <1>1, <1>2, <1>3, <1>4 DEF Next, Terminated

\* The variables of CommandLink keep their types: run() and the workers stay
\* within their states, and the outbound channel within its capacity.
THEOREM TypeCorrect == Spec => []TypeOK
<1>1. IInv => TypeOK
  BY DEF IInv
<1> QED BY InitInv, NextInv, <1>1, PTL DEF Spec

\* Vendor handlers get one command at a time, across reconnects too: two
\* commands are never under way at once, and the worker of the one that is
\* holds the command turn (run_commands).
THEOREM CommandsNeverOverlap == Spec => []OneAtATime
<1>1. IInv => OneAtATime
  BY DEF IInv, TurnHeld, TaskInWorker, OneAtATime, Busy
<1> QED BY InitInv, NextInv, <1>1, PTL DEF Spec

-----------------------------------------------------------------------------
(* Late starts.                                                             *)

\* A worker that has taken a command late is past the point of taking, and its
\* session is over, so the token turns it away the next time round.
LateOnce ==
    \A w \in Sessions :
      late[w] = 0 \/ (late[w] = 1 /\ Over(w) /\ pc[w] # "take")

\* Every step keeps it.
LEMMA LateOnceNext == IInv /\ LateOnce /\ [Next]_vars => LateOnce'
<1> SUFFICES ASSUME IInv, LateOnce, [Next]_vars PROVE LateOnce'
  OBVIOUS
<1>a. /\ late \in [Sessions -> Nat] /\ pc \in [Sessions -> WorkerPCs]
      /\ tpc \in [Sessions -> TaskPCs]
  BY DEF IInv, TypeOK
<1>1. CASE LoopNext \/ RequestShutdown \/ VendorEmit
  <2>1. late' = late
    BY <1>1 DEF workerVars, LoopNext,
                Connect, RouteCommand, RoutePing, TakeOutbound, Heartbeat,
                WriteDone, ManagerClose, EndInbound, EndLost, EndShutdown,
                CancelSession, WriteClose, BreakLoop, StartDrain, DrainDone,
                DrainTimeout, RequestShutdown, VendorEmit
  <2>2. pc' = pc \/ pc' = [pc EXCEPT ![session + 1] = "spawned"]
    BY <1>1 DEF workerVars, LoopNext,
                Connect, RouteCommand, RoutePing, TakeOutbound, Heartbeat,
                WriteDone, ManagerClose, EndInbound, EndLost, EndShutdown,
                CancelSession, WriteClose, BreakLoop, StartDrain, DrainDone,
                DrainTimeout, RequestShutdown, VendorEmit
  <2>3. \A w \in Sessions : Over(w) => Over(w)'
    BY <1>1, OverStable
  <2> QED BY <1>a, <2>1, <2>2, <2>3 DEF LateOnce
<1>2. ASSUME NEW w \in Sessions, WorkerNext(w)
      PROVE  LateOnce'
  <2>1. \A v \in Sessions : Over(v)' = Over(v)
    BY <1>2, OverUnchanged
  <2>2. CASE WorkerTake(w)
    <3>1. pc[w] = "take" /\ late[w] = 0
      BY <2>2 DEF WorkerTake, LateOnce
    <3>2. \E p \in {"run", "done"} : pc' = [pc EXCEPT ![w] = p]
      BY <2>2 DEF WorkerTake, WorkerReturn
    <3>3. late' = late \/ (Over(w) /\ late' = [late EXCEPT ![w] = late[w] + 1])
      BY <1>a, <2>2 DEF WorkerTake
    <3> QED BY <1>a, <2>1, <3>1, <3>2, <3>3 DEF LateOnce
  <2>3. CASE ~WorkerTake(w)
    <3>1. late' = late
      BY <1>2, <2>3 DEF WorkerNext, workerVars,
                WorkerSpawn, WorkerAsk, WorkerGranted, WorkerGiveUp,
                WorkerPoll, WorkerTake, WorkerJoined, WorkerSessionOver,
                WorkerSeeOut, WorkerPanicAck
    <3>2. \E p \in WorkerPCs :
            /\ pc' = [pc EXCEPT ![w] = p]
            /\ p = "take" => ~Over(w)
      BY <1>2, <2>3 DEF WorkerNext, WorkerPCs, WorkerReturn, TokenCancelled,
                WorkerSpawn, WorkerAsk, WorkerGranted, WorkerGiveUp,
                WorkerPoll, WorkerTake, WorkerJoined, WorkerSessionOver,
                WorkerSeeOut, WorkerPanicAck
    <3> QED BY <1>a, <2>1, <3>1, <3>2 DEF LateOnce
  <2> QED BY <2>2, <2>3
<1>3. ASSUME NEW w \in Sessions, TaskNext(w)
      PROVE  LateOnce'
  <2>1. \A v \in Sessions : Over(v)' = Over(v)
    BY <1>3, OverUnchanged
  <2>2. late' = late /\ pc' = pc
    BY <1>3 DEF TaskNext, TaskStart, HandlerEnds, TaskAck, TaskConfig,
                TaskCancelled
  <2> QED BY <2>1, <2>2 DEF LateOnce
<1>4. CASE UNCHANGED vars
  BY <1>4 DEF LateOnce, Over, vars, loopVars, workerVars
<1> QED BY <1>1, <1>2, <1>3, <1>4 DEF Next, Terminated

\* However tasks are scheduled, a session that has ended costs at most one
\* more started command: the worker takes none the next time it looks at
\* session_over (run_commands).
THEOREM AtMostOneLateStart == Spec => []LateStartsBounded
<1>1. Init => LateOnce
  BY DEF Init, LateOnce
<1>2. LateOnce => LateStartsBounded
  BY DEF LateOnce, LateStartsBounded
<1> QED BY InitInv, NextInv, LateOnceNext, <1>1, <1>2, PTL DEF Spec

-----------------------------------------------------------------------------
(* The order of starts.                                                     *)

\* A queue holds commands in the order they came, an older session's all came
\* before a newer one's, and a worker that may still take a command has none
\* that came before one already started.
Ordered ==
    /\ \A w \in Sessions : \A i, j \in DOMAIN queue[w] :
         i < j => queue[w][i] < queue[w][j]
    /\ \A w \in Sessions : \A i \in DOMAIN queue[w] :
         queue[w][i] <= sent /\ w <= session
    /\ \A v, w \in Sessions : v < w =>
         \A i \in DOMAIN queue[v], j \in DOMAIN queue[w] :
           queue[v][i] < queue[w][j]
    /\ \A d \in Cmds : fate[d] = "started" => d <= sent
    /\ \A w \in Sessions : pc[w] = "take" \/ ~Over(w) =>
         \A d \in Cmds, i \in DOMAIN queue[w] :
           fate[d] = "started" => d < queue[w][i]

\* A step that starts a command finds no later one started.
NoneSkipped ==
    \A c, d \in Cmds :
      /\ fate[c] # "started" /\ fate'[c] = "started"
      /\ fate[d] = "started"
      => d < c

\* What a queue holds are commands, numbered from one.
LEMMA QueueElements ==
    ASSUME IInv
    PROVE  \A w \in Sessions :
             /\ w \in Nat /\ queue[w] \in Seq(Cmds) /\ Len(queue[w]) \in Nat
             /\ DOMAIN queue[w] = 1..Len(queue[w])
             /\ \A i \in DOMAIN queue[w] :
                  queue[w][i] \in Cmds /\ queue[w][i] \in Nat
<1>1. queue \in [Sessions -> Seq(Cmds)] /\ Sessions \subseteq Nat
  BY BoundsAssumption DEF IInv, TypeOK, Sessions
<1>2. Cmds \subseteq Nat
  BY BoundsAssumption DEF Cmds
<1> QED BY <1>1, <1>2, LenProperties, ElementOfSeq

\* A step that starts nothing skips nothing.
LEMMA NothingStarted ==
    ASSUME \A c \in Cmds : fate'[c] = "started" => fate[c] = "started"
    PROVE  NoneSkipped
BY DEF NoneSkipped

\* A step that leaves queues and fates alone, or empties queues.
LEMMA OnlyFewer ==
    ASSUME IInv, Ordered, session' \in Nat, session <= session', sent' = sent,
           \A w \in Sessions : queue'[w] = queue[w] \/ queue'[w] = <<>>,
           \A c \in Cmds : fate'[c] = "started" => fate[c] = "started",
           \A w \in Sessions :
             (pc'[w] = "take" \/ ~Over(w)') /\ queue'[w] # <<>>
               => pc[w] = "take" \/ ~Over(w)
    PROVE  Ordered' /\ NoneSkipped
<1>1. NoneSkipped
  BY NothingStarted
<1>2. DOMAIN <<>> = {}
  OBVIOUS
<1>3. \A w \in Sessions : w \in Nat
  BY BoundsAssumption DEF Sessions
<1>4. session \in Nat
  BY BoundsAssumption DEF IInv, TypeOK
<1>5. \A w \in Sessions : \A i \in DOMAIN queue'[w] :
        queue'[w] = queue[w] /\ queue'[w] # <<>>
  BY <1>2
<1>6. \A w \in Sessions : \A i, j \in DOMAIN queue'[w] :
        i < j => queue'[w][i] < queue'[w][j]
  BY <1>5 DEF Ordered
<1>7. \A w \in Sessions : \A i \in DOMAIN queue'[w] :
        queue'[w][i] <= sent' /\ w <= session'
  BY <1>3, <1>4, <1>5, QueueElements DEF Ordered
<1>8. \A v, w \in Sessions : v < w =>
        \A i \in DOMAIN queue'[v], j \in DOMAIN queue'[w] :
          queue'[v][i] < queue'[w][j]
  BY <1>5 DEF Ordered
<1>9. \A w \in Sessions : pc'[w] = "take" \/ ~Over(w)' =>
        \A d \in Cmds, i \in DOMAIN queue'[w] :
          fate'[d] = "started" => d < queue'[w][i]
  BY <1>5 DEF Ordered
<1> QED BY <1>1, <1>6, <1>7, <1>8, <1>9 DEF Ordered

\* A routed command goes to the end of the newest queue with a number past
\* every other's.
LEMMA RouteOrdered ==
    ASSUME IInv, Ordered, RouteCommand PROVE Ordered' /\ NoneSkipped
<1>1. /\ sent \in Nat /\ sent + 1 \in Cmds /\ sent' = sent + 1
      /\ session \in Nat /\ session' = session
      /\ UNCHANGED <<pc, run>>
      /\ fate \in [Cmds -> Fates]
      /\ \/ fate' = [fate EXCEPT ![sent + 1] = "queued"]
         \/ fate' = [fate EXCEPT ![sent + 1] = "refused"]
  BY BoundsAssumption DEF RouteCommand, IInv, TypeOK, Cmds, workerVars
<1>2. Cmds \subseteq Nat
  BY BoundsAssumption DEF Cmds
<1>3. \A d \in Cmds : fate'[d] = "started" => fate[d] = "started"
  BY <1>1
<1>4. \A d \in Cmds : fate'[d] = "started" => d <= sent
  BY <1>3 DEF Ordered
<1>5. \A w \in Sessions : Over(w)' = Over(w)
  BY <1>1 DEF Over
<1>6. \A w \in Sessions : \A i \in DOMAIN queue[w] :
        queue[w][i] \in Nat /\ queue[w][i] <= sent /\ w <= session
  BY QueueElements DEF Ordered
<1>7. \A w \in Sessions : w \in Nat
  BY BoundsAssumption DEF Sessions
<1>8. CASE queue' = queue
  <2>1. \A w \in Sessions : \A i \in DOMAIN queue'[w] :
          queue'[w][i] <= sent' /\ w <= session'
    BY <1>1, <1>6, <1>8
  <2>2. \A d \in Cmds : fate'[d] = "started" => d <= sent'
    BY <1>1, <1>2, <1>4
  <2>3. \A w \in Sessions : pc'[w] = "take" \/ ~Over(w)' =>
          \A d \in Cmds, i \in DOMAIN queue'[w] :
            fate'[d] = "started" => d < queue'[w][i]
    BY <1>1, <1>3, <1>5, <1>8 DEF Ordered
  <2> QED BY <1>3, <1>8, <2>1, <2>2, <2>3, NothingStarted DEF Ordered
<1>9. CASE queue' # queue
  <2>1. /\ queue' = [queue EXCEPT ![session] = Append(queue[session], sent + 1)]
        /\ queue \in [Sessions -> Seq(Cmds)]
    BY <1>9 DEF RouteCommand, IInv, TypeOK
  <2>2. session \in Sessions
    BY <1>9, <2>1
  <2>3. /\ queue'[session] = Append(queue[session], sent + 1)
        /\ \A w \in Sessions : w # session => queue'[w] = queue[w]
    BY <2>1, <2>2
  <2>4. PICK n \in Nat : DOMAIN queue[session] = 1..n /\ n = Len(queue[session])
    BY <2>2, QueueElements
  <2>5. /\ DOMAIN queue'[session] = 1..(n + 1)
        /\ queue'[session][n + 1] = sent + 1
        /\ \A i \in 1..n : queue'[session][i] = queue[session][i]
    <3>1. queue[session] \in Seq(Cmds)
      BY <2>1, <2>2
    <3>2. Append(queue[session], sent + 1) \in Seq(Cmds)
      BY <1>1, <3>1, AppendProperties
    <3>3. Len(Append(queue[session], sent + 1)) = n + 1
      BY <1>1, <2>4, <3>1, AppendProperties
    <3> QED BY <1>1, <2>3, <2>4, <3>1, <3>2, <3>3, AppendProperties,
               LenProperties
  <2>6. \A w \in Sessions : \A i \in DOMAIN queue'[w] :
          \/ i \in DOMAIN queue[w] /\ queue'[w][i] = queue[w][i]
          \/ w = session /\ i = n + 1 /\ queue'[w][i] = sent + 1
    BY <2>3, <2>4, <2>5
  <2>7. \A w \in Sessions : \A i \in DOMAIN queue'[w] :
          queue'[w][i] <= sent' /\ w <= session'
    BY <1>1, <1>6, <1>7, <2>6
  <2>8. \A w \in Sessions : \A i, j \in DOMAIN queue'[w] :
          i < j => queue'[w][i] < queue'[w][j]
    <3>1. ASSUME NEW i \in DOMAIN queue'[session],
                 NEW j \in DOMAIN queue'[session], i < j
          PROVE  queue'[session][i] < queue'[session][j]
      <4>1. i \in 1..n /\ queue'[session][i] = queue[session][i]
        BY <2>5, <3>1
      <4>2. CASE j = n + 1
        BY <1>1, <1>6, <2>2, <2>4, <2>5, <4>1, <4>2
      <4>3. CASE j # n + 1
        <5>1. j \in 1..n /\ queue'[session][j] = queue[session][j]
          BY <2>5, <4>3
        <5> QED BY <2>2, <2>4, <3>1, <4>1, <5>1 DEF Ordered
      <4> QED BY <4>2, <4>3
    <3>2. ASSUME NEW w \in Sessions, w # session
          PROVE  \A i, j \in DOMAIN queue'[w] :
                   i < j => queue'[w][i] < queue'[w][j]
      BY <2>3, <3>2 DEF Ordered
    <3> QED BY <3>1, <3>2
  <2>9. \A v, w \in Sessions : v < w =>
          \A i \in DOMAIN queue'[v], j \in DOMAIN queue'[w] :
            queue'[v][i] < queue'[w][j]
    <3>1. ASSUME NEW v \in Sessions, NEW w \in Sessions, v < w,
                 NEW i \in DOMAIN queue'[v], NEW j \in DOMAIN queue'[w]
          PROVE  queue'[v][i] < queue'[w][j]
      <4>1. v # session
        BY <1>1, <1>7, <2>7, <3>1
      <4>2. i \in DOMAIN queue[v] /\ queue'[v][i] = queue[v][i]
        BY <2>3, <3>1, <4>1
      <4>3. queue'[v][i] \in Nat /\ queue'[v][i] <= sent
        BY <1>6, <3>1, <4>2
      <4>4. CASE j \in DOMAIN queue[w] /\ queue'[w][j] = queue[w][j]
        BY <3>1, <4>2, <4>4 DEF Ordered
      <4>5. CASE queue'[w][j] = sent + 1
        BY <1>1, <4>3, <4>5
      <4> QED BY <2>6, <3>1, <4>4, <4>5
    <3> QED BY <3>1
  <2>10. \A d \in Cmds : fate'[d] = "started" => d <= sent'
    BY <1>1, <1>2, <1>4
  <2>11. \A w \in Sessions : pc'[w] = "take" \/ ~Over(w)' =>
           \A d \in Cmds, i \in DOMAIN queue'[w] :
             fate'[d] = "started" => d < queue'[w][i]
    <3>1. ASSUME NEW w \in Sessions, pc[w] = "take" \/ ~Over(w),
                 NEW d \in Cmds, NEW i \in DOMAIN queue'[w],
                 fate'[d] = "started"
          PROVE  d < queue'[w][i]
      <4>1. fate[d] = "started" /\ d \in Nat /\ d <= sent
        BY <1>2, <1>3, <1>4, <3>1
      <4>2. CASE i \in DOMAIN queue[w] /\ queue'[w][i] = queue[w][i]
        BY <3>1, <4>1, <4>2 DEF Ordered
      <4>3. CASE queue'[w][i] = sent + 1
        BY <1>1, <4>1, <4>3
      <4> QED BY <2>6, <3>1, <4>2, <4>3
    <3> QED BY <1>1, <1>5, <3>1
  <2> QED BY <1>3, <2>7, <2>8, <2>9, <2>10, <2>11, NothingStarted DEF Ordered
<1> QED BY <1>8, <1>9

\* A worker takes the first of its queue, which came after all that started and
\* before all that may still start.
LEMMA TakeOrdered ==
    ASSUME IInv, Ordered, NEW w \in Sessions, WorkerTake(w), queue[w] # <<>>
    PROVE  Ordered' /\ NoneSkipped
<1> DEFINE c == Head(queue[w])
<1>1. /\ pc[w] = "take" /\ turn = w
      /\ pc \in [Sessions -> WorkerPCs] /\ pc' = [pc EXCEPT ![w] = "run"]
      /\ queue \in [Sessions -> Seq(Cmds)]
      /\ queue' = [queue EXCEPT ![w] = Tail(queue[w])]
      /\ fate \in [Cmds -> Fates] /\ fate' = [fate EXCEPT ![c] = "started"]
      /\ UNCHANGED <<run, session, sent>> /\ session \in Nat /\ sent \in Nat
  BY BoundsAssumption DEF WorkerTake, WorkerReturn, IInv, TypeOK, TurnHeld,
                          loopVars
<1>2. Cmds \subseteq Nat /\ Sessions \subseteq Nat
  BY BoundsAssumption DEF Cmds, Sessions
<1>3. \A v \in Sessions : Over(v)' = Over(v)
  BY <1>1 DEF Over
<1>4. PICK n \in Nat : DOMAIN queue[w] = 1..n /\ n = Len(queue[w])
  BY QueueElements
<1>5. /\ 1 \in DOMAIN queue[w] /\ c = queue[w][1] /\ c \in Cmds
      /\ queue'[w] \in Seq(Cmds) /\ Len(queue'[w]) = n - 1
      /\ \A i \in 1..(n - 1) : queue'[w][i] = queue[w][i + 1]
      /\ DOMAIN queue'[w] = 1..(n - 1)
  <2>1. queue[w] \in Seq(Cmds) /\ queue'[w] = Tail(queue[w])
    BY <1>1
  <2>2. n # 0
    BY <1>4, <2>1, EmptySeq
  <2>3. /\ Head(queue[w]) = queue[w][1] /\ Head(queue[w]) \in Cmds
        /\ Tail(queue[w]) \in Seq(Cmds)
        /\ Len(Tail(queue[w])) = Len(queue[w]) - 1
        /\ \A i \in 1..Len(Tail(queue[w])) : Tail(queue[w])[i] = queue[w][i + 1]
    BY <2>1, HeadTailProperties
  <2> QED BY <1>4, <2>1, <2>2, <2>3, LenProperties
<1>6. \A v \in Sessions : v # w => queue'[v] = queue[v]
  BY <1>1
<1> HIDE DEF c
\* What is left of a queue was in it before, and past its head.
<1>7. \A v \in Sessions : \A i \in DOMAIN queue'[v] :
        \E k \in DOMAIN queue[v] :
          /\ queue'[v][i] = queue[v][k]
          /\ v = w => k = i + 1
          /\ v # w => k = i
  <2>1. ASSUME NEW i \in DOMAIN queue'[w]
        PROVE  i + 1 \in DOMAIN queue[w] /\ queue'[w][i] = queue[w][i + 1]
    BY <1>4, <1>5, <2>1
  <2> QED BY <1>6, <2>1
<1>8. \A i \in DOMAIN queue'[w] : i \in Nat /\ i > 0 /\ i + 1 \in DOMAIN queue[w]
                                 /\ queue'[w][i] = queue[w][i + 1]
  BY <1>4, <1>5
<1>9. \A v \in Sessions : \A i, j \in DOMAIN queue'[v] :
        i < j => queue'[v][i] < queue'[v][j]
  <2>1. ASSUME NEW i \in DOMAIN queue'[w], NEW j \in DOMAIN queue'[w], i < j
        PROVE  queue'[w][i] < queue'[w][j]
    <3>1. i + 1 < j + 1
      BY <1>8, <2>1
    <3> QED BY <1>8, <2>1, <3>1 DEF Ordered
  <2>2. \A v \in Sessions : v # w =>
          \A i, j \in DOMAIN queue'[v] : i < j => queue'[v][i] < queue'[v][j]
    BY <1>6 DEF Ordered
  <2> QED BY <2>1, <2>2
<1>10. \A v \in Sessions : \A i \in DOMAIN queue'[v] :
         queue'[v][i] <= sent' /\ v <= session'
  BY <1>1, <1>7 DEF Ordered
<1>11. \A u, v \in Sessions : u < v =>
         \A i \in DOMAIN queue'[u], j \in DOMAIN queue'[v] :
           queue'[u][i] < queue'[v][j]
  BY <1>7 DEF Ordered
<1>12. \A d \in Cmds : fate'[d] = "started" => d = c \/ fate[d] = "started"
  BY <1>1, <1>5 DEF c
<1>13. \A d \in Cmds : fate[d] = "started" => d < c
  BY <1>1, <1>5 DEF Ordered
<1>14. \A d \in Cmds : fate'[d] = "started" => d <= sent'
  BY <1>1, <1>5, <1>12 DEF Ordered
<1>15. \A v \in Sessions : pc'[v] = "take" \/ ~Over(v)' =>
         \A d \in Cmds, i \in DOMAIN queue'[v] :
           fate'[d] = "started" => d < queue'[v][i]
  <2>1. ASSUME NEW v \in Sessions, pc'[v] = "take" \/ ~Over(v)',
               NEW d \in Cmds, NEW i \in DOMAIN queue'[v],
               fate'[d] = "started"
        PROVE  d < queue'[v][i]
    <3>1. v # w => pc[v] # "take"
      BY <1>1 DEF IInv, TurnHeld
    <3>2. ~Over(v)
      BY <1>1, <1>3, <2>1, <3>1
    <3>3. CASE fate[d] = "started"
      BY <1>7, <2>1, <3>2, <3>3 DEF Ordered
    <3>4. CASE d = c /\ v = w
      <4>1. i \in DOMAIN queue'[w]
        BY <2>1, <3>4
      <4>2. i \in Nat /\ i > 0 /\ i + 1 \in DOMAIN queue[w]
        BY <1>8, <4>1
      <4>3. queue'[w][i] = queue[w][i + 1] /\ 1 < i + 1
        BY <1>8, <4>1, <4>2
      <4> QED BY <1>5, <3>4, <4>2, <4>3 DEF Ordered
    <3>5. CASE d = c /\ v # w
      <4>1. w <= session
        BY <1>5 DEF Ordered
      <4>2. ~(v < session)
        BY <3>2 DEF Over
      <4>3. w < v
        BY <1>1, <1>2, <2>1, <3>5, <4>1, <4>2
      <4> QED BY <1>5, <1>6, <2>1, <3>5, <4>3 DEF Ordered
    <3> QED BY <1>12, <2>1, <3>3, <3>4, <3>5
  <2> QED BY <2>1
<1>16. NoneSkipped
  <2>1. \A d, e \in Cmds :
          fate[d] # "started" /\ fate'[d] = "started" /\ fate[e] = "started"
            => e < d
    BY <1>12, <1>13
  <2> QED BY <2>1 DEF NoneSkipped
<1> QED BY <1>9, <1>10, <1>11, <1>14, <1>15, <1>16 DEF Ordered

\* Every step keeps the order.
LEMMA OrderedNext == IInv /\ Ordered /\ [Next]_vars => Ordered' /\ NoneSkipped
<1> SUFFICES ASSUME IInv, Ordered, [Next]_vars PROVE Ordered' /\ NoneSkipped
  OBVIOUS
<1>a. /\ session \in Nat /\ pc \in [Sessions -> WorkerPCs]
      /\ queue \in [Sessions -> Seq(Cmds)] /\ Sessions \subseteq Nat
  BY BoundsAssumption DEF IInv, TypeOK, Sessions
<1>1. CASE RouteCommand
  BY <1>1, RouteOrdered
<1>2. CASE Connect
  <2>1. /\ session' = session + 1 /\ UNCHANGED <<sent, fate, queue>>
        /\ pc' = [pc EXCEPT ![session + 1] = "spawned"]
    BY <1>2 DEF Connect, cmdVars
  <2>2. \A w \in Sessions : queue'[w] # <<>> => w <= session
    <3>1. ASSUME NEW w \in Sessions, queue'[w] # <<>> PROVE w <= session
      <4>1. 1 \in DOMAIN queue[w]
        BY <2>1, <3>1, QueueElements, EmptySeq
      <4> QED BY <4>1 DEF Ordered
    <3> QED BY <3>1
  <2>3. \A w \in Sessions : ~Over(w)' => w > session
    BY <1>a, <2>1 DEF Over
  <2>4. \A w \in Sessions : pc'[w] = "take" => pc[w] = "take"
    BY <1>a, <2>1
  <2>5. \A w \in Sessions :
          (pc'[w] = "take" \/ ~Over(w)') /\ queue'[w] # <<>>
            => pc[w] = "take" \/ ~Over(w)
    BY <1>a, <2>2, <2>3, <2>4
  <2>6. session' \in Nat /\ session <= session'
    BY <1>a, <2>1
  <2> QED BY <2>1, <2>5, <2>6, OnlyFewer
<1>3. CASE (LoopNext \/ RequestShutdown \/ VendorEmit)
           /\ ~RouteCommand /\ ~Connect
  <2>1. UNCHANGED <<session, sent, fate, queue, pc>>
    BY <1>3 DEF LoopNext, loopVars, cmdVars, workerVars,
                RoutePing, TakeOutbound, Heartbeat,
                WriteDone, ManagerClose, EndInbound, EndLost, EndShutdown,
                CancelSession, WriteClose, BreakLoop, StartDrain, DrainDone,
                DrainTimeout, RequestShutdown, VendorEmit
  <2>2. \A w \in Sessions : Over(w) => Over(w)'
    BY <1>3, OverStable
  <2> QED BY <1>a, <2>1, <2>2, OnlyFewer
<1>4. ASSUME NEW w \in Sessions, WorkerNext(w)
      PROVE  Ordered' /\ NoneSkipped
  <2>1. \A v \in Sessions : Over(v)' = Over(v) /\ session' = session
    BY <1>4, OverUnchanged
  <2>2. CASE WorkerTake(w) /\ queue[w] # <<>>
    BY <2>2, TakeOrdered
  <2>3. CASE ~(WorkerTake(w) /\ queue[w] # <<>>)
    <3>1. /\ sent' = sent
          /\ UNCHANGED <<queue, fate>> \/ DropQueue(w)
      BY <1>4, <2>3
         DEF WorkerNext, cmdVars, WorkerReturn,
             WorkerSpawn, WorkerAsk, WorkerGranted, WorkerGiveUp, WorkerPoll,
             WorkerTake, WorkerJoined, WorkerSessionOver, WorkerSeeOut,
             WorkerPanicAck
    <3>2. \E p \in WorkerPCs :
            /\ pc' = [pc EXCEPT ![w] = p]
            /\ p = "take" => ~Over(w)
      BY <1>4, <2>3
         DEF WorkerNext, WorkerPCs, WorkerReturn, TokenCancelled,
             WorkerSpawn, WorkerAsk, WorkerGranted, WorkerGiveUp, WorkerPoll,
             WorkerTake, WorkerJoined, WorkerSessionOver, WorkerSeeOut,
             WorkerPanicAck
    <3>3. \A v \in Sessions : queue'[v] = queue[v] \/ queue'[v] = <<>>
      BY <1>a, <3>1 DEF DropQueue
    <3>4. \A c \in Cmds : fate'[c] = "started" => fate[c] = "started"
      BY <3>1 DEF DropQueue
    <3>5. \A v \in Sessions : pc'[v] = "take" => pc[v] = "take" \/ ~Over(v)
      BY <1>a, <3>2
    <3>6. session' \in Nat /\ session <= session'
      BY <1>a, <1>4, <2>1
    <3> QED BY <2>1, <3>1, <3>3, <3>4, <3>5, <3>6, OnlyFewer
  <2> QED BY <2>2, <2>3
<1>5. ASSUME NEW w \in Sessions, TaskNext(w)
      PROVE  Ordered' /\ NoneSkipped
  <2>1. \A v \in Sessions : Over(v)' = Over(v) /\ session' = session
    BY <1>5, OverUnchanged
  <2>2. UNCHANGED <<sent, fate, queue, pc>>
    BY <1>5 DEF TaskNext, cmdVars, TaskStart, HandlerEnds, TaskAck,
                TaskConfig, TaskCancelled
  <2>3. session' \in Nat /\ session <= session'
    BY <1>a, <1>5, <2>1
  <2> QED BY <2>1, <2>2, <2>3, OnlyFewer
<1>6. CASE UNCHANGED vars
  <2>1. UNCHANGED <<run, session, sent, fate, queue, pc>>
    BY <1>6 DEF vars, loopVars, cmdVars, workerVars
  <2>2. \A w \in Sessions : Over(w)' = Over(w)
    BY <2>1 DEF Over
  <2> QED BY <1>a, <2>1, <2>2, OnlyFewer
<1> QED BY <1>1, <1>2, <1>3, <1>4, <1>5, <1>6 DEF Next, Terminated

\* Nothing is queued at first.
LEMMA OrderedInit == Init => Ordered
<1> SUFFICES ASSUME Init PROVE Ordered
  OBVIOUS
<1>1. \A w \in Sessions : DOMAIN queue[w] = {}
  BY DEF Init
<1>2. \A c \in Cmds : fate[c] # "started"
  BY DEF Init
<1> QED BY <1>1, <1>2 DEF Ordered

\* Commands start in the order the manager sent them, however the workers of
\* successive sessions interleave: the turn orders the workers, and a worker
\* whose session is over gets no further than the command it was about to take
\* (run_commands, route_inbound).
THEOREM StartsInOrder == Spec => StartOrder
<1>1. IInv /\ Ordered /\ [Next]_vars =>
        [\A c, d \in Cmds :
           /\ fate[c] # "started" /\ fate'[c] = "started"
           /\ fate[d] = "started"
           => d < c]_vars
  BY OrderedNext DEF NoneSkipped
<1> QED BY InitInv, NextInv, OrderedInit, OrderedNext, <1>1, PTL
       DEF Spec, StartOrder

-----------------------------------------------------------------------------
(* Shutdown.                                                                *)

\* After a drain that did not run out of time nobody runs, or is about to take,
\* a command.
DrainQuiet ==
    run = "exited" /\ ~abandoned =>
      \A w \in Sessions :
        pc[w] \notin {"take", "run", "panic", "seeout", "panicout"}

\* Every step keeps it: once run() has returned every session is over, and its
\* token turns every worker away.
LEMMA DrainQuietNext == IInv /\ DrainQuiet /\ [Next]_vars => DrainQuiet'
<1> SUFFICES ASSUME IInv, DrainQuiet, [Next]_vars,
                    run' = "exited" /\ ~abandoned'
             PROVE  \A w \in Sessions :
                      pc'[w] \notin {"take", "run", "panic", "seeout", "panicout"}
  BY DEF DrainQuiet
<1>a. /\ pc \in [Sessions -> WorkerPCs] /\ session \in Nat
      /\ Sessions \subseteq Nat /\ Drainer \notin Sessions
  BY BoundsAssumption DEF IInv, TypeOK, Sessions, Drainer
<1>1. CASE LoopNext \/ RequestShutdown \/ VendorEmit
  <2>1. CASE DrainDone
    BY <1>a, <2>1 DEF DrainDone, IInv, TurnHeld, workerVars
  <2>2. CASE DrainTimeout
    BY <2>2 DEF DrainTimeout
  <2>3. CASE RequestShutdown \/ VendorEmit
    BY <2>3 DEF RequestShutdown, VendorEmit, loopVars, workerVars, DrainQuiet
  <2>4. CASE LoopNext /\ ~DrainDone /\ ~DrainTimeout
    BY <2>4 DEF LoopNext, Connect, RouteCommand, RoutePing, TakeOutbound,
                Heartbeat, WriteDone, ManagerClose, EndInbound, EndLost,
                EndShutdown, CancelSession, WriteClose, BreakLoop, StartDrain
  <2> QED BY <1>1, <2>1, <2>2, <2>3, <2>4
<1>2. ASSUME NEW w \in Sessions, WorkerNext(w)
      PROVE  \A v \in Sessions :
               pc'[v] \notin {"take", "run", "panic", "seeout", "panicout"}
  <2>1. run = "exited" /\ ~abandoned
    BY <1>2
       DEF loopVars, WorkerNext,
           WorkerSpawn, WorkerAsk, WorkerGranted, WorkerGiveUp, WorkerPoll,
           WorkerTake, WorkerJoined, WorkerSessionOver, WorkerSeeOut,
           WorkerPanicAck
  <2>2. \A v \in Sessions :
          pc[v] \notin {"take", "run", "panic", "seeout", "panicout"}
    BY <2>1 DEF DrainQuiet
  <2>3. pc[w] = "poll" => Over(w)
    BY <1>a, <2>1 DEF Over, IInv, TaskInWorker
  <2>4. \E p \in {"poll", "ask", "wait", "done"} : pc' = [pc EXCEPT ![w] = p]
    BY <1>2, <2>2, <2>3
       DEF WorkerNext, WorkerReturn, TokenCancelled,
           WorkerSpawn, WorkerAsk, WorkerGranted, WorkerGiveUp, WorkerPoll,
           WorkerTake, WorkerJoined, WorkerSessionOver, WorkerSeeOut,
           WorkerPanicAck
  <2> QED BY <1>a, <2>2, <2>4
<1>3. ASSUME NEW w \in Sessions, TaskNext(w)
      PROVE  \A v \in Sessions :
               pc'[v] \notin {"take", "run", "panic", "seeout", "panicout"}
  BY <1>3 DEF DrainQuiet, loopVars, TaskNext, TaskStart, HandlerEnds, TaskAck,
              TaskConfig, TaskCancelled
<1>4. CASE UNCHANGED vars
  BY <1>4 DEF DrainQuiet, vars, loopVars, workerVars
<1> QED BY <1>1, <1>2, <1>3, <1>4 DEF Next, Terminated

\* run() returns with a command under way only when COMMAND_DRAIN_LIMIT has
\* passed, and none starts afterwards: the drain takes the turn, and with it
\* everybody else's leave to take a command (the end of run()).
THEOREM ShutdownCutsNoneOff == Spec => []NoCommandCutOff
<1>1. Init => DrainQuiet
  BY DEF Init, DrainQuiet
<1>2. IInv /\ DrainQuiet => NoCommandCutOff
  BY DEF IInv, TaskInWorker, DrainQuiet, NoCommandCutOff, Busy
<1> QED BY InitInv, NextInv, DrainQuietNext, <1>1, <1>2, PTL DEF Spec
=============================================================================

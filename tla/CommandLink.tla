---------------------------- MODULE CommandLink ----------------------------
(***************************************************************************)
(* How a manager's commands travel through one GatewayClient: the session  *)
(* loop (drive_session, route_inbound, refuse_busy, send_bounded), the     *)
(* command worker every session spawns (run_commands, run_command,         *)
(* finish_command), the command turn the workers of successive sessions    *)
(* share, the outbound channel the acks ride on (Emitter), the end of a    *)
(* session (run_session) and the shutdown drain at the end of run().       *)
(*                                                                         *)
(* The session loop is one task and every worker, and every command, is a  *)
(* task of its own on a multi-thread runtime, so each poll of a select! is *)
(* a step of its own: a worker reads session_over in one step and takes    *)
(* from its queue in the next.                                             *)
(*                                                                         *)
(* A definition directly above another and named after it with a suffix    *)
(* (WorkerAskDropsIt, EmitUnbounded...) is a plausible bug in the one      *)
(* below it.  No specification uses it: it shows that a property would     *)
(* notice.                                                                 *)
(*                                                                         *)
(* A command is the number of its arrival, a session the number of its     *)
(* authentication.  Frames that answer no command (stats, events,          *)
(* heartbeats, pongs) are all the one OtherFrame.                          *)
(***************************************************************************)
EXTENDS Integers, Sequences, FiniteSets

CONSTANTS
    MaxSessions,    \* bound: sessions a behaviour may authenticate
    MaxCmds,        \* bound: commands the manager may send
    QueueSize,      \* COMMAND_QUEUE_SIZE
    QueueBytes,     \* COMMAND_QUEUE_BYTES
    OutboundSize,   \* OUTBOUND_CHANNEL_SIZE
    Cost,           \* wire size of each command's frame
    GetConfig       \* the commands whose action is get_config

Cmds == 1..MaxCmds
Sessions == 1..MaxSessions

ASSUME BoundsAssumption ==
    /\ MaxSessions \in Nat \ {0}
    /\ MaxCmds \in Nat \ {0}
    /\ QueueSize \in Nat \ {0}
    /\ OutboundSize \in Nat \ {0}
    /\ QueueBytes \in Nat

\* MAX_INBOUND_WS_BYTES bounds a frame to a quarter of the budget, so every
\* command fits an empty queue.
ASSUME CostAssumption == Cost \in [Cmds -> 1..QueueBytes]

ASSUME GetConfigAssumption == GetConfig \subseteq Cmds

NoOne == 0
Drainer == MaxSessions + 1      \* run()'s own place in line for the turn

NoFrame == [kind |-> "none", cmd |-> 0]
OtherFrame == [kind |-> "other", cmd |-> 0]
CommandFrames == [kind : {"ack", "panic", "busy", "config"}, cmd : Cmds]
QueuedFrames == CommandFrames \cup {OtherFrame}

VARIABLES
    run,        \* where run() and run_session() are
    session,    \* sessions authenticated so far; the last one is current
    shutdown,   \* the shutdown token
    peerClosed, \* the reader has read the manager's Close
    hand,       \* the frame the session loop is writing, or NoFrame
    outbound,   \* the outbound channel
    outClosed,  \* outbound_rx.close() has been called
    wire,       \* the command frames written to some session's socket
    lost,       \* the frames taken off the channel and never written
    sent,       \* commands the session loops have routed
    fate,       \* what has become of each command
    queue,      \* each session's command queue
    free,       \* each session's command_budget permits left
    turn,       \* who holds the command turn
    turnQ,      \* who waits for it, in the order they asked
    pc,         \* where each session's worker is
    tpc,        \* where the command task each worker spawned is
    tcmd,       \* which command it runs
    late,       \* commands each worker took with its session already over
    abandoned   \* the drain gave up on a command still running

loopVars == <<run, session, peerClosed, hand>>
chanVars == <<outbound, outClosed, wire, lost>>
cmdVars == <<sent, fate, queue, free>>
turnVars == <<turn, turnQ>>
workerVars == <<pc, tpc, tcmd, late>>
vars == <<loopVars, shutdown, chanVars, cmdVars, turnVars, workerVars,
          abandoned>>

Fates == {"unsent", "queued", "refused", "started", "dropped"}

WorkerPCs == {"unborn", "spawned", "ask", "wait", "poll", "take", "run",
              "panic", "seeout", "panicout", "done"}

TaskPCs == {"none", "spawned", "handler", "ack", "config", "returned",
            "panicked", "cancelled"}

RunStates == {"down", "up", "ended", "stopping", "closing", "break",
              "drain", "exited"}

\* The session's token is cancelled right after its select! has resolved,
\* and only then; every earlier session's token already is.
Over(w) ==
    \/ w < session
    \/ w = session /\ run \notin {"up", "ended", "stopping"}

\* The session loop, and with it the sending half of the command queue, is
\* dropped when the select! resolves, one step before the token is cancelled.
SenderGone(w) == w < session \/ run # "up"

Init ==
    /\ run = "down" /\ session = 0 /\ shutdown = FALSE
    /\ peerClosed = FALSE /\ hand = NoFrame
    /\ outbound = <<>> /\ outClosed = FALSE /\ wire = <<>> /\ lost = {}
    /\ sent = 0 /\ fate = [c \in Cmds |-> "unsent"]
    /\ queue = [w \in Sessions |-> <<>>]
    /\ free = [w \in Sessions |-> QueueBytes]
    /\ turn = NoOne /\ turnQ = <<>>
    /\ pc = [w \in Sessions |-> "unborn"]
    /\ tpc = [w \in Sessions |-> "none"]
    /\ tcmd = [w \in Sessions |-> 0]
    /\ late = [w \in Sessions |-> 0]
    /\ abandoned = FALSE

-----------------------------------------------------------------------------
(* The command turn: a fair one-permit semaphore.  A released permit goes   *)
(* straight to the first in line.                                           *)

AskTurn(x) ==
    IF turn = NoOne
      THEN turn' = x /\ UNCHANGED turnQ
      ELSE turnQ' = Append(turnQ, x) /\ UNCHANGED turn

ReleaseTurn ==
    IF turnQ = <<>>
      THEN turn' = NoOne /\ UNCHANGED turnQ
      ELSE turn' = Head(turnQ) /\ turnQ' = Tail(turnQ)

\* Dropping the acquire future: give the permit back if it had been assigned,
\* else leave the line.
LeaveTurn(x) ==
    IF turn = x
      THEN ReleaseTurn
      ELSE /\ \E i \in 1..Len(turnQ) :
                /\ turnQ[i] = x
                /\ turnQ' = SubSeq(turnQ, 1, i - 1)
                              \o SubSeq(turnQ, i + 1, Len(turnQ))
           /\ UNCHANGED turn

(* The outbound channel.  A send waits for room and fails once closed.      *)

EmitUnbounded(f) ==
    \/ outClosed /\ UNCHANGED outbound
    \/ ~outClosed /\ outbound' = Append(outbound, f)

Emit(f) ==
    \/ outClosed /\ UNCHANGED outbound
    \/ /\ ~outClosed
       /\ Len(outbound) < OutboundSize
       /\ outbound' = Append(outbound, f)

-----------------------------------------------------------------------------
(* The session loop.                                                        *)

\* A connection authenticates: run_session makes the session's queue, budget
\* and token and spawns its worker.
Connect ==
    /\ run = "down"
    /\ session < MaxSessions
    /\ run' = "up"
    /\ session' = session + 1
    /\ peerClosed' = FALSE
    /\ hand' = NoFrame
    /\ pc' = [pc EXCEPT ![session + 1] = "spawned"]
    /\ UNCHANGED <<shutdown, chanVars, cmdVars, turnVars, tpc, tcmd, late,
                   abandoned>>

\* There is room for command c on the current session's queue: try_acquire of
\* its bytes, then try_send.
HasRoomByCount(c) == Len(queue[session]) < QueueSize

HasRoom(c) ==
    /\ Cost[c] <= free[session]
    /\ Len(queue[session]) < QueueSize

\* route_inbound on a command: queue it, or start writing a gateway_busy ack.
\* The bytes of a command the full queue hands back are given back here; in the
\* code that happens once its refusal is written, which nobody can tell, as only
\* the session loop takes from this budget, and it is what writes the refusal.
RouteCommand ==
    /\ run = "up" /\ hand = NoFrame
    /\ sent < MaxCmds
    /\ sent' = sent + 1
    /\ \/ /\ HasRoom(sent + 1)
          /\ fate' = [fate EXCEPT ![sent + 1] = "queued"]
          /\ queue' = [queue EXCEPT ![session] = Append(@, sent + 1)]
          /\ free' = [free EXCEPT ![session] = @ - Cost[sent + 1]]
          /\ UNCHANGED hand
       \/ /\ ~HasRoom(sent + 1)
          /\ fate' = [fate EXCEPT ![sent + 1] = "refused"]
          /\ hand' = [kind |-> "busy", cmd |-> sent + 1]
          /\ UNCHANGED <<queue, free>>
    /\ UNCHANGED <<run, session, peerClosed, shutdown, chanVars, turnVars,
                   workerVars, abandoned>>

\* A WebSocket ping or a ping envelope: answered from the loop.  Inbound
\* frames come first in the biased select, also the ones ahead of a Close.
RoutePing ==
    /\ run = "up" /\ hand = NoFrame
    /\ hand' = OtherFrame
    /\ UNCHANGED <<run, session, peerClosed, shutdown, chanVars, cmdVars,
                   turnVars, workerVars, abandoned>>

\* Inbound comes first in the biased select: with the manager's Close waiting
\* there, neither the outbound channel nor the heartbeat is looked at.
NothingInboundUnbiased == TRUE
NothingInboundInline == ~peerClosed /\ turn = NoOne
NothingInbound == ~peerClosed

TakeOutbound ==
    /\ run = "up" /\ hand = NoFrame
    /\ NothingInbound
    /\ outbound # <<>>
    /\ hand' = Head(outbound)
    /\ outbound' = Tail(outbound)
    /\ UNCHANGED <<run, session, peerClosed, shutdown, outClosed, wire, lost,
                   cmdVars, turnVars, workerVars, abandoned>>

\* The heartbeat is last in the biased select.
Heartbeat ==
    /\ run = "up" /\ hand = NoFrame
    /\ NothingInbound
    /\ outbound = <<>>
    /\ hand' = OtherFrame
    /\ UNCHANGED <<run, session, peerClosed, shutdown, chanVars, cmdVars,
                   turnVars, workerVars, abandoned>>

\* Only frames that answer a command are recorded.
Written(f) == IF f \in CommandFrames THEN Append(wire, f) ELSE wire
Dropped(f) == IF f \in CommandFrames THEN lost \cup {f} ELSE lost

\* send_bounded: the write completes, or it is refused because the manager
\* has closed the connection, which does not fail the session.
WriteDone ==
    /\ run = "up" /\ hand # NoFrame
    /\ hand' = NoFrame
    /\ \/ ~peerClosed /\ wire' = Written(hand) /\ UNCHANGED lost
       \/ peerClosed /\ lost' = Dropped(hand) /\ UNCHANGED wire
    /\ UNCHANGED <<run, session, peerClosed, shutdown, outbound, outClosed,
                   cmdVars, turnVars, workerVars, abandoned>>

\* The reader reads the manager's Close, at any moment of the loop, and
\* hands it over behind what it read before.
ManagerClose ==
    /\ run = "up" /\ ~peerClosed
    /\ peerClosed' = TRUE
    /\ UNCHANGED <<run, session, hand, shutdown, chanVars, cmdVars, turnVars,
                   workerVars, abandoned>>

\* The loop takes the Close, the end of the stream or its failure off the
\* inbound channel and returns.
EndInbound ==
    /\ run = "up" /\ hand = NoFrame
    /\ run' = "ended"
    /\ UNCHANGED <<session, peerClosed, hand, shutdown, chanVars, cmdVars,
                   turnVars, workerVars, abandoned>>

\* A write fails or stalls for WRITE_STALL_LIMIT, or the reader finds the
\* manager silent, which it can while the loop is held up in a write.
EndLost ==
    /\ run = "up"
    /\ run' = "ended"
    /\ hand' = NoFrame
    /\ lost' = Dropped(hand)
    /\ UNCHANGED <<session, peerClosed, shutdown, outbound, outClosed, wire,
                   cmdVars, turnVars, workerVars, abandoned>>

EndShutdown ==
    /\ run = "up" /\ shutdown
    /\ run' = "stopping"
    /\ UNCHANGED <<session, peerClosed, hand, shutdown, chanVars, cmdVars,
                   turnVars, workerVars, abandoned>>

\* session_over.cancel(), before anything else is awaited.
CancelSession ==
    /\ \/ run = "ended" /\ run' = "down"
       \/ run = "stopping" /\ run' = "closing"
    /\ UNCHANGED <<session, peerClosed, hand, shutdown, chanVars, cmdVars,
                   turnVars, workerVars, abandoned>>

\* The Close frame, bounded by CLOSE_SEND_TIMEOUT.  A frame the loop was
\* writing sits in tungstenite's buffer and goes out ahead of the Close if
\* the peer takes it.
WriteClose ==
    /\ run = "closing"
    /\ run' = "break"
    /\ hand' = NoFrame
    /\ \/ ~peerClosed /\ wire' = Written(hand) /\ UNCHANGED lost
       \/ lost' = Dropped(hand) /\ UNCHANGED wire
    /\ UNCHANGED <<session, peerClosed, shutdown, outbound, outClosed,
                   cmdVars, turnVars, workerVars, abandoned>>

-----------------------------------------------------------------------------
(* Shutdown.                                                                *)

RequestShutdown ==
    /\ ~shutdown
    /\ shutdown' = TRUE
    /\ UNCHANGED <<loopVars, chanVars, cmdVars, turnVars, workerVars,
                   abandoned>>

\* Shutdown seen while dialling, authenticating or backing off.
BreakLoop ==
    /\ run = "down" /\ shutdown
    /\ run' = "break"
    /\ UNCHANGED <<session, peerClosed, hand, shutdown, chanVars, cmdVars,
                   turnVars, workerVars, abandoned>>

\* Close the outbound channel, then ask for the turn.
StartDrain ==
    /\ run = "break"
    /\ run' = "drain"
    /\ outClosed' = TRUE
    /\ AskTurn(Drainer)
    /\ UNCHANGED <<session, peerClosed, hand, shutdown, outbound, wire, lost,
                   cmdVars, workerVars, abandoned>>

DrainDone ==
    /\ run = "drain" /\ turn = Drainer
    /\ run' = "exited"
    /\ ReleaseTurn
    /\ UNCHANGED <<session, peerClosed, hand, shutdown, chanVars, cmdVars,
                   workerVars, abandoned>>

DrainUnbounded == FALSE
DrainTimeout ==
    /\ run = "drain" /\ turn # Drainer
    /\ run' = "exited"
    /\ abandoned' = TRUE
    /\ LeaveTurn(Drainer)
    /\ UNCHANGED <<session, peerClosed, hand, shutdown, chanVars, cmdVars,
                   workerVars>>

-----------------------------------------------------------------------------
(* The command worker of session w.                                         *)

\* First poll of the select! over session_over and the turn.
WorkerSpawn(w) ==
    /\ pc[w] = "spawned"
    /\ pc' = [pc EXCEPT ![w] = IF Over(w) THEN "poll" ELSE "ask"]
    /\ UNCHANGED <<loopVars, shutdown, chanVars, cmdVars, turnVars, tpc, tcmd,
                   late, abandoned>>

\* Bound to `_` instead of `_turn`, the permit would go back at once.
WorkerAskDropsIt(w) ==
    /\ pc[w] = "ask"
    /\ pc' = [pc EXCEPT ![w] = "poll"]
    /\ UNCHANGED <<loopVars, shutdown, chanVars, cmdVars, turnVars, tpc, tcmd,
                   late, abandoned>>
WorkerAsk(w) ==
    /\ pc[w] = "ask"
    /\ pc' = [pc EXCEPT ![w] = IF turn = NoOne THEN "poll" ELSE "wait"]
    /\ AskTurn(w)
    /\ UNCHANGED <<loopVars, shutdown, chanVars, cmdVars, tpc, tcmd, late,
                   abandoned>>

WorkerGranted(w) ==
    /\ pc[w] = "wait" /\ turn = w
    /\ pc' = [pc EXCEPT ![w] = "poll"]
    /\ UNCHANGED <<loopVars, shutdown, chanVars, cmdVars, turnVars, tpc, tcmd,
                   late, abandoned>>

\* The session ended first: the worker gives up its place in the line.
WorkerWaitsOn(w) == FALSE
WorkerGiveUp(w) ==
    /\ pc[w] = "wait" /\ Over(w)
    /\ pc' = [pc EXCEPT ![w] = "poll"]
    /\ LeaveTurn(w)
    /\ UNCHANGED <<loopVars, shutdown, chanVars, cmdVars, tpc, tcmd, late,
                   abandoned>>

\* The queue is dropped: nothing in it will start.  Its byte budget goes with
\* the session loop that drew on it.
DropQueue(w) ==
    /\ queue' = [queue EXCEPT ![w] = <<>>]
    /\ fate' = [c \in Cmds |->
                  IF \E i \in DOMAIN queue[w] : queue[w][i] = c
                    THEN "dropped" ELSE fate[c]]

\* The worker returns: its queue and, if it holds it, the turn are dropped.
WorkerReturn(w) ==
    /\ pc' = [pc EXCEPT ![w] = "done"]
    /\ tpc' = [tpc EXCEPT ![w] = "none"]
    /\ DropQueue(w)
    /\ IF turn = w THEN ReleaseTurn ELSE UNCHANGED turnVars

\* What a worker about to take a command sees of its session's token.
TokenIgnored(w) == FALSE
TokenCancelled(w) == Over(w)

\* The biased select! of the command loop, first half: look at session_over.
\* A worker parked here is woken by the token, a command or the end of the
\* sending half.
WorkerPoll(w) ==
    /\ pc[w] = "poll"
    /\ \/ TokenCancelled(w) /\ WorkerReturn(w)
       \/ /\ ~TokenCancelled(w)
          /\ queue[w] # <<>> \/ SenderGone(w)
          /\ pc' = [pc EXCEPT ![w] = "take"]
          /\ UNCHANGED <<tpc, queue, fate, turnVars>>
    /\ UNCHANGED <<loopVars, shutdown, chanVars, sent, free, tcmd, late,
                   abandoned>>

\* Second half: take the next command and spawn its task, or return when the
\* queue is empty and nothing can send to it any more.
WorkerTake(w) ==
    /\ pc[w] = "take"
    /\ \/ /\ queue[w] # <<>>
          /\ queue' = [queue EXCEPT ![w] = Tail(@)]
          /\ fate' = [fate EXCEPT ![Head(queue[w])] = "started"]
          /\ late' = [late EXCEPT ![w] = IF Over(w) THEN @ + 1 ELSE @]
          /\ pc' = [pc EXCEPT ![w] = "run"]
          /\ tpc' = [tpc EXCEPT ![w] = "spawned"]
          /\ tcmd' = [tcmd EXCEPT ![w] = Head(queue[w])]
          /\ UNCHANGED turnVars
       \/ /\ queue[w] = <<>>
          /\ WorkerReturn(w)
          /\ UNCHANGED <<tcmd, late>>
    /\ UNCHANGED <<loopVars, shutdown, chanVars, sent, free, abandoned>>

\* The command's task has ended with the session still up, as far as the
\* worker has seen.
WorkerJoined(w) ==
    /\ pc[w] = "run"
    /\ \/ /\ tpc[w] \in {"returned", "panicked"}
          /\ pc' = [pc EXCEPT ![w] =
                      IF tpc[w] = "returned" THEN "poll" ELSE "panic"]
          /\ tpc' = [tpc EXCEPT ![w] = "none"]
          /\ UNCHANGED <<queue, fate, turnVars>>
       \/ tpc[w] = "cancelled" /\ WorkerReturn(w)
    /\ UNCHANGED <<loopVars, shutdown, chanVars, sent, free, tcmd, late,
                   abandoned>>

\* The session ends while the command runs: the queue goes now, the turn is
\* kept until the command has been seen out.
WorkerSessionOver(w) ==
    /\ pc[w] = "run" /\ Over(w)
    /\ pc' = [pc EXCEPT ![w] = "seeout"]
    /\ DropQueue(w)
    /\ UNCHANGED <<loopVars, shutdown, chanVars, sent, free, turnVars, tpc,
                   tcmd, late, abandoned>>

WorkerSeeOut(w) ==
    /\ pc[w] = "seeout"
    /\ \/ /\ tpc[w] = "panicked"
          /\ pc' = [pc EXCEPT ![w] = "panicout"]
          /\ tpc' = [tpc EXCEPT ![w] = "none"]
          /\ UNCHANGED <<queue, fate, turnVars>>
       \/ tpc[w] \in {"returned", "cancelled"} /\ WorkerReturn(w)
    /\ UNCHANGED <<loopVars, shutdown, chanVars, sent, free, tcmd, late,
                   abandoned>>

\* finish_command's handler_panicked ack, then back to the queue, or out when
\* the session is over.
WorkerPanicAck(w) ==
    /\ Emit([kind |-> "panic", cmd |-> tcmd[w]])
    /\ \/ /\ pc[w] = "panic"
          /\ pc' = [pc EXCEPT ![w] = "poll"]
          /\ UNCHANGED <<tpc, queue, fate, turnVars>>
       \/ pc[w] = "panicout" /\ WorkerReturn(w)
    /\ UNCHANGED <<loopVars, shutdown, outClosed, wire, lost, sent, free,
                   tcmd, late, abandoned>>

-----------------------------------------------------------------------------
(* The task of the command worker w has taken.                              *)

\* run_command gives the command's bytes back, then calls the handler.
TaskStart(w) ==
    /\ tpc[w] = "spawned"
    /\ tpc' = [tpc EXCEPT ![w] = "handler"]
    /\ free' = [free EXCEPT ![w] = @ + Cost[tcmd[w]]]
    /\ UNCHANGED <<loopVars, shutdown, chanVars, sent, fate, queue, turnVars,
                   pc, tcmd, late, abandoned>>

\* The vendor's handler returns or panics; nothing makes it do either.
HandlerEndsUnacked(w) ==
    /\ tpc[w] = "handler"
    /\ \E end \in {"ack", "panicked", "returned"} :
         tpc' = [tpc EXCEPT ![w] = end]
    /\ UNCHANGED <<loopVars, shutdown, chanVars, cmdVars, turnVars, pc, tcmd,
                   late, abandoned>>

HandlerEnds(w) ==
    /\ tpc[w] = "handler"
    /\ \E end \in {"ack", "panicked"} : tpc' = [tpc EXCEPT ![w] = end]
    /\ UNCHANGED <<loopVars, shutdown, chanVars, cmdVars, turnVars, pc, tcmd,
                   late, abandoned>>

TaskAck(w) ==
    /\ tpc[w] = "ack"
    /\ Emit([kind |-> "ack", cmd |-> tcmd[w]])
    /\ tpc' = [tpc EXCEPT ![w] =
                 IF tcmd[w] \in GetConfig THEN "config" ELSE "returned"]
    /\ UNCHANGED <<loopVars, shutdown, outClosed, wire, lost, cmdVars,
                   turnVars, pc, tcmd, late, abandoned>>

TaskConfig(w) ==
    /\ tpc[w] = "config"
    /\ Emit([kind |-> "config", cmd |-> tcmd[w]])
    /\ tpc' = [tpc EXCEPT ![w] = "returned"]
    /\ UNCHANGED <<loopVars, shutdown, outClosed, wire, lost, cmdVars,
                   turnVars, pc, tcmd, late, abandoned>>

\* Once run() has returned the runtime may be torn down under a command.
TaskCancelled(w) ==
    /\ run = "exited"
    /\ tpc[w] \in {"spawned", "handler", "ack", "config"}
    /\ tpc' = [tpc EXCEPT ![w] = "cancelled"]
    /\ UNCHANGED <<loopVars, shutdown, chanVars, cmdVars, turnVars, pc, tcmd,
                   late, abandoned>>

\* Vendor code sends a stats, event, health or thumbnail frame.
VendorEmit ==
    /\ ~outClosed
    /\ Emit(OtherFrame)
    /\ UNCHANGED <<loopVars, shutdown, outClosed, wire, lost, cmdVars,
                   turnVars, workerVars, abandoned>>

\* run() has returned and no worker is left.
Terminated ==
    /\ run = "exited"
    /\ \A w \in Sessions : pc[w] \in {"unborn", "done"}
    /\ UNCHANGED vars

LoopNext ==
    \/ Connect \/ RouteCommand \/ RoutePing \/ TakeOutbound \/ Heartbeat
    \/ WriteDone \/ ManagerClose \/ EndInbound \/ EndLost \/ EndShutdown
    \/ CancelSession \/ WriteClose
    \/ BreakLoop \/ StartDrain \/ DrainDone \/ DrainTimeout

WorkerNext(w) ==
    \/ WorkerSpawn(w) \/ WorkerAsk(w) \/ WorkerGranted(w) \/ WorkerGiveUp(w)
    \/ WorkerPoll(w) \/ WorkerTake(w) \/ WorkerJoined(w)
    \/ WorkerSessionOver(w) \/ WorkerSeeOut(w) \/ WorkerPanicAck(w)

TaskNext(w) ==
    \/ TaskStart(w) \/ HandlerEnds(w) \/ TaskAck(w) \/ TaskConfig(w)
    \/ TaskCancelled(w)

Next ==
    \/ LoopNext
    \/ RequestShutdown
    \/ VendorEmit
    \/ \E w \in Sessions : WorkerNext(w) \/ TaskNext(w)
    \/ Terminated

\* Every task that can run is run.  A write ends by itself or by
\* WRITE_STALL_LIMIT, the drain by itself or by COMMAND_DRAIN_LIMIT.  Emits are
\* strongly fair because room in the channel is handed out in the order it was
\* asked for, and so is the end of a session the manager has closed, because
\* what was read before the Close is finite.  TakeOutbound is strongly fair on
\* the assumption that the manager does not keep the inbound channel, which
\* the biased select! prefers, non-empty for ever.  Nothing is assumed of the
\* handler, of the vendor's emits or of when a session ends or begins.
\* A worker and its task are sequential, so one condition stands for all of
\* their steps; only the emits can be disabled again by another process.
Fairness ==
    /\ WF_vars(WriteDone \/ (hand # NoFrame /\ EndLost))
    /\ SF_vars(peerClosed /\ EndInbound)
    /\ SF_vars(TakeOutbound)
    /\ WF_vars(EndShutdown \/ CancelSession \/ WriteClose \/ BreakLoop
                 \/ StartDrain \/ DrainDone \/ DrainTimeout)
    /\ \A w \in Sessions :
         /\ SF_vars(WorkerNext(w))
         /\ SF_vars(TaskStart(w) \/ TaskAck(w) \/ TaskConfig(w))

Spec == Init /\ [][Next]_vars
FairSpec == Spec /\ Fairness

-----------------------------------------------------------------------------
(* Properties.                                                              *)

TypeOK ==
    /\ run \in RunStates
    /\ session \in 0..MaxSessions
    /\ shutdown \in BOOLEAN /\ peerClosed \in BOOLEAN
    /\ outClosed \in BOOLEAN /\ abandoned \in BOOLEAN
    /\ hand \in QueuedFrames \cup {NoFrame}
    /\ outbound \in Seq(QueuedFrames) /\ Len(outbound) <= OutboundSize
    /\ wire \in Seq(CommandFrames)
    /\ lost \subseteq CommandFrames
    /\ sent \in 0..MaxCmds
    /\ fate \in [Cmds -> Fates]
    /\ queue \in [Sessions -> Seq(Cmds)]
    /\ free \in [Sessions -> Int]
    /\ turn \in 0..Drainer
    /\ turnQ \in Seq(1..Drainer)
    /\ pc \in [Sessions -> WorkerPCs]
    /\ tpc \in [Sessions -> TaskPCs]
    /\ tcmd \in [Sessions -> 0..MaxCmds]
    /\ late \in [Sessions -> Nat]

\* A command of worker w is under way: its task exists, or the worker still
\* owes the manager the ack of one that panicked.
Busy(w) == tpc[w] # "none" \/ pc[w] \in {"panic", "panicout"}

\* Commands never overlap, across reconnects either: at most one session's
\* worker has a command under way, and it holds the command turn (run_commands,
\* the command_turn field).
OneAtATime ==
    \A v, w \in Sessions : Busy(v) /\ Busy(w) => v = w /\ turn = w

\* Commands start in the order the manager sent them, whichever session each
\* came on and however the sessions' workers interleave: a step that starts
\* one finds no later one started (a worker that gets the turn after its session
\* is over takes nothing, a queue is first in first out).
StartOrder ==
    [][\A c, d \in Cmds :
         /\ fate[c] # "started" /\ fate'[c] = "started"
         /\ fate[d] = "started"
         => d < c]_vars

\* A worker takes at most one command once its session is over: the one it was
\* about to take when the token was cancelled (the select! of run_commands).
LateStartsBounded == \A w \in Sessions : late[w] <= 1

Occurrences(s, f) == Cardinality({i \in DOMAIN s : s[i] = f})

Copies(f) ==
    Occurrences(outbound, f) + Occurrences(wire, f)
      + (IF hand = f THEN 1 ELSE 0) + (IF f \in lost THEN 1 ELSE 0)

Answers(c) ==
    Copies([kind |-> "ack", cmd |-> c]) + Copies([kind |-> "panic", cmd |-> c])

Refusals(c) == Copies([kind |-> "busy", cmd |-> c])

\* The worker that took c has still to queue its ack.
AckPending(c) ==
    \E w \in Sessions :
      /\ tcmd[w] = c
      /\ \/ tpc[w] \in {"spawned", "handler", "ack", "panicked"}
         \/ pc[w] \in {"panic", "panicout"}

\* Every command is answered once or never, and the answer tells the truth: a
\* refused one gets gateway_busy and nothing else, a dropped one nothing, and
\* one that started exactly one ack once its handler has ended, unless the
\* outbound channel was closed for shutdown first.
AnswerAccounting ==
    \A c \in Cmds :
      CASE fate[c] = "refused" -> Refusals(c) = 1 /\ Answers(c) = 0
        [] fate[c] = "started" ->
             /\ Refusals(c) = 0
             /\ Answers(c) <= 1
             /\ AckPending(c) => Answers(c) = 0
             /\ ~AckPending(c) /\ ~outClosed => Answers(c) = 1
        [] OTHER -> Refusals(c) = 0 /\ Answers(c) = 0

\* The end of a session costs at most the one frame the loop was writing:
\* acks still in the channel wait for the next session (send_bounded,
\* drive_session's biased select!).
OneFrameLostPerSession ==
    Cardinality({f \in lost : f.kind # "busy"}) <= session

\* The wire size of the commands in S, by the number of the last one counted.
CostUpTo(S) ==
    LET upTo[n \in 0..MaxCmds] ==
          IF n = 0 THEN 0
          ELSE upTo[n - 1] + (IF n \in S THEN Cost[n] ELSE 0)
    IN  upTo

CostOf(S) == CostUpTo(S)[MaxCmds]

\* The command budget is exact while its session is up: what is not free is
\* held by the commands waiting in the queue or taken but not yet started, so
\* the queue never exceeds COMMAND_QUEUE_BYTES, no refusal leaks bytes and none
\* are given back twice.
BudgetExact ==
    run = "up" =>
      LET waiting == {queue[session][i] : i \in DOMAIN queue[session]}
          taken == IF tpc[session] = "spawned" THEN {tcmd[session]} ELSE {}
      IN  /\ free[session] >= 0
          /\ free[session] + CostOf(waiting \cup taken) = QueueBytes

\* run() returns with a command still under way only after COMMAND_DRAIN_LIMIT
\* has passed, and no command starts after it has returned.
NoCommandCutOff ==
    run = "exited" /\ ~abandoned => \A w \in Sessions : ~Busy(w)

\* Shutdown always completes, also behind a handler that never returns, a
\* full outbound channel and a manager that does not read.
ShutdownCompletes == shutdown ~> run = "exited"

\* A worker whose session is over does not wait on another session's command:
\* it retires, unless the command under way is its own.
WorkersRetire ==
    \A w \in Sessions : Over(w) ~> (pc[w] = "done" \/ Busy(w))

\* While a session stays up, a finished command's ack gets into the channel
\* however full it is: the loop never waits on what only it drains.
AckGetsQueued ==
    \A w \in Sessions :
      tpc[w] = "ack" /\ run = "up" ~> (tpc[w] # "ack" \/ run # "up")
=============================================================================

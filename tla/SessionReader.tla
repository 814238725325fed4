--------------------------- MODULE SessionReader ---------------------------
(***************************************************************************)
(* The reading half of a session: read_manager takes every frame off the   *)
(* socket, judges from InboundCadence whether the manager is still alive,  *)
(* and hands the frames to the session loop over a bounded channel and a   *)
(* byte budget; drive_session takes them, and may be held up in a write    *)
(* (send_bounded) meanwhile.                                               *)
(*                                                                         *)
(* Time is in ticks of SILENCE_CHECK or more.  What a task can do at once  *)
(* it does before time passes; a clock is kept as the time since it was    *)
(* last set.  Every text frame costs one unit of the budget.  What the     *)
(* frames say, and shutdown, is CommandLink's subject.                     *)
(*                                                                         *)
(* A definition directly above another and named after it with a suffix is *)
(* a plausible bug in the one below it; no specification uses it.          *)
(***************************************************************************)
EXTENDS Integers, Sequences, FiniteSets

CONSTANTS
    Floor,       \* SILENCE_FLOOR
    Pings,       \* SILENCE_PINGS
    Kept,        \* PING_GAPS_KEPT
    MaxGap,      \* MAX_PING_GAP
    WriteStall,  \* WRITE_STALL_LIMIT
    ChanSize,    \* INBOUND_CHANNEL_SIZE
    Budget,      \* INBOUND_BUDGET_BYTES
    Periods,     \* the keepalive intervals the manager may be set to
    Delay,       \* the longest a frame is on its way to a reader that reads
    MaxFrames,   \* bound: frames other than pings the manager sends
    MaxUpsets    \* bound: writes held up and pings skipped, together

ASSUME ReaderAssumption ==
    /\ Floor \in Nat /\ Pings \in Nat \ {0} /\ Kept \in Nat \ {0}
    /\ MaxGap \in Nat \ {0} /\ WriteStall \in Nat \ {0}
    /\ ChanSize \in Nat \ {0} /\ Budget \in Nat \ {0}
    /\ Periods \subseteq 1..MaxGap /\ Delay \in Nat
    /\ MaxFrames \in Nat /\ MaxUpsets \in Nat

VARIABLES
    \* the manager and the path
    period, since,   \* its keepalive interval; the time since its last ping
    alive,           \* it has not silently gone
    closing,         \* it has sent its Close, or the connection broke
    path, age,       \* sent and not yet in the socket; since when
    \* the gateway
    socket,     \* frames that have arrived whole and are unread
    rpc, held,  \* where read_manager is, and the frame it hands over
    silent,     \* the time since last_frame
    quiet,      \* the time since last_ping, or started if there is none
    gaps,       \* InboundCadence's gaps
    due,        \* the check interval has ticked
    inbound,    \* the channel to the session loop
    free,       \* permits left in the budget
    lpc, wrote, \* where drive_session is; the time its write has taken
    end,        \* how the session ended
    \* bookkeeping
    frames, upsets,
    unrouted,   \* text frames sent and not yet routed by the loop
    gone        \* the time since the manager went

peerVars == <<period, since, alive, closing, path, age>>
cadence == <<silent, quiet, gaps>>
readerVars == <<socket, rpc, held, cadence, due>>
loopVars == <<inbound, free, lpc, wrote, end>>
counts == <<frames, upsets, unrouted, gone>>
vars == <<peerVars, readerVars, loopVars, counts>>

Larger(a, b) == IF a >= b THEN a ELSE b
Smaller(a, b) == IF a <= b THEN a ELSE b

\* No limit is longer than this.
LongestLimit == Larger(Floor, Pings * MaxGap)

\* The manager's keepalive starts when it accepts the authentication, which
\* the gateway hears of a little later.
Init ==
    /\ period \in Periods /\ since \in 0..Delay
    /\ since < period
    /\ alive = TRUE /\ closing = FALSE /\ path = <<>> /\ age = 0
    /\ socket = <<>> /\ rpc = "select" /\ held = "none"
    /\ silent = 0 /\ quiet = 0 /\ gaps = <<>> /\ due = TRUE
    /\ inbound = <<>> /\ free = Budget /\ lpc = "idle" /\ wrote = 0
    /\ end = "none"
    /\ frames = 0 /\ upsets = 0 /\ unrouted = 0 /\ gone = 0

-----------------------------------------------------------------------------
(* The manager and the path (not under src/): pings at a fixed interval,    *)
(* other frames at will, then at most one Close, or a connection that       *)
(* breaks with an error, and nothing after it.  Frames arrive in order, in  *)
(* bursts, and within Delay while the gateway reads.                        *)

Up == end = "none"

ReaderCanMove ==
    \/ rpc = "select" /\ (socket # <<>> \/ due)
    \/ rpc = "budget" /\ free > 0
    \/ rpc = "send" /\ Len(inbound) < ChanSize

LoopCanMove == lpc = "idle" /\ inbound # <<>>

\* What the gateway can do at once it has done, so the outside may move.
Settled == Up /\ ~ReaderCanMove /\ ~LoopCanMove
Sending == alive /\ ~closing /\ Settled

Send(k) ==
    /\ path' = Append(path, k)
    /\ age' = IF path = <<>> THEN 0 ELSE age

ManagerPings ==
    /\ Sending /\ since = period
    /\ since' = 0
    /\ Send("ping")
    /\ UNCHANGED <<period, alive, closing, readerVars, loopVars, counts>>

\* One ping is lost.
ManagerSkips ==
    /\ Sending /\ since = period /\ upsets < MaxUpsets
    /\ since' = 0 /\ upsets' = upsets + 1
    /\ UNCHANGED <<period, alive, closing, path, age, readerVars, loopVars,
                   frames, unrouted, gone>>

\* A command or query; a binary frame or a pong; the Close or the end of the
\* stream; or an error such as a reset.
ManagerSends(k) ==
    /\ Sending /\ frames < MaxFrames
    /\ frames' = frames + 1
    /\ unrouted' = IF k = "text" THEN unrouted + 1 ELSE unrouted
    /\ closing' = (k \in {"close", "error"})
    /\ Send(k)
    /\ UNCHANGED <<period, since, alive, readerVars, loopVars, upsets, gone>>

\* The host is gone, or the path to it: no reset, no end of the stream.
ManagerGone ==
    /\ alive /\ Settled
    /\ alive' = FALSE
    /\ path' = <<>> /\ age' = 0 /\ since' = 0
    /\ UNCHANGED <<period, closing, readerVars, loopVars, counts>>

Deliver ==
    /\ Settled /\ path # <<>>
    /\ socket' = socket \o path /\ path' = <<>> /\ age' = 0
    /\ UNCHANGED <<period, since, alive, closing, rpc, held, cadence, due,
                   loopVars, counts>>

-----------------------------------------------------------------------------
(* read_manager and InboundCadence.                                         *)

OnFrame == silent' = 0

\* The gap is capped, and the oldest makes room for it.
OnPing ==
    /\ OnFrame
    /\ gaps' = Append(IF Len(gaps) = Kept THEN Tail(gaps) ELSE gaps, quiet)
    /\ quiet' = 0

KnownGaps == {gaps[i] : i \in DOMAIN gaps}
AtMost(g) == Cardinality({i \in DOMAIN gaps : gaps[i] <= g})

\* gaps.get(gaps.len() / 2) of the sorted gaps: the least that more than half of
\* them do not exceed.
MedianIsLongest ==
    CHOOSE g \in KnownGaps : \A h \in KnownGaps : h <= g
Median ==
    CHOOSE g \in KnownGaps :
      /\ AtMost(g) > Len(gaps) \div 2
      /\ \A h \in KnownGaps : AtMost(h) > Len(gaps) \div 2 => g <= h

SilenceLimit == Larger(Floor, Pings * Median)

\* A ping is stamped and offered to the loop, and dropped if there is no room.
ReadPingUnbounded ==
    /\ Up /\ rpc = "select" /\ socket # <<>> /\ Head(socket) = "ping"
    /\ socket' = Tail(socket)
    /\ OnPing
    /\ inbound' = Append(inbound, "ping")
    /\ UNCHANGED <<peerVars, rpc, held, due, free, lpc, wrote, end, counts>>
ReadPing ==
    /\ Up /\ rpc = "select" /\ socket # <<>> /\ Head(socket) = "ping"
    /\ socket' = Tail(socket)
    /\ OnPing
    /\ inbound' = IF Len(inbound) < ChanSize THEN Append(inbound, "ping")
                    ELSE inbound
    /\ UNCHANGED <<peerVars, rpc, held, due, free, lpc, wrote, end, counts>>

ReadOther ==
    /\ Up /\ rpc = "select" /\ socket # <<>> /\ Head(socket) = "other"
    /\ socket' = Tail(socket)
    /\ OnFrame
    /\ UNCHANGED <<peerVars, rpc, held, quiet, gaps, due, loopVars, counts>>

\* A text waits for its share of the budget, an end only for the channel.
ReadHandoverEndsAtClose ==
    /\ Up /\ rpc = "select" /\ socket # <<>>
    /\ Head(socket) \in {"text", "close", "error"}
    /\ socket' = Tail(socket)
    /\ OnFrame
    /\ held' = Head(socket)
    /\ rpc' = IF Head(socket) = "text" THEN "budget" ELSE "parked"
    /\ end' = IF Head(socket) = "close" THEN "closed"
                ELSE IF Head(socket) = "error" THEN "lost" ELSE end
    /\ UNCHANGED <<peerVars, quiet, gaps, due, inbound, free, lpc, wrote,
                   counts>>
ReadHandover ==
    /\ Up /\ rpc = "select" /\ socket # <<>>
    /\ Head(socket) \in {"text", "close", "error"}
    /\ socket' = Tail(socket)
    /\ IF Head(socket) = "error" THEN UNCHANGED silent ELSE OnFrame
    /\ held' = Head(socket)
    /\ rpc' = IF Head(socket) = "text" THEN "budget" ELSE "send"
    /\ UNCHANGED <<peerVars, quiet, gaps, due, loopVars, counts>>

GetBudget ==
    /\ Up /\ rpc = "budget" /\ free > 0
    /\ free' = free - 1
    /\ rpc' = "send"
    /\ UNCHANGED <<peerVars, socket, held, cadence, due, inbound, lpc, wrote,
                   end, counts>>

\* After a text the silence is timed from here; after an end the reader parks.
HandOverKeepsStamp ==
    /\ Up /\ rpc = "send" /\ Len(inbound) < ChanSize
    /\ inbound' = Append(inbound, held)
    /\ held' = "none"
    /\ rpc' = IF held = "text" THEN "select" ELSE "parked"
    /\ UNCHANGED <<peerVars, socket, cadence, due, free, lpc, wrote, end,
                   counts>>
HandOver ==
    /\ Up /\ rpc = "send" /\ Len(inbound) < ChanSize
    /\ inbound' = Append(inbound, held)
    /\ held' = "none"
    /\ rpc' = IF held = "text" THEN "select" ELSE "parked"
    /\ silent' = IF held = "text" THEN 0 ELSE silent
    /\ UNCHANGED <<peerVars, socket, quiet, gaps, due, free, lpc, wrote, end,
                   counts>>

\* Frames first: silence is judged once the socket has been read empty.
NothingToRead == socket = <<>>

\* Unarmed until the first ping.
DeadOnceAllKnown == Len(gaps) = Kept /\ silent > SilenceLimit
Dead == gaps # <<>> /\ silent > SilenceLimit

CheckSilence ==
    /\ Up /\ rpc = "select" /\ NothingToRead /\ due
    /\ due' = FALSE
    /\ end' = IF Dead THEN "silent" ELSE end
    /\ UNCHANGED <<peerVars, socket, rpc, held, cadence, inbound, free, lpc,
                   wrote, counts>>

-----------------------------------------------------------------------------
(* drive_session.                                                           *)

\* The loop takes a text and routes it; what it routes may need an answer.
TakeText ==
    /\ Up /\ lpc = "idle" /\ inbound # <<>> /\ Head(inbound) = "text"
    /\ inbound' = Tail(inbound)
    /\ unrouted' = unrouted - 1
    /\ \/ free' = free + 1 /\ UNCHANGED <<lpc, wrote, upsets>>
       \/ /\ upsets < MaxUpsets /\ upsets' = upsets + 1
          /\ lpc' = "answer" /\ wrote' = 0 /\ UNCHANGED free
    /\ UNCHANGED <<peerVars, readerVars, end, frames, gone>>

\* A Pong, which may be held up as well.
TakePing ==
    /\ Up /\ lpc = "idle" /\ inbound # <<>> /\ Head(inbound) = "ping"
    /\ inbound' = Tail(inbound)
    /\ \/ UNCHANGED <<lpc, wrote, upsets>>
       \/ /\ upsets < MaxUpsets /\ upsets' = upsets + 1
          /\ lpc' = "write" /\ wrote' = 0
    /\ UNCHANGED <<peerVars, readerVars, free, end, frames, unrouted, gone>>

TakeEnd ==
    /\ Up /\ lpc = "idle" /\ inbound # <<>>
    /\ Head(inbound) \in {"close", "error"}
    /\ inbound' = Tail(inbound)
    /\ end' = IF Head(inbound) = "close" THEN "closed" ELSE "lost"
    /\ UNCHANGED <<peerVars, readerVars, free, lpc, wrote, counts>>

\* A frame of the vendor's or a heartbeat that is not written at once.
WriteHeldUp ==
    /\ Settled /\ lpc = "idle" /\ inbound = <<>> /\ upsets < MaxUpsets
    /\ upsets' = upsets + 1
    /\ lpc' = "write" /\ wrote' = 0
    /\ UNCHANGED <<peerVars, readerVars, inbound, free, end, frames, unrouted,
                   gone>>

\* The text's share of the budget is given back once it has been routed.
WriteDoneKeepsShare ==
    /\ Up /\ lpc \in {"write", "answer"} /\ (alive \/ wrote = 0)
    /\ lpc' = "idle" /\ wrote' = 0
    /\ UNCHANGED <<peerVars, readerVars, inbound, free, end, counts>>
WriteDone ==
    /\ Up /\ lpc \in {"write", "answer"} /\ (alive \/ wrote = 0)
    /\ free' = IF lpc = "answer" THEN free + 1 ELSE free
    /\ lpc' = "idle" /\ wrote' = 0
    /\ UNCHANGED <<peerVars, readerVars, inbound, end, counts>>

WriteStalls ==
    /\ Up /\ lpc \in {"write", "answer"} /\ wrote = WriteStall
    /\ end' = "stalled"
    /\ UNCHANGED <<peerVars, readerVars, inbound, free, lpc, wrote, counts>>

WriteFails ==
    /\ Up /\ lpc \in {"write", "answer"}
    /\ end' = "lost"
    /\ UNCHANGED <<peerVars, readerVars, inbound, free, lpc, wrote, counts>>

-----------------------------------------------------------------------------

Overdue == rpc = "select" /\ path # <<>> /\ age = Delay

\* Time passes when nobody can move and no deadline has come.
Tick ==
    /\ Settled /\ ~Overdue
    /\ ~(Sending /\ since = period)
    /\ ~(lpc \in {"write", "answer"} /\ wrote = WriteStall)
    /\ since' = IF Sending THEN since + 1 ELSE 0
    /\ age' = IF path # <<>> /\ rpc = "select" THEN age + 1 ELSE age
    /\ silent' = Smaller(silent + 1, LongestLimit + 1)
    /\ quiet' = Smaller(quiet + 1, MaxGap)
    /\ due' = TRUE
    /\ wrote' = IF lpc = "idle" THEN 0 ELSE wrote + 1
    /\ gone' = IF alive \/ gaps = <<>> THEN 0 ELSE gone + 1
    /\ UNCHANGED <<period, alive, closing, path, socket, rpc, held, gaps,
                   inbound, free, lpc, end, frames, upsets, unrouted>>

SessionOver == ~Up /\ UNCHANGED vars

ManagerNext ==
    \/ ManagerPings \/ ManagerSkips \/ ManagerGone \/ Deliver
    \/ \E k \in {"text", "other", "close", "error"} : ManagerSends(k)

ReaderNext ==
    \/ ReadPing \/ ReadOther \/ ReadHandover \/ GetBudget \/ HandOver
    \/ CheckSilence

LoopNext ==
    \/ TakeText \/ TakePing \/ TakeEnd \/ WriteHeldUp \/ WriteDone
    \/ WriteStalls \/ WriteFails

Next == ManagerNext \/ ReaderNext \/ LoopNext \/ Tick \/ SessionOver

Spec == Init /\ [][Next]_vars

-----------------------------------------------------------------------------
(* Properties.                                                              *)

Kinds == {"ping", "text", "other", "close", "error"}

TypeOK ==
    /\ period \in Periods /\ since \in 0..period
    /\ alive \in BOOLEAN /\ closing \in BOOLEAN
    /\ path \in Seq(Kinds) /\ age \in 0..Delay /\ socket \in Seq(Kinds)
    /\ rpc \in {"select", "budget", "send", "parked"}
    /\ held \in {"none", "text", "close", "error"}
    /\ silent \in 0..(LongestLimit + 1) /\ quiet \in 0..MaxGap
    /\ gaps \in Seq(0..MaxGap) /\ Len(gaps) <= Kept
    /\ due \in BOOLEAN
    /\ inbound \in Seq(Kinds) /\ Len(inbound) <= ChanSize
    /\ free \in 0..Budget
    /\ lpc \in {"idle", "write", "answer"} /\ wrote \in 0..WriteStall
    /\ end \in {"none", "silent", "stalled", "closed", "lost"}
    /\ frames \in 0..MaxFrames /\ upsets \in 0..MaxUpsets
    /\ unrouted \in 0..frames /\ gone \in Nat

\* The ping after as many intervals as there may be upsets is within the floor.
FitsFloor == period + MaxUpsets * period + Delay <= Floor

\* Pings that waited unread while the reader waited for the loop are stamped in
\* one breath, and the limit is now learned from the gaps between those.
StampedInBurst == gaps # <<>> /\ Median < period - Delay

\* A manager that is there is not taken for dead: not for pinging slowly, for one
\* ping lost, or for pings that wait unread while the loop is held up in a write
\* (read_manager, InboundCadence).  There is an exception, though SILENCE_FLOOR
\* and SILENCE_PINGS say that the limit scales with the manager's cadence and
\* that one slow burst ends no session: if most of the gaps known are of pings
\* stamped in a burst, the limit is down at the floor, and a manager whose
\* keepalive does not fit that is dropped before its next ping.
LiveNotTakenForDead ==
    end = "silent" /\ alive => ~FitsFloor /\ StampedInBurst

\* Once a ping has armed the watchdog, a manager that has gone is noticed
\* within the limit its own pings taught or the bound on a write, whichever is
\* longer, and the last frame's way and one check on top.
DeadNoticed ==
    Up => gone <= Larger(IF gaps = <<>> THEN 0 ELSE SilenceLimit, WriteStall)
                    + 1

\* One long silence does not teach the watchdog to wait longer: with three gaps
\* known and at most one upset, the limit is that of the manager's interval.
OneStallForgotten ==
    Len(gaps) >= 3 /\ upsets <= 1
      => SilenceLimit <= Larger(Floor, Pings * (period + Delay))

Waiting(s) == Cardinality({i \in DOMAIN s : s[i] = "text"})

\* The budget is exact: what is not free is held by texts in the channel, in
\* the reader's hands or being routed.
BudgetExact ==
    free + Waiting(inbound)
      + (IF rpc = "send" /\ held = "text" THEN 1 ELSE 0)
      + (IF lpc = "answer" THEN 1 ELSE 0) = Budget

\* A clean close ends the session only after everything sent before it has
\* been routed.
CloseComesLast == end = "closed" => unrouted = 0
=============================================================================

--------------------------- MODULE StaggeredDial ---------------------------
(***************************************************************************)
(* dial_manager: the name lookup, the staggered TCP attempts               *)
(* (interleave_families, connect_staggered) and the TLS and WebSocket      *)
(* upgrade, all under one deadline.                                        *)
(*                                                                         *)
(* An address is its place in the resolver's answer.  An attempt connects, *)
(* fails or stays silent, at any time.  Time is in ticks.                  *)
(*                                                                         *)
(* A definition directly above another and named after it with a suffix is *)
(* a plausible bug in the one below it; no specification uses it.          *)
(***************************************************************************)
EXTENDS Integers, Sequences, FiniteSets

CONSTANTS
    MaxAddrs,     \* bound: addresses a name resolves to
    Stagger,      \* CONNECT_ATTEMPT_DELAY
    DialTimeout   \* DIAL_TIMEOUT

ASSUME DialAssumption ==
    /\ MaxAddrs \in Nat
    /\ Stagger \in Nat \ {0} /\ DialTimeout \in Nat \ {0}

Families == {"v4", "v6"}
Answers == UNION {[1..n -> Families] : n \in 0..MaxAddrs}

VARIABLES
    stage,      \* "lookup", "tcp", "upgrade" or "over"
    family,     \* the family of each address the resolver returned
    order,      \* what interleave_families made of them
    waiting,    \* addresses not yet started
    flight,     \* in_flight, in the order they were started
    failed,     \* addresses whose attempt failed
    top,        \* connect_staggered is at the top of its loop
    slept,      \* how long its sleep has lasted
    winner,     \* the address it connected to
    outcome,    \* of the dial
    elapsed,    \* since the dial began
    trying      \* since the TCP stage began

tcpVars == <<family, order, waiting, flight, failed, top, slept, winner>>
vars == <<stage, tcpVars, outcome, elapsed, trying>>

Init ==
    /\ stage = "lookup" /\ family = <<>> /\ order = <<>> /\ waiting = <<>>
    /\ flight = <<>> /\ failed = {} /\ top = FALSE /\ slept = 0
    /\ winner = 0 /\ outcome = "none"
    /\ elapsed = 0 /\ trying = 0

-----------------------------------------------------------------------------
(* interleave_families: the first address's family leads, the two take      *)
(* turns, and what is left of the longer one comes last.                    *)

\* partition: the places, up to the n-th, of the addresses whose family is in
\* S, in order.
HalfUpTo(fam, S) ==
    LET upTo[n \in 0..Len(fam)] ==
          IF n = 0 THEN <<>>
          ELSE IF fam[n] \in S THEN Append(upTo[n - 1], n) ELSE upTo[n - 1]
    IN  upTo

Half(fam, S) == HalfUpTo(fam, S)[Len(fam)]

Lead(fam) == Half(fam, {fam[1]})
Other(fam) == Half(fam, Families \ {fam[1]})

Pairs(a, b) ==
    LET m == IF Len(a) <= Len(b) THEN Len(a) ELSE Len(b)
    IN  [k \in 1..(2 * m) |-> IF k % 2 = 1 THEN a[(k + 1) \div 2]
                                ELSE b[k \div 2]]

Rest(a, b) == SubSeq(a, Len(b) + 1, Len(a)) \o SubSeq(b, Len(a) + 1, Len(b))

InterleavePairsOnly(fam) ==
    IF fam = <<>> THEN <<>> ELSE Pairs(Lead(fam), Other(fam))
InterleaveFamilies(fam) ==
    IF fam = <<>> THEN <<>>
    ELSE Pairs(Lead(fam), Other(fam)) \o Rest(Lead(fam), Other(fam))

-----------------------------------------------------------------------------
(* The stages.                                                              *)

LookupDone(fam) ==
    /\ stage = "lookup"
    /\ stage' = "tcp" /\ top' = TRUE
    /\ family' = fam /\ order' = InterleaveFamilies(fam) /\ waiting' = order'
    /\ UNCHANGED <<flight, failed, slept, winner, outcome, elapsed,
                   trying>>

LookupFails ==
    /\ stage = "lookup"
    /\ stage' = "over" /\ outcome' = "failed"
    /\ UNCHANGED <<tcpVars, elapsed, trying>>

UpgradeDone ==
    /\ stage = "upgrade"
    /\ stage' = "over"
    /\ outcome' \in {"connected", "failed"}
    /\ UNCHANGED <<tcpVars, elapsed, trying>>

DeadlineNotForTcp ==
    /\ stage \in {"lookup", "upgrade"} /\ elapsed = DialTimeout
    /\ stage' = "over" /\ outcome' = "timeout"
    /\ UNCHANGED <<tcpVars, elapsed, trying>>
Deadline ==
    /\ stage # "over" /\ elapsed = DialTimeout
    /\ stage' = "over" /\ outcome' = "timeout"
    /\ UNCHANGED <<tcpVars, elapsed, trying>>

-----------------------------------------------------------------------------
(* connect_staggered.                                                       *)

\* The next address, if any, is started; with none in flight all have failed.
StartNext ==
    /\ stage = "tcp" /\ top
    /\ flight' = IF waiting = <<>> THEN flight
                   ELSE Append(flight, Head(waiting))
    /\ waiting' = IF waiting = <<>> THEN waiting ELSE Tail(waiting)
    /\ top' = FALSE /\ slept' = 0
    /\ IF flight' = <<>> THEN stage' = "over" /\ outcome' = "failed"
                         ELSE UNCHANGED <<stage, outcome>>
    /\ UNCHANGED <<family, order, failed, winner, elapsed, trying>>

\* in_flight without the attempt started i-th of those still in it.
Without(i) == SubSeq(flight, 1, i - 1) \o SubSeq(flight, i + 1, Len(flight))

AttemptConnects(a) ==
    /\ stage = "tcp" /\ ~top /\ \E i \in DOMAIN flight : flight[i] = a
    /\ winner' = a
    /\ flight' = <<>>
    /\ stage' = "upgrade"
    /\ UNCHANGED <<family, order, waiting, failed, top, slept, outcome,
                   elapsed, trying>>

\* A failure frees its turn at once.
AttemptEndsDial(a) ==
    /\ stage = "tcp" /\ ~top
    /\ \E i \in DOMAIN flight : flight[i] = a /\ flight' = Without(i)
    /\ failed' = failed \cup {a}
    /\ IF flight' = <<>> THEN stage' = "over" /\ outcome' = "failed"
                         ELSE UNCHANGED <<stage, outcome>>
    /\ UNCHANGED <<family, order, waiting, top, slept, winner,
                   elapsed, trying>>
AttemptFails(a) ==
    /\ stage = "tcp" /\ ~top
    /\ \E i \in DOMAIN flight : flight[i] = a /\ flight' = Without(i)
    /\ failed' = failed \cup {a}
    /\ top' = TRUE
    /\ UNCHANGED <<stage, family, order, waiting, slept, winner,
                   outcome, elapsed, trying>>

StaggerOverSleepsOn ==
    /\ stage = "tcp" /\ ~top /\ waiting # <<>> /\ slept = Stagger
    /\ slept' = 0
    /\ UNCHANGED <<stage, family, order, waiting, flight, failed, top, winner,
                   outcome, elapsed, trying>>
StaggerOver ==
    /\ stage = "tcp" /\ ~top /\ waiting # <<>> /\ slept = Stagger
    /\ top' = TRUE
    /\ UNCHANGED <<stage, family, order, waiting, flight, failed, slept,
                   winner, outcome, elapsed, trying>>

-----------------------------------------------------------------------------

\* Time passes while nothing is ready: the loop sleeps, and no deadline has
\* come.
Tick ==
    /\ stage # "over" /\ elapsed < DialTimeout
    /\ stage = "tcp" => ~top /\ (waiting = <<>> \/ slept < Stagger)
    /\ elapsed' = elapsed + 1
    /\ trying' = IF stage = "tcp" THEN trying + 1 ELSE trying
    /\ slept' = IF stage = "tcp" /\ waiting # <<>> THEN slept + 1 ELSE slept
    /\ UNCHANGED <<stage, family, order, waiting, flight, failed, top, winner,
                   outcome>>

Over == stage = "over" /\ UNCHANGED vars

Next ==
    \/ \E fam \in Answers : LookupDone(fam)
    \/ LookupFails \/ UpgradeDone \/ Deadline \/ StartNext \/ StaggerOver
    \/ \E a \in 1..MaxAddrs : AttemptConnects(a) \/ AttemptFails(a)
    \/ Tick \/ Over

\* The task is polled and time passes; nothing is assumed of the resolver or of
\* any address.
Fairness ==
    /\ WF_vars(StartNext) /\ WF_vars(StaggerOver) /\ WF_vars(Tick)
    /\ WF_vars(Deadline)

Spec == Init /\ [][Next]_vars
FairSpec == Spec /\ Fairness

-----------------------------------------------------------------------------
(* Properties.                                                              *)

Addresses == DOMAIN family
Started == Addresses \ {waiting[i] : i \in DOMAIN waiting}

\* The order has every address once, each family's in the resolver's order, the
\* resolver's first address first, and two of a family next to each other only
\* once the other family is used up (interleave_families).
OrderAlternates ==
    stage # "lookup" /\ family # <<>> =>
      /\ Len(order) = Len(family)
      /\ \A a \in Addresses : \E i \in DOMAIN order : order[i] = a
      /\ order[1] = 1
      /\ \A i, j \in DOMAIN order :
           /\ i < j /\ family[order[i]] = family[order[j]]
           => /\ order[i] < order[j]
              /\ j = i + 1 => \A k \in DOMAIN order :
                   k > j => family[order[k]] = family[order[j]]

\* A silent address does not hold the others back: after k staggers of the TCP
\* stage k + 1 addresses have been started, or all of them.
NobodyHeldBack ==
    stage = "tcp" /\ ~top =>
      \/ waiting = <<>>
      \/ Cardinality(Started) > trying \div Stagger
      \/ slept = Stagger

\* The TCP stage gives up before the deadline only when every address has
\* failed.
FailsOnlyWhenAllFailed ==
    stage = "over" /\ outcome = "failed" /\ winner = 0
      => failed = Addresses

\* Every dial ends, whatever the resolver and the addresses do.
DialEnds == <>(outcome # "none")
=============================================================================

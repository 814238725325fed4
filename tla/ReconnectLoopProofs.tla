------------------------ MODULE ReconnectLoopProofs ------------------------
(***************************************************************************)
(* Proofs about ReconnectLoop, for any number of URLs, any of which may    *)
(* answer, any backoff table that does not fall, and any number of deaths  *)
(* of the process.                                                         *)
(***************************************************************************)
EXTENDS ReconnectLoop, TLAPS

\* The first start is well typed.
LEMMA TypeInit == Init => TypeOK
<1>1. 0 \in Index /\ 0 \in 0..(Len(Steps) + 1) /\ 0 \in 0..MaxCrashes
  BY LoopAssumption DEF Index
<1> QED BY <1>1 DEF Init, TypeOK

\* The backoff table's entries are delays, and the capped count stays in range.
LEMMA Counted ==
    ASSUME attempt \in 0..(Len(Steps) + 1)
    PROVE  /\ NextAttempt \in 1..(Len(Steps) + 1)
           /\ DelayFor(NextAttempt) \in {Steps[i] : i \in DOMAIN Steps}
<1>1. Len(Steps) \in Nat \ {0} /\ DOMAIN Steps = 1..Len(Steps)
  BY LoopAssumption
<1>2. NextAttempt \in 1..(Len(Steps) + 1)
  BY <1>1 DEF NextAttempt
<1> QED BY <1>1, <1>2 DEF DelayFor

\* The rotation stays on the list.
LEMMA NextUrlInRange == ASSUME cursor \in Index PROVE NextUrl \in Index
BY LoopAssumption DEF Index, NextUrl

\* Every step keeps the types.
LEMMA TypeStep == TypeOK /\ [Next]_vars => TypeOK'
<1> SUFFICES ASSUME TypeOK, [Next]_vars PROVE TypeOK'
  OBVIOUS
<1> USE DEF TypeOK
<1>1. CASE Attempt
  <2>1. CASE Dial \/ DialDone
    BY <2>1 DEF Dial, DialDone
  <2>2. CASE AuthSent
    BY <2>2 DEF AuthSent, AuthWith
  <2>3. CASE ManagerAnswers
    BY <2>3 DEF ManagerAnswers
  <2>4. CASE AttemptFails \/ AttemptStopped
    BY <2>4 DEF AttemptFails, AttemptStopped, AnswerUnread
  <2>5. CASE TakeReply
    BY <2>5 DEF TakeReply, Credit
  <2>6. CASE CallbackTruncates \/ CallbackWrites
    BY <2>6 DEF CallbackTruncates, CallbackWrites
  <2>7. CASE SetEpoch \/ SetFlag
    BY <2>7 DEF SetEpoch, SetFlag
  <2>8. CASE SessionEnds
    BY <2>8 DEF SessionEnds
  <2> QED BY <1>1, <2>1, <2>2, <2>3, <2>4, <2>5, <2>6, <2>7, <2>8 DEF Attempt
<1>2. CASE Conclude
  <2>1. /\ NextAttempt \in 0..(Len(Steps) + 1)
        /\ DelayFor(NextAttempt) \in {Steps[i] : i \in DOMAIN Steps}
        /\ NextUrl \in Index
    BY Counted, NextUrlInRange, LoopAssumption
  <2>2. cursor' \in Index /\ attempt' \in 0..(Len(Steps) + 1)
        /\ delay' \in {0} \cup {Steps[i] : i \in DOMAIN Steps}
    BY <1>2, <2>1 DEF Conclude
  <2>3. pc' \in {"exited", "backoff"}
    BY <1>2 DEF Conclude
  <2>4. connected' \in BOOLEAN /\ epoch' \in {"none", "old", "current"}
    BY <1>2 DEF Conclude, SetDisconnected
  <2>5. UNCHANGED <<end, shutdown, pair, token, sentWith, answer, disk, issued,
                    lostPair, crashes>>
    BY <1>2 DEF Conclude
  <2> QED BY <2>2, <2>3, <2>4, <2>5
<1>3. CASE BackoffOver \/ LoopStopped \/ RequestShutdown
  <2>1. pc' \in {"top", "exited", pc} /\ shutdown' \in BOOLEAN
    BY <1>3 DEF BackoffOver, LoopStopped, RequestShutdown
  <2>2. UNCHANGED <<cursor, attempt, end, delay, pair, token, sentWith, answer,
                    connected, epoch, disk, issued, lostPair, crashes>>
    BY <1>3 DEF BackoffOver, LoopStopped, RequestShutdown
  <2> QED BY <2>1, <2>2
<1>4. CASE Crash
  <2>1. cursor' \in Index /\ attempt' \in 0..(Len(Steps) + 1)
        /\ crashes' \in 0..MaxCrashes
    BY <1>4, LoopAssumption DEF Crash, Index
  <2>2. delay' = 0 /\ end' = "none" /\ pc' = "down"
        /\ lostPair' \in {"no", "reply", "crash"}
    BY <1>4 DEF Crash, AnswerUnread
  <2>3. /\ shutdown' = FALSE /\ pair' = FALSE /\ token' = TRUE
        /\ sentWith' = "none" /\ answer' = "none"
        /\ connected' = FALSE /\ epoch' = "none"
        /\ UNCHANGED <<disk, issued>>
    BY <1>4 DEF Crash
  <2> QED BY <2>1, <2>2, <2>3
<1>5. CASE Restart
  BY <1>5 DEF Restart
<1>6. CASE Stopped \/ UNCHANGED vars
  BY <1>6 DEF Stopped, vars
<1> QED BY <1>1, <1>2, <1>3, <1>4, <1>5, <1>6 DEF Next

\* Every variable keeps its type: the cursor stays among the URLs, the count
\* within the backoff table.
THEOREM LoopTypeCorrect == Spec => []TypeOK
BY TypeInit, TypeStep, PTL DEF Spec

-----------------------------------------------------------------------------
(* The link state.                                                          *)

\* The two stores of set_connected come in this order, each before the session
\* is up, and set_disconnected takes them back in one.
Published ==
    /\ connected => pc \in {"up", "ended"}
    /\ pc = "flag" => epoch = "current"
    /\ pc = "up" => connected
    /\ connected => epoch = "current"

\* Every step keeps the order of the stores.
LEMMA PublishedStep == TypeOK /\ Published /\ [Next]_vars => Published'
<1> SUFFICES ASSUME TypeOK, Published, [Next]_vars PROVE Published'
  OBVIOUS
<1> USE DEF Published
<1>1. CASE Attempt
  <2>1. CASE Dial \/ DialDone \/ AuthSent \/ ManagerAnswers
    BY <2>1 DEF Dial, DialDone, AuthSent, ManagerAnswers
  <2>2. CASE AttemptFails \/ AttemptStopped
    BY <2>2 DEF AttemptFails, AttemptStopped
  <2>3. CASE TakeReply
    BY <2>3 DEF TakeReply, Credit, TypeOK
  <2>4. CASE CallbackTruncates \/ CallbackWrites
    BY <2>4 DEF CallbackTruncates, CallbackWrites
  <2>5. CASE SetEpoch \/ SetFlag \/ SessionEnds
    BY <2>5 DEF SetEpoch, SetFlag, SessionEnds
  <2> QED BY <1>1, <2>1, <2>2, <2>3, <2>4, <2>5 DEF Attempt
<1>2. CASE Conclude
  BY <1>2 DEF Conclude, SetDisconnected
<1>3. CASE BackoffOver \/ LoopStopped \/ RequestShutdown
  BY <1>3 DEF BackoffOver, LoopStopped, RequestShutdown
<1>4. CASE Crash \/ Restart
  BY <1>4 DEF Crash, Restart
<1>5. CASE Stopped \/ UNCHANGED vars
  BY <1>5 DEF Stopped, vars
<1> QED BY <1>1, <1>2, <1>3, <1>4, <1>5 DEF Next

\* Whoever reads the link state between any two steps sees either no link or an
\* authenticated one with its own connect time.
THEOREM LinkStateNeverMixed == Spec => []LinkStateTruthful
<1>1. Init => Published
  BY DEF Init, Published
<1>2. Published => LinkStateTruthful
  BY DEF Published, LinkStateTruthful
<1> QED BY TypeInit, TypeStep, PublishedStep, <1>1, <1>2, PTL DEF Spec

-----------------------------------------------------------------------------
(* The credentials.                                                         *)

\* Where they are: an answer exists only while it is waited for, a gateway
\* that has credentials asks with them and they are known, and outside the
\* callback what the process holds is what the disk holds.
Kept ==
    /\ answer # "none" => pc = "reply"
    /\ pc = "reply" /\ pair => sentWith = "pair" /\ answer # "auth_error"
    /\ pc \in {"callback", "writing"} => pair
    /\ pair /\ pc \notin {"callback", "writing"} => disk = "pair"
    /\ pc = "down" => ~pair

\* Every step keeps track of the pair, the deaths included.
LEMMA KeptStep ==
    TypeOK /\ Kept /\ PairAccountedFor /\ [Next]_vars
      => Kept' /\ PairAccountedFor'
<1> SUFFICES ASSUME TypeOK, Kept, PairAccountedFor, [Next]_vars
             PROVE  Kept' /\ PairAccountedFor'
  OBVIOUS
<1> USE DEF Kept, PairAccountedFor
<1>1. CASE Attempt
  <2>1. CASE Dial \/ DialDone
    BY <2>1 DEF Dial, DialDone
  <2>2. CASE AuthSent
    BY <2>2 DEF AuthSent, AuthWith, TypeOK
  <2>3. CASE ManagerAnswers
    <3>1. /\ pc = "reply" /\ answer = "none"
          /\ UNCHANGED <<pc, pair, sentWith, disk, lostPair>>
      BY <2>3 DEF ManagerAnswers
    <3>2. CASE sentWith = "pair"
      <4>1. answer' = "auth_ok" /\ issued' = issued
        BY <2>3, <3>2 DEF ManagerAnswers, TypeOK
      <4> QED BY <3>1, <4>1
    <3>3. CASE sentWith # "pair"
      <4>1. issued' /\ ~issued => answer' = "register_ack"
        BY <2>3, <3>3 DEF ManagerAnswers
      <4> QED BY <3>1, <3>3, <4>1
    <3> QED BY <3>2, <3>3
  <2>4. CASE AttemptFails \/ AttemptStopped
    <3>1. /\ pc' = "ended" /\ pc \in {"dial", "auth", "reply"}
          /\ answer' = "none" /\ lostPair' = AnswerUnread
          /\ UNCHANGED <<pair, disk, issued>>
      BY <2>4 DEF AttemptFails, AttemptStopped
    <3>2. lostPair' = "no" => lostPair = "no" /\ answer # "register_ack"
      BY <3>1 DEF AnswerUnread
    <3> QED BY <3>1, <3>2
  <2>5. CASE TakeReply
    <3>1. /\ pc = "reply" /\ answer' = "none"
          /\ pair' = (pair \/ answer = "register_ack")
          /\ UNCHANGED <<disk, issued, lostPair>>
      BY <2>5 DEF TakeReply, Credit
    <3>2. CASE answer = "register_ack"
      <4>1. pc' = "callback" /\ pair'
        BY <2>5, <3>1, <3>2 DEF TakeReply, Credit
      <4> QED BY <3>1, <4>1
    <3>3. CASE answer # "register_ack"
      <4>1. pc' \in {"mark", "ended"} /\ (pair' <=> pair)
        BY <2>5, <3>1, <3>3 DEF TakeReply, Credit, TypeOK
      <4> QED BY <3>1, <3>3, <4>1
    <3> QED BY <3>2, <3>3
  <2>6. CASE CallbackTruncates
    BY <2>6 DEF CallbackTruncates
  <2>7. CASE CallbackWrites
    BY <2>7 DEF CallbackWrites
  <2>8. CASE SetEpoch \/ SetFlag \/ SessionEnds
    BY <2>8 DEF SetEpoch, SetFlag, SessionEnds
  <2> QED BY <1>1, <2>1, <2>2, <2>3, <2>4, <2>5, <2>6, <2>7, <2>8 DEF Attempt
<1>2. CASE Conclude
  BY <1>2 DEF Conclude
<1>3. CASE BackoffOver \/ LoopStopped \/ RequestShutdown
  BY <1>3 DEF BackoffOver, LoopStopped, RequestShutdown
<1>4. CASE Crash
  <2>1. /\ pc' = "down" /\ answer' = "none" /\ pair' = FALSE
        /\ UNCHANGED <<disk, issued>>
    BY <1>4 DEF Crash
  <2>2. CASE lostPair' = "no"
    <3>1. pc \notin {"callback", "writing"} /\ lostPair = "no"
          /\ answer # "register_ack"
      BY <1>4, <2>2 DEF Crash, AnswerUnread
    <3> QED BY <2>1, <3>1
  <2> QED BY <2>1, <2>2
<1>5. CASE Restart
  BY <1>5 DEF Restart, TypeOK
<1>6. CASE Stopped \/ UNCHANGED vars
  BY <1>6 DEF Stopped, vars
<1> QED BY <1>1, <1>2, <1>3, <1>4, <1>5, <1>6 DEF Next

\* Credentials the manager issued are on their way, in the process or on disk,
\* unless one of the two windows lost them; through any deaths of the process.
THEOREM IssuedPairAccountedFor == Spec => []PairAccountedFor
<1>1. Init => Kept /\ PairAccountedFor
  BY DEF Init, Kept, PairAccountedFor
<1> QED BY TypeInit, TypeStep, KeptStep, <1>1, PTL DEF Spec

\* A gateway with credentials is never answered auth_error.
THEOREM NeverRefusedOnceRegistered == Spec => []NotRefusedOnceRegistered
<1>1. Init => Kept /\ PairAccountedFor
  BY DEF Init, Kept, PairAccountedFor
<1>2. Kept => NotRefusedOnceRegistered
  BY DEF Kept, NotRefusedOnceRegistered
<1> QED BY TypeInit, TypeStep, KeptStep, <1>1, <1>2, PTL DEF Spec

-----------------------------------------------------------------------------
(* The backoff.                                                             *)

\* The delay last slept is the one of the attempt last counted.
Slept == IF attempt = 0 THEN delay = 0 ELSE delay = DelayFor(attempt)

\* Every step keeps the delay and the count together.
LEMMA SleptStep == TypeOK /\ Slept /\ [Next]_vars => Slept'
<1> SUFFICES ASSUME TypeOK, Slept, [Next]_vars PROVE Slept'
  OBVIOUS
<1>1. CASE Conclude
  <2>1. CASE pc' = "backoff"
    <3>1. attempt' = NextAttempt /\ delay' = DelayFor(NextAttempt)
      BY <1>1, <2>1 DEF Conclude
    <3>2. NextAttempt \in 1..(Len(Steps) + 1) /\ Len(Steps) \in Nat
      BY Counted, LoopAssumption DEF TypeOK
    <3>3. DelayFor(NextAttempt) = DelayFor(attempt')
      BY <3>1
    <3> QED BY <3>1, <3>2, <3>3 DEF Slept, DelayFor
  <2>2. CASE pc' # "backoff"
    BY <1>1, <2>2 DEF Conclude, Slept, DelayFor
  <2> QED BY <2>1, <2>2
<1>2. CASE Crash
  BY <1>2 DEF Crash, Slept
<1>3. CASE ~Conclude /\ ~Crash
  <2>1. UNCHANGED <<attempt, delay>>
    BY <1>3 DEF Next, Attempt, Dial, DialDone, AuthSent, ManagerAnswers,
         AttemptFails, AttemptStopped, TakeReply, Credit, CallbackTruncates,
         CallbackWrites, SetEpoch, SetFlag, SessionEnds, BackoffOver,
         LoopStopped, RequestShutdown, Restart, Stopped, vars
  <2> QED BY <2>1 DEF Slept, DelayFor
<1> QED BY <1>1, <1>2, <1>3

\* After a session that did not end by a clean close the delay does not fall.
LEMMA Longer ==
    ASSUME TypeOK, Slept, [Next]_vars,
           pc = "ended", pc' = "backoff", end # "closed"
    PROVE  delay' >= delay
<1> DEFINE n == Len(Steps)
<1>1. n \in Nat /\ n > 0 /\ DOMAIN Steps = 1..n
      /\ \A i \in 1..n : Steps[i] \in Nat
  BY LoopAssumption
<1>2. attempt' = NextAttempt /\ delay' = DelayFor(NextAttempt)
  <2>1. CASE Conclude
    BY <2>1 DEF Conclude
  <2>2. CASE ~Conclude
    BY <2>2 DEF Next, Attempt, Dial, DialDone, AuthSent, ManagerAnswers,
         AttemptFails, AttemptStopped, TakeReply, Credit, CallbackTruncates,
         CallbackWrites, SetEpoch, SetFlag, SessionEnds, BackoffOver,
         LoopStopped, RequestShutdown, Crash, Restart, Stopped, vars
  <2> QED BY <2>1, <2>2
<1>3. attempt \in 0..(n + 1)
      /\ NextAttempt = IF attempt > n THEN attempt ELSE attempt + 1
  BY DEF NextAttempt, TypeOK
<1>4. CASE attempt = 0
  BY <1>1, <1>2, <1>3, <1>4 DEF Slept, DelayFor
<1>5. CASE attempt > 0
  <2> DEFINE i == IF attempt > n THEN n ELSE attempt
             j == IF NextAttempt > n THEN n ELSE NextAttempt
  <2>1. i \in 1..n /\ j \in 1..n /\ i <= j
    BY <1>1, <1>3, <1>5
  <2>2. Steps[i] <= Steps[j]
    BY <1>1, <2>1, LoopAssumption
  <2>3. delay = Steps[i] /\ delay' = Steps[j]
    BY <1>2, <1>3, <1>5 DEF Slept, DelayFor
  <2> QED BY <1>1, <2>1, <2>2, <2>3
<1> QED BY <1>1, <1>3, <1>4, <1>5

\* For any table that does not fall: the wait only gets shorter after a clean
\* close.
THEOREM BackoffOnlyResetByClose == Spec => BackoffHolds
<1>1. Init => Slept
  BY DEF Init, Slept
<1>2. TypeOK /\ Slept /\ [Next]_vars
        => [pc = "ended" /\ pc' = "backoff" /\ end # "closed"
              => delay' >= delay]_vars
  BY Longer
<1> QED BY TypeInit, TypeStep, SleptStep, <1>1, <1>2, PTL DEF Spec, BackoffHolds
=============================================================================

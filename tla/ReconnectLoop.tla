--------------------------- MODULE ReconnectLoop ---------------------------
(***************************************************************************)
(* GatewayClient::run and one_connection: the loop that dials the manager  *)
(* URLs in turn, authenticates with the registration token or with the     *)
(* credentials it was given for it, publishes the link state, backs off    *)
(* and dials again; and CredentialStore, where the vendor's on_register    *)
(* callback keeps the credentials for the next start of the process.       *)
(*                                                                         *)
(* What happens inside a session, and the drain after the loop, is         *)
(* CommandLink's subject: here a session is up and then ends.              *)
(*                                                                         *)
(* A definition directly above another and named after it with a suffix is *)
(* a plausible bug in the one below it; no specification uses it.          *)
(***************************************************************************)
EXTENDS Integers, Sequences

CONSTANTS
    Urls,        \* how many manager URLs are configured
    Answering,   \* the indices of those whose manager answers at all
    Steps,       \* ReconnectBackoff's steps_secs
    MaxCrashes   \* bound: deaths of the process

Index == 0..(Urls - 1)

ASSUME LoopAssumption ==
    /\ Urls \in Nat \ {0}
    /\ Answering \subseteq Index
    /\ Steps \in Seq(Nat) /\ Steps # <<>>
    /\ \A i, j \in DOMAIN Steps : i <= j => Steps[i] <= Steps[j]
    /\ MaxCrashes \in Nat

VARIABLES
    pc,         \* where the process is
    cursor,     \* url_cursor, modulo the number of URLs
    attempt,    \* retries since the last clean close, up to Len(Steps) + 1
    end,        \* how the last connection ended
    delay,      \* the backoff last slept
    shutdown,
    pair,       \* the process holds node_id and node_secret
    token,      \* it holds the registration token
    sentWith,   \* what the auth frame carried
    answer,     \* the manager's reply on its way
    connected, epoch,   \* ConnectionState; epoch is "current" if it was
                        \* stamped for the session coming up or up
    disk,       \* credentials.json: "none", "torn" or "pair"
    issued,     \* the manager has exchanged the token for credentials
    lostPair,   \* where those were lost, if they were
    crashes

vars == <<pc, cursor, attempt, end, delay, shutdown, pair, token, sentWith,
          answer, connected, epoch, disk, issued, lostPair, crashes>>

\* The token is in the configuration file, where it stays unless somebody
\* removes it.
Init ==
    /\ pc = "top" /\ cursor = 0 /\ attempt = 0 /\ end = "none" /\ delay = 0
    /\ shutdown = FALSE /\ pair = FALSE /\ token = TRUE
    /\ sentWith = "none" /\ answer = "none"
    /\ connected = FALSE /\ epoch = "none"
    /\ disk = "none" /\ issued = FALSE /\ lostPair = "no"
    /\ crashes = 0

-----------------------------------------------------------------------------
(* One turn of the loop.                                                    *)

\* The shutdown check, then the dial of the URL under the cursor.
Dial ==
    /\ pc = "top" /\ ~shutdown
    /\ pc' = "dial"
    /\ UNCHANGED <<cursor, attempt, end, delay, shutdown, pair, token,
                   sentWith, answer, connected, epoch, disk, issued, lostPair,
                   crashes>>

\* DNS, TCP, TLS and the upgrade.
DialDone ==
    /\ pc = "dial" /\ cursor \in Answering
    /\ pc' = "auth"
    /\ UNCHANGED <<cursor, attempt, end, delay, shutdown, pair, token,
                   sentWith, answer, connected, epoch, disk, issued, lostPair,
                   crashes>>

\* The auth frame carries the credentials if there are any, else the token.
AuthWithTokenFirst == IF token THEN "token" ELSE "pair"
AuthWith == IF pair THEN "pair" ELSE "token"

AuthSent ==
    /\ pc = "auth"
    /\ pc' = "reply" /\ sentWith' = AuthWith
    /\ UNCHANGED <<cursor, attempt, end, delay, shutdown, pair, token, answer,
                   connected, epoch, disk, issued, lostPair, crashes>>

\* The manager (not under src/): it exchanges the token once, and knows the
\* credentials it issued.
ManagerAnswers ==
    /\ pc = "reply" /\ answer = "none"
    /\ issued' = (issued \/ sentWith = "token")
    /\ answer' = CASE sentWith = "pair" -> "auth_ok"
                   [] sentWith = "token" /\ ~issued -> "register_ack"
                   [] OTHER -> "auth_error"
    /\ UNCHANGED <<pc, cursor, attempt, end, delay, shutdown, pair, token,
                   sentWith, connected, epoch, disk, lostPair, crashes>>

\* The credentials are on their way and will not be read.
AnswerUnread == IF answer = "register_ack" THEN "reply" ELSE lostPair

\* A dial, a write of the auth frame or a wait for its reply fails, or its
\* deadline passes.
DeadlineMissing ==
    /\ pc \in {"dial", "auth", "reply"} /\ cursor \in Answering
    /\ pc' = "ended" /\ end' = "failed"
    /\ lostPair' = AnswerUnread
    /\ sentWith' = "none" /\ answer' = "none"
    /\ UNCHANGED <<cursor, attempt, delay, shutdown, pair, token, connected,
                   epoch, disk, issued, crashes>>

AttemptFails ==
    /\ pc \in {"dial", "auth", "reply"}
    /\ pc' = "ended" /\ end' = "failed"
    /\ lostPair' = AnswerUnread
    /\ sentWith' = "none" /\ answer' = "none"
    /\ UNCHANGED <<cursor, attempt, delay, shutdown, pair, token, connected,
                   epoch, disk, issued, crashes>>

\* Each of those awaits is raced against shutdown, with no priority.
AttemptStopped ==
    /\ pc \in {"dial", "auth", "reply"} /\ shutdown
    /\ pc' = "ended" /\ end' = "shutdown"
    /\ lostPair' = AnswerUnread
    /\ sentWith' = "none" /\ answer' = "none"
    /\ UNCHANGED <<cursor, attempt, delay, shutdown, pair, token, connected,
                   epoch, disk, issued, crashes>>

\* parse_auth_response, and what follows up to the callback.
Credit(next) ==
    /\ pc = "reply" /\ answer # "none"
    /\ pc' = CASE answer = "register_ack" -> next
               [] answer = "auth_ok" -> "mark"
               [] answer = "auth_error" -> "ended"
    /\ end' = IF answer = "auth_error" THEN "failed" ELSE end
    /\ pair' = (pair \/ answer = "register_ack")
    /\ token' = (token /\ answer # "register_ack")
    /\ sentWith' = "none" /\ answer' = "none"
    /\ UNCHANGED <<cursor, attempt, delay, shutdown, connected, epoch, disk,
                   issued, lostPair, crashes>>

TakeReplyUnreported == Credit("mark")
TakeReply == Credit("callback")

\* on_register: persist_credentials truncates the file, then writes it.
CallbackTruncates ==
    /\ pc = "callback"
    /\ pc' = "writing" /\ disk' = "torn"
    /\ UNCHANGED <<cursor, attempt, end, delay, shutdown, pair, token,
                   sentWith, answer, connected, epoch, issued, lostPair,
                   crashes>>

CallbackWrites ==
    /\ pc = "writing"
    /\ pc' = "mark" /\ disk' = "pair"
    /\ UNCHANGED <<cursor, attempt, end, delay, shutdown, pair, token,
                   sentWith, answer, connected, epoch, issued, lostPair,
                   crashes>>

\* set_connected: first the epoch, then the flag.
SetFlagFirst ==
    /\ pc = "mark"
    /\ pc' = "flag" /\ connected' = TRUE
    /\ UNCHANGED <<cursor, attempt, end, delay, shutdown, pair, token,
                   sentWith, answer, epoch, disk, issued, lostPair, crashes>>

SetEpoch ==
    /\ pc = "mark"
    /\ pc' = "flag" /\ epoch' = "current"
    /\ UNCHANGED <<cursor, attempt, end, delay, shutdown, pair, token,
                   sentWith, answer, connected, disk, issued, lostPair,
                   crashes>>

SetFlag ==
    /\ pc = "flag"
    /\ pc' = "up" /\ connected' = TRUE
    /\ UNCHANGED <<cursor, attempt, end, delay, shutdown, pair, token,
                   sentWith, answer, epoch, disk, issued, lostPair, crashes>>

\* run_session returns: the manager closed the session, it was lost, or
\* shutdown was requested.
SessionEnds ==
    /\ pc = "up"
    /\ pc' = "ended"
    /\ \/ end' \in {"closed", "lost"}
       \/ shutdown /\ end' = "shutdown"
    /\ UNCHANGED <<cursor, attempt, delay, shutdown, pair, token, sentWith,
                   answer, connected, epoch, disk, issued, lostPair, crashes>>

\* attempt counts on from 0 after a clean close.  Past the last step the
\* delay stays the same, so the count may too.
NextAttemptResetByAuth ==
    LET counted == IF end \in {"closed", "lost"} THEN 0 ELSE attempt
    IN  IF counted > Len(Steps) THEN counted ELSE counted + 1

NextAttempt ==
    LET counted == IF end = "closed" THEN 0 ELSE attempt
    IN  IF counted > Len(Steps) THEN counted ELSE counted + 1

\* delay_for_attempt
DelayFor(n) == Steps[IF n > Len(Steps) THEN Len(Steps) ELSE n]

\* Whatever the end, the link state is down, and the next URL is up next.
NextUrlUnwrapped == cursor + 1
NextUrl == (cursor + 1) % Urls

SetDisconnected ==
    /\ connected' = FALSE
    /\ epoch' = IF epoch = "current" THEN "old" ELSE epoch

\* The end of the loop's turn: the loop breaks off for shutdown, or the cursor
\* moves, the attempt is counted and the backoff begins.
Conclude ==
    /\ pc = "ended"
    /\ SetDisconnected
    /\ \/ /\ end = "shutdown" \/ shutdown
          /\ pc' = "exited"
          /\ UNCHANGED <<cursor, attempt, delay>>
       \/ /\ end # "shutdown" /\ ~shutdown
          /\ pc' = "backoff"
          /\ cursor' = NextUrl
          /\ attempt' = NextAttempt
          /\ delay' = DelayFor(NextAttempt)
    /\ UNCHANGED <<end, shutdown, pair, token, sentWith, answer, disk, issued,
                   lostPair, crashes>>

BackoffOver ==
    /\ pc = "backoff"
    /\ pc' = "top"
    /\ UNCHANGED <<cursor, attempt, end, delay, shutdown, pair, token,
                   sentWith, answer, connected, epoch, disk, issued, lostPair,
                   crashes>>

\* Shutdown at the top of the loop or during the backoff.
LoopStopped ==
    /\ pc \in {"top", "backoff"} /\ shutdown
    /\ pc' = "exited"
    /\ UNCHANGED <<cursor, attempt, end, delay, shutdown, pair, token,
                   sentWith, answer, connected, epoch, disk, issued, lostPair,
                   crashes>>

RequestShutdown ==
    /\ ~shutdown /\ pc \notin {"exited", "down", "refused"}
    /\ shutdown' = TRUE
    /\ UNCHANGED <<pc, cursor, attempt, end, delay, pair, token, sentWith,
                   answer, connected, epoch, disk, issued, lostPair, crashes>>

-----------------------------------------------------------------------------
(* The process dies and is started again.                                   *)

\* The credentials go with it if the callback had not put them on disk.
Crash ==
    /\ pc \notin {"exited", "down", "refused"} /\ crashes < MaxCrashes
    /\ crashes' = crashes + 1
    /\ pc' = "down"
    /\ lostPair' = IF pc \in {"callback", "writing"} THEN "crash"
                     ELSE AnswerUnread
    /\ cursor' = 0 /\ attempt' = 0 /\ end' = "none" /\ delay' = 0
    /\ shutdown' = FALSE /\ pair' = FALSE /\ token' = TRUE
    /\ sentWith' = "none" /\ answer' = "none"
    /\ connected' = FALSE /\ epoch' = "none"
    /\ UNCHANGED <<disk, issued>>

\* load_credentials: no file, the credentials, or a file that does not parse,
\* on which the vendor's start fails.
Restart ==
    /\ pc = "down"
    /\ pc' = IF disk = "torn" THEN "refused" ELSE "top"
    /\ pair' = (disk = "pair")
    /\ UNCHANGED <<cursor, attempt, end, delay, shutdown, token, sentWith,
                   answer, connected, epoch, disk, issued, lostPair, crashes>>

Stopped == pc \in {"exited", "refused"} /\ UNCHANGED vars

-----------------------------------------------------------------------------

Attempt ==
    \/ Dial \/ DialDone \/ AuthSent \/ ManagerAnswers
    \/ AttemptFails \/ AttemptStopped \/ TakeReply
    \/ CallbackTruncates \/ CallbackWrites \/ SetEpoch \/ SetFlag
    \/ SessionEnds

Next ==
    \/ Attempt \/ Conclude \/ BackoffOver \/ LoopStopped \/ RequestShutdown
    \/ Crash \/ Restart \/ Stopped

\* Plain code runs on and deadlines pass.  A manager that answers at all does
\* so before the deadline if it is asked often enough.  Nothing ends a session or
\* shuts the gateway down.
Fairness ==
    /\ WF_vars(Dial) /\ WF_vars(AttemptFails)
    /\ WF_vars(CallbackTruncates) /\ WF_vars(CallbackWrites)
    /\ WF_vars(SetEpoch) /\ WF_vars(SetFlag)
    /\ WF_vars(Conclude) /\ WF_vars(BackoffOver) /\ WF_vars(LoopStopped)
    /\ WF_vars(Restart)
    /\ SF_vars(DialDone) /\ SF_vars(AuthSent) /\ SF_vars(ManagerAnswers)
    /\ SF_vars(TakeReply)

Spec == Init /\ [][Next]_vars
FairSpec == Spec /\ Fairness

-----------------------------------------------------------------------------
(* Properties.                                                              *)

TypeOK ==
    /\ pc \in {"top", "dial", "auth", "reply", "callback", "writing", "mark",
               "flag", "up", "ended", "backoff", "exited", "down", "refused"}
    /\ cursor \in Index /\ attempt \in 0..(Len(Steps) + 1)
    /\ end \in {"none", "failed", "closed", "lost", "shutdown"}
    /\ delay \in {0} \cup {Steps[i] : i \in DOMAIN Steps}
    /\ shutdown \in BOOLEAN /\ pair \in BOOLEAN /\ token \in BOOLEAN
    /\ sentWith \in {"none", "token", "pair"}
    /\ answer \in {"none", "register_ack", "auth_ok", "auth_error"}
    /\ connected \in BOOLEAN /\ epoch \in {"none", "old", "current"}
    /\ disk \in {"none", "torn", "pair"}
    /\ issued \in BOOLEAN /\ lostPair \in {"no", "reply", "crash"}
    /\ crashes \in 0..MaxCrashes

\* A task that reads the link state between any two steps of the loop and sees
\* it up finds the connect time of the session that is up, and never sees a
\* link while nothing is authenticated.
LinkStateTruthful ==
    connected => pc \in {"up", "ended"} /\ epoch = "current"

\* The wait between attempts only ever gets shorter after a clean close: a
\* manager that authenticates the gateway and then drops it does not make it
\* hammer the URLs.
BackoffHolds ==
    [][pc = "ended" /\ pc' = "backoff" /\ end # "closed"
         => delay' >= delay]_vars

\* The credentials the manager issued are on their way, in the process or on
\* disk, unless they were lost in one of two windows: the reply was not read,
\* or the process died before the callback had written them.
PairAccountedFor ==
    /\ issued /\ lostPair = "no"
    => answer = "register_ack" \/ pair \/ disk = "pair"

\* A gateway that holds credentials is never refused for having sent the token
\* again, also after a restart with the token still in its configuration.
NotRefusedOnceRegistered ==
    pair /\ pc = "reply" => answer # "auth_error"

\* A gateway with credentials comes back: if some URL's manager answers, no
\* sequence of failures, silent URLs or lost sessions strands it.
ComesBack == pc = "backoff" /\ pair ~> pc = "up" \/ shutdown \/ pc = "down"
=============================================================================

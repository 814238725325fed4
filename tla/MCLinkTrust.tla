---------------------------- MODULE MCLinkTrust ----------------------------
(***************************************************************************)
(* LinkTrust with two wss URLs and a ws one, and the configurations that   *)
(* tell the modes and their precedence apart.                              *)
(***************************************************************************)
EXTENDS LinkTrust

A == [name |-> "a", wss |-> TRUE]
B == [name |-> "b", wss |-> TRUE]
Plain == [name |-> "a", wss |-> FALSE]
MCUrls == {A, B, Plain}

\* The manager, its renewed certificate, one that does not hold, and the
\* manager's certificate without its key.
Server(chain, leaf, owns) ==
    [reached |-> TRUE, chain |-> chain, leaf |-> leaf, owns |-> owns]
Manager == Server(TRUE, "first", TRUE)
MCServers ==
    {Manager, Server(TRUE, "renewed", TRUE), Server(FALSE, "other", TRUE),
     Server(TRUE, "first", FALSE), Nobody}
MCStart == [url \in MCUrls |-> Manager]

Pin(form, leaf) == [form |-> form, leaf |-> leaf]
Basic ==
    [urls |-> <<A, B>>, plaintext |-> FALSE, selfSigned |-> FALSE,
     pin |-> Pin("none", "none"), id |-> TRUE, secret |-> TRUE, token |-> FALSE,
     heartbeat |-> 15]

MCFiles ==
    {Basic,
     [Basic EXCEPT !.pin = Pin("colons", "first"), !.selfSigned = TRUE],
     [Basic EXCEPT !.pin = Pin("plain", "renewed")],
     [Basic EXCEPT !.pin = Pin("malformed", "none")],
     [Basic EXCEPT !.pin = Pin("blank", "none")],
     [Basic EXCEPT !.selfSigned = TRUE],
     [Basic EXCEPT !.urls = <<A, Plain>>],
     [Basic EXCEPT !.urls = <<A, Plain>>, !.plaintext = TRUE],
     [Basic EXCEPT !.urls = <<A, A>>],
     [Basic EXCEPT !.id = FALSE]}
=============================================================================

---------------------------- MODULE MCOutputBuffer ----------------------------
(* A small instance of OutputBuffer for TLC. *)
EXTENDS OutputBuffer

\* A client whose array must grow, and a backend with room for all requests.
ClientAndBackend == {<<FALSE, 2>>, <<TRUE, 9>>}

\* Replies of one to five fragments, one of them longer than two payloads.
SomeReplies == {<<1>>, <<2, 2>>, <<7, 1>>, <<1, 1, 1, 1, 1>>}

\* "get ", the key, "\r\n"
Gets == {<<2, 1, 1>>}
=============================================================================

------------------------------ MODULE MCProxy ------------------------------
(***************************************************************************)
(* Requests and replies for model-checking Proxy.  Two hosts, three paths; *)
(* clients that send a Host line or do not.                                *)
(***************************************************************************)
EXTENDS Proxy

Get(hostname, path, lines) == [hostname |-> hostname, path |-> path, lines |-> lines]
Reply(size, text) == [size |-> size, text |-> text]

(* Three keys, and a line that is not a header. *)
SomeRequests == {Get("a", "/x", <<"Host", "bad">>), Get("a", "/y", <<>>), Get("b", "/w", <<"Host">>)}

(* The empty reply, two that fit, one of them with a NUL byte, and one above MAX_OBJECT_SIZE. *)
SomeReplies == {Reply(0, TRUE), Reply(2, TRUE), Reply(3, FALSE), Reply(4, TRUE)}

TwoPaths == {Get("a", "/x", <<>>), Get("a", "/y", <<>>)}

OneReply == {Reply(2, TRUE)}
=============================================================================

------------------------------ MODULE MCRelay ------------------------------
(***************************************************************************)
(* Peers for model-checking Relay.  The byte 1 begins a line, COLON is 58, *)
(* CR 13 and NEWLINE 10.                                                   *)
(***************************************************************************)
EXTENDS Relay

TwoFds == {"client", "server"}
AllBytes == 0 .. 255
TheRequest == <<7>>
TheDefaults == <<8>>

Request == <<1, 10>>
Header  == <<2, 58, 13, 10>>
Another == <<4, 58, 13, 10>>
Bad     == <<3, 10>>

Long    == Request \o Header \o Bad \o Another \o <<13, 10, 4>>

(* Two headers, a line between them that is none, what follows the         *)
(* request; a request that is cut off; a line as long as the buffer whose  *)
(* rest looks empty; a header without and one with a NEWLINE after its CR, *)
(* and one with a NUL.                                                     *)
SomeClients == {Long, Request \o <<13, 10>>, Request \o Header,
                Request \o <<5, 5, 58, 5, 13, 10, 13, 10>>,
                Request \o <<58, 13, 6, 10, 58, 13, 10, 58, 0, 13, 10, 13, 10>>}

(* Nothing; one read; exactly MAX_OBJECT_SIZE; one byte more; a NUL in the *)
(* first piece, and one in the second.                                     *)
SomeServers == {<<>>, <<1, 2, 3>>, <<1, 2, 3, 4, 5, 6, 7>>, <<1, 2, 3, 4, 5, 6, 7, 8>>,
                <<1, 0, 3, 4, 5, 6>>, <<1, 2, 3, 4, 5, 0, 7>>}

SomeAddrs == {<<"ok">>, <<"nosocket", "refused", "ok">>, <<"refused", "badclose">>, <<"refused">>, <<>>}

Case(client, closes, server, found, left) ==
  [client |-> client, fin |-> closes, server |-> server, addrs |-> found, left |-> left]

Short == Request \o <<13, 10>>

(* Any client and a short response; any server; any addresses; and what    *)
(* makes the two headers one byte too long for Request_buf.                *)
SomeCases ==
  {Case(c, f, <<1, 2>>, <<"ok">>, <<>>) : c \in SomeClients, f \in BOOLEAN}
    \cup {Case(Short, FALSE, s, <<"ok">>, <<9>>) : s \in SomeServers}
    \cup {Case(Short, FALSE, <<>>, a, <<>>) : a \in SomeAddrs}
    \cup {Case(Long, FALSE, <<>>, <<"ok">>, <<9>>)}
=============================================================================

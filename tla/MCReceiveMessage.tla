--------------------------- MODULE MCReceiveMessage ---------------------------
(***************************************************************************)
(* The requests ReceiveMessage is checked with.                            *)
(***************************************************************************)
EXTENDS ReceiveMessage

Get   == <<"G", "E", "SP">>
Http0 == <<"SP", "H", "T", "T", "P", "/", "2", ".", "0", "CR", "LF">>
Http1 == <<"SP", "H", "T", "T", "P", "/", "2", ".", "2", "CR", "LF">>
Blank == <<"CR", "LF">>
NoBody == <<"C", "O", "T", "E", ":", "0", "CR", "LF">>

Request(b, u, a, m) == [before |-> b, url |-> u, after |-> a, more |-> m]

(* In order: a whole header; an absolute URL with a query; an empty line   *)
(* first, and a bare LF; a NUL, which ends the string; a body; a second    *)
(* request that fills the buffer; and a request that does not fit it.      *)
Plain    == Request(Get, <<"/", "O", "K">>, Http0 \o Blank, <<>>)
Host     == Request(Get, <<"T", ":", "/", "/", "O", "/", "N", "?", "U">>,
                    Blank \o Blank, <<>>)
Early    == Request(Blank \o Get, <<"/", "E">>, <<"LF">>, <<>>)
Cut      == Request(Get, <<"/", "P">>, <<"NUL">> \o Http0 \o Blank, <<>>)
Posted   == Request(Get, <<"/">>, Http1 \o Blank, <<"O", "O", "O", "O">>)
Twice    == Request(Get, <<"/", "O", "N">>, Http1 \o NoBody \o Blank,
                    Get \o <<"/", "LF">>)
Long     == Request(Get, <<"/">> \o [i \in 1 .. 28 |-> "T"], Blank, <<>>)

SomeRequests == {Plain, Host, Early, Cut, Posted, Twice, Long}
OneWhole     == {Plain, Host}
SomeBehind   == {<<>>, <<"G">>, <<"SP", "/", "H">>}
=============================================================================

----------------------------- MODULE MCHttpConn -----------------------------
(* Small instances of HttpConn for TLC.                                     *)
EXTENDS HttpConn

End == <<CR, LF>>

FirstLines == {<<"get">> \o End, <<"post">> \o End, End, <<"get", LF>>}
HeaderLines == {<< >>, <<"text">> \o End, <<"close">> \o End, <<"length">> \o End, <<"text", CR>>}
Bodies == {<< >>, <<"text">>, <<LF, "text">>}

(* One request, with or without a mistake in it.                            *)
OneRequest ==
  {first \o header \o header2 \o End \o body :
     first \in FirstLines, header \in HeaderLines, header2 \in HeaderLines, body \in Bodies}

(* Two requests, the second of which may arrive while the first one is      *)
(* read, processed or answered.                                             *)
Request == <<"get">> \o End \o End
TwoRequests == {Request \o second : second \in {Request, <<"post">> \o End \o End, End}}

OneAndTwoRequests == OneRequest \cup TwoRequests
=============================================================================

------------------------------- MODULE MCAssembly -----------------------------
(***************************************************************************)
(* Messages for Assembly: some the parsers are made for, and some they     *)
(* take for something else.                                                *)
(***************************************************************************)
EXTENDS Assembly, TLC

MCPart == STRING \ {""}
MCNumeral == ("0" :> 0) @@ ("1" :> 1) @@ ("2" :> 2) @@ ("3" :> 3) @@ ("443" :> 443)

Has(name, value)   == [name |-> name, value |-> value, glued |-> FALSE]
Glued(name, value) == [name |-> name, value |-> value, glued |-> TRUE]

Asks(method, url, fields, body) ==
  [start |-> <<<<method>>, url, <<"HTTP/1.1">>>>, fields |-> fields, body |-> body]
Answers(fields, body) ==
  [start |-> <<<<"HTTP/1.1">>, <<"200">>, <<"OK">>>>, fields |-> fields, body |-> body]

x    == <<"x">>
Url  == <<"h">>
Tls  == <<"h", "443">>
Host == Has("Host", <<Url>>)

MCRequests == {
  Asks("GET", Url, <<Host>>, <<>>),
  Asks("GET", Url, <<Has("Accept", <<x, x>>), Has("Host", <<Tls>>)>>, <<>>),
  Asks("CONNECT", Tls, <<>>, <<>>),
  Asks("GET", Url, <<Glued("Host", <<Url>>), Has("Accept", <<x>>)>>, <<>>),
  Asks("GET", Url, <<Has("Host", <<>>)>>, <<>>),
  Asks("POST", Url, <<Host, Has("Content-Length", <<<<"2">>>>)>>, <<x, x>>) }

Length(n) == Has("Content-Length", <<<<n>>>>)

MCResponses == {
  Answers(<<Length("1")>>, <<x>>),
  Answers(<<Length("2"), Has("Cache-Control", <<<<"max-age", "3">>>>)>>, <<x, x>>),
  Answers(<<Has("Cache-Control", <<<<"max-age", "1">>, x>>), Length("1")>>, <<x>>),
  Answers(<<Has("Cache-Control", <<x, <<"max-age", "3">>>>), Length("0")>>, <<>>),
  Answers(<<>>, <<x>>),
  Answers(<<Length("1")>>, <<x, x>>),
  Answers(<<Length("1"), Has("Vary", <<<<"Content-Length">>>>)>>, <<x>>),
  Answers(<<Has("Content-Length", <<>>)>>, <<>>),
  Answers(<<Length("3"), Has("Vary", <<x, x, x>>)>>, <<x, x, x>>) }

===============================================================================

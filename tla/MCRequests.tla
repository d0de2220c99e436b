----------------------------- MODULE MCRequests -----------------------------
EXTENDS Requests

SomeSymbols == {"c", "1", ":", "/", "?", "#", "@", "[", "]", "CR"}
SomeStarts == {<<>>, <<"c", ":", "/", "/">>, <<"c", ":", "/", "/", "c", "%", "@">>,
               <<"c", ":", "/", "/", "1", ":", "1">>, <<"c", ":", "/", "/", "[">>,
               \* one whose request does not fit into the buffer
               <<"c", ":", "/", "/", "c", "/", "c", "c", "c", "c", "c", "c">>}
SomeBases == {<<"/">>, <<"/", "c", "/", "1">>, <<"/", "c", "/", "1", "?", "1">>}
=============================================================================

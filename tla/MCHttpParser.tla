---------------------------- MODULE MCHttpParser ----------------------------
EXTENDS HttpParser

BothTypes == {"HTTP_REQUEST", "HTTP_RESPONSE"}
SomeMethods == {GET, CONNECT}
SomeUrlSymbols == {"c", ":", "/", "?", "#"}
=============================================================================

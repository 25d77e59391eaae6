--------------------------- MODULE MCFpExchange ----------------------------
EXTENDS FpExchange

\* Where the named stubs are.
Stubs(names) == {s.at : s \in {t \in GuestStubs : t.name \in names}}

\* The entry; code that is there only after a fixup; a BRK; code that the
\* snapshot lacks; and a named stub of each kind.
MCPlaces ==
  {Entry, <<\h1a12c6, \ha80>>, <<\h1806ed, \h554>>, <<\h1a12a2, \h694>>}
    \cup Stubs({"_malloc", "_calloc", "_realloc", "_memcpy", "_memset", "_bzero",
                "_AES_CTR_Update", "_CC_SHA512_Final", "_strlen"})

\* Code, a BRK, missing code and a named stub.
MCLinks ==
  {Entry, <<\h1806ed, \h554>>, <<\h1a12a2, \h694>>} \cup Stubs({"_malloc"})

\* Nothing, 0xa4, an address of code, and -1.
MCValues == {0, 164, 1200, 4991}
MCGlobalValues == {1200}
MCTextValues == {1200}
=============================================================================

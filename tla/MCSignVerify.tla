---------------------------- MODULE MCSignVerify ----------------------------
\* SignVerify for TLC: Alice signs; a timestamp has two values.
EXTENDS SignVerify

CONSTANTS Alice, Mallory

MCKeys == {Alice}
MCPubs == {None, Alice, Mallory, Garbled}
MCMessages == {<< >>, <<"a", "b", "c">>}
MCMaxSizes == {None, 2}
MCClocks == {1, TS_MAX + 1}

\* An old version's signature and a stream trailer by Alice, and a signature by
\* Mallory.
MCEarlier == {SignedPayload(TAG_SIGN_LEGACY, Alice, <<"a", "b", "c">>, 1),
              SignedPayload(TAG_AUTH, Alice, <<"a", "b", "c">>, 0),
              SignedPayload(TAG_SIGN, Mallory, << >>, 0)}
=============================================================================

------------------------------ MODULE MCEncrypt -----------------------------
\* Encrypt for TLC: chunks of two or three bytes and a counter of two bits.
EXTENDS Encrypt

MCModes == {Authenticated, Anonymous}
=============================================================================

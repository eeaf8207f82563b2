----------------------------- MODULE MCPipeline -----------------------------
\* Pipeline for TLC: chunks of two bytes, streams of up to three chunks.
EXTENDS Pipeline

CONSTANT Other          \* another recipient

MCModes == {Authenticated, Anonymous}
OddModes == {3}
MCMaxSizes == {None, 3}
MCSenders == {None, Sender, Stranger, Garbled}
NoSender == {None}
NoForeign == {}

PlainFile == {"file"}

\* Streams to the same recipient, signed by the sender, by nobody and by the
\* stranger, and one from the sender to another recipient.
MCForeign ==
    {[session |-> "F1", mode |-> Authenticated, recip |-> Recipient,
      sender |-> Sender, n |-> 3],
     [session |-> "F2", mode |-> Anonymous, recip |-> Recipient,
      sender |-> None, n |-> 2],
     [session |-> "F3", mode |-> Authenticated, recip |-> Recipient,
      sender |-> Stranger, n |-> 1],
     [session |-> "F4", mode |-> Authenticated, recip |-> Other,
      sender |-> Sender, n |-> 2]}
=============================================================================

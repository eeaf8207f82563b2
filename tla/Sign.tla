-------------------------------- MODULE Sign --------------------------------
(***************************************************************************)
(* pipe-k1 sign: the "sign" arm of dispatch_command in main.rs.  Its       *)
(* stdout is Rust's, a LineWriter: what follows the last newline stays in  *)
(* a buffer that process::exit flushes, ignoring errors.                   *)
(***************************************************************************)
EXTENDS Signature

CONSTANTS Keys,          \* the keys that the key intake may return
          Messages,      \* what may be on stdin: sequences of units
          Clocks,        \* readings of the clock, in seconds
          TS_MAX         \* u32::MAX

ASSUME SignAssumption == TS_MAX \in Nat /\ Clocks \subseteq Nat
ASSUME MessagesAssumption == \A m \in Messages : m \in Seq(Range(m))
ASSUME KeysAssumption == None \notin Keys

VARIABLES armor,         \* --armor
          sk, message,   \* the key, and all that stdin holds
          s_read,        \* hasher: what was read of it
          payload,       \* sig_payload
          out,           \* stdout: lines of text with --armor, bytes without
          buffered,      \* bytes in the LineWriter
          spc, sexit

signVars == <<armor, sk, message, s_read, payload, out, buffered, spc, sexit>>

SignInit == /\ armor \in BOOLEAN
            /\ sk = None
            /\ message \in Messages
            /\ s_read = << >>
            /\ payload = None
            /\ out = << >>
            /\ buffered = << >>
            /\ spc = "start"
            /\ sexit = Running

SExit(code) == spc' = "exit" /\ sexit' = code

SUnread == SubSeq(message, Len(s_read) + 1, Len(message))

\* Replaces AtEof: the input ends with a short read.
AtEofShort == SUnread = << >> /\ Len(s_read) % CHUNK_SIZE # 0

\* read() returned 0.
AtEof == SUnread = << >>

\* load_secret_key and SigningKey::from_bytes.
SLoadKey == /\ spc = "start"
            /\ sk' \in Keys
            /\ spc' = "read"
            /\ UNCHANGED <<armor, message, s_read, payload, out, buffered, sexit>>

SRead == /\ spc = "read"
         /\ \E n \in 1 .. CHUNK_SIZE :
                /\ n <= Len(SUnread)
                /\ s_read' = s_read \o SubSeq(SUnread, 1, n)
         /\ UNCHANGED <<armor, sk, message, payload, out, buffered, spc, sexit>>

\* Replaces Timestamp: the seconds are not cut to their width.
TimestampWide(now) == now

\* as_secs() as u32
Timestamp(now) == now % (TS_MAX + 1)

SMakePayload ==
    /\ spc = "read" /\ AtEof
    /\ \E now \in Clocks :
           payload' = sign_stream_payload(sk, s_read, Timestamp(now))
    /\ spc' = "write"
    /\ UNCHANGED <<armor, sk, message, s_read, out, buffered, sexit>>

\* println! of the next of the four lines; each is written out at its newline.
SPrintLine ==
    /\ spc = "write" /\ armor
    /\ out' = Append(out, ArmorLines(payload)[Len(out) + 1])
    /\ spc' = IF Len(out') = Len(ArmorLines(payload)) THEN "flush" ELSE "write"
    /\ UNCHANGED <<armor, sk, message, s_read, payload, buffered, sexit>>

\* write_all: everything up to the last newline byte of the payload, if it has
\* one, goes out, the rest into the buffer.
SWrite ==
    /\ spc = "write" /\ ~armor
    /\ \E n \in 0 .. SIGNATURE_PAYLOAD_SIZE :
           /\ out' = SubSeq(Bytes(payload), 1, n)
           /\ buffered' = SubSeq(Bytes(payload), n + 1, SIGNATURE_PAYLOAD_SIZE)
    /\ spc' = "flush"
    /\ UNCHANGED <<armor, sk, message, s_read, payload, sexit>>

\* The end of main: process::exit(0) flushes stdout.
SFlush == /\ spc = "flush"
          /\ out' = out \o buffered
          /\ buffered' = << >>
          /\ SExit(Success)
          /\ UNCHANGED <<armor, sk, message, s_read, payload>>

sign == SLoadKey \/ SRead \/ SMakePayload \/ SPrintLine \/ SWrite \/ SFlush

\* Replaces PrintFails: the error of a print is dropped.
PrintErrorDropped ==
    /\ spc = "write" /\ armor
    /\ spc' = "flush"
    /\ UNCHANGED <<out, buffered, sexit>>

\* println! panics when it cannot write; part of the line may be out.
PrintFails ==
    /\ spc = "write" /\ armor
    /\ out' \in {out, Append(out, Junk)}
    /\ SExit(Aborted)
    /\ UNCHANGED buffered

\* Every way to fail.  Of the last two, the first write reports an error, the
\* flush at exit does not.
SignFails ==
    /\ \/ /\ spc = "start"
          /\ SExit(UsageError)
          /\ UNCHANGED <<out, buffered>>
       \/ /\ spc = "read"
          /\ \/ SExit(IoError)                               \* read
             \/ AtEof /\ SExit(UsageError)                    \* the clock
          /\ UNCHANGED <<out, buffered>>
       \/ PrintFails
       \/ /\ spc = "write" /\ ~armor
          /\ out' \in {<< >>, <<Bytes(payload)[1]>>}
          /\ SExit(IoError)
          /\ UNCHANGED buffered
       \/ /\ spc = "flush" /\ buffered # << >>
          /\ out' \in {out, Append(out, buffered[1])}
          /\ out' # Bytes(payload)
          /\ buffered' = << >>
          /\ SExit(Success)
    /\ UNCHANGED <<armor, sk, message, s_read, payload>>

\* The file that stdout was redirected to.
SignFile == IF armor THEN TextFile(out) ELSE BinaryFile(out)
=============================================================================

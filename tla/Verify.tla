------------------------------- MODULE Verify -------------------------------
(***************************************************************************)
(* pipe-k1 verify: the "verify" arm of dispatch_command in main.rs.  The   *)
(* signature file and the data on stdin are given by the module that uses  *)
(* this one.  The spooler of --pass-through is SpoolAbs.                   *)
(***************************************************************************)
EXTENDS Signature

CONSTANTS Pubs,          \* values of --pub: None, keys, Garbled
          Garbled,       \* a --pub that is not a key
          MaxSizes       \* values of --max-size

ASSUME MaxSizesAssumption == \A m \in MaxSizes : m = None \/ m \in Nat
ASSUME GarbledAssumption == Garbled # None

VARIABLES expected_pub, pass_through,
          v_file,        \* the signature file, None without --sig
          v_data,        \* all that stdin holds
          v_read,        \* hasher: what was read of it
          v_payload,
          vpc, vexit,
          max_size, offered, emitted, st    \* the spooler

vOptVars == <<expected_pub, pass_through, v_file, v_data>>
vSpoolVars == <<max_size, offered, emitted, st>>
verifyVars == <<expected_pub, pass_through, v_file, v_data, v_read, v_payload,
                vpc, vexit, max_size, offered, emitted, st>>

Spooler == INSTANCE SpoolAbs WITH ChunkSizes <- 0 .. CHUNK_SIZE

\* The command before it is called: the caller sets file and data.
VerifyInit == /\ expected_pub \in Pubs
              /\ pass_through \in BOOLEAN
              /\ v_file = None
              /\ v_data = << >>
              /\ v_read = << >>
              /\ v_payload = None
              /\ vpc = "idle"
              /\ vexit = Running
              /\ Spooler!Init

VUnread == SubSeq(v_data, Len(v_read) + 1, Len(v_data))

VExit(code) == vpc' = "exit" /\ vexit' = code

\* The command returns; a spooler that was not released is dropped.
VLeave(code) == /\ VExit(code)
                /\ st' = "erased"
                /\ UNCHANGED <<vOptVars, v_read, v_payload, max_size, offered,
                               emitted>>

PubMissing == pass_through /\ expected_pub = None

VOptions == /\ vpc = "start"
            /\ IF PubMissing \/ v_file = None THEN VLeave(UsageError)
               ELSE /\ vpc' = "sig"
                    /\ UNCHANGED <<vOptVars, v_read, v_payload, vexit, vSpoolVars>>

VReadSig ==
    /\ vpc = "sig"
    /\ LET d == Detach(v_file)
       IN  IF d.ok /\ Len(d.bytes) = SIGNATURE_PAYLOAD_SIZE
           THEN /\ v_payload' = Payload(d.bytes)
                /\ vpc' = "data"
                /\ UNCHANGED <<vOptVars, v_read, vexit, vSpoolVars>>
           ELSE VLeave(WireCorruption)

\* A read, hashed and, with --pass-through, spooled.
VReadData ==
    /\ vpc = "data"
    /\ \E n \in 1 .. CHUNK_SIZE :
           /\ n <= Len(VUnread)
           /\ v_read' = v_read \o SubSeq(VUnread, 1, n)
           /\ offered' = offered + (IF pass_through THEN n ELSE 0)
    /\ IF Spooler!Within(offered') THEN UNCHANGED <<vpc, vexit, st>>
       ELSE VExit(UsageError) /\ st' = "erased"
    /\ UNCHANGED <<vOptVars, v_payload, max_size, emitted>>

\* --pub is parsed and compared only once the signature was found valid.
Verdict(data) ==
    LET signer == verify_stream_payload(v_payload, data)
    IN  IF signer = None THEN AuthFailure
        ELSE IF expected_pub = Garbled THEN UsageError
        ELSE IF expected_pub \notin {None, signer} THEN AuthFailure
        ELSE Success

VVerdict ==
    /\ vpc = "data" /\ VUnread = << >>
    /\ IF Verdict(v_read) = Success /\ pass_through
       THEN /\ Spooler!Commit
            /\ vpc' = "release"
            /\ UNCHANGED <<vOptVars, v_read, v_payload, vexit>>
       ELSE VLeave(Verdict(v_read))

VRelease == /\ vpc = "release"
            /\ \/ Spooler!Emit /\ UNCHANGED <<vpc, vexit>>
               \/ Spooler!Finish /\ VExit(Success)
            /\ UNCHANGED <<vOptVars, v_read, v_payload>>

verify == VOptions \/ VReadSig \/ VReadData \/ VVerdict \/ VRelease

\* The signature file cannot be read, or the disk of the spooler fails: exit 2.
\* stdin fails, or the release: exit 1.
VerifyFails ==
    \/ vpc = "sig" /\ VLeave(UsageError)
    \/ vpc = "data" /\ VLeave(IoError)
    \/ vpc = "data" /\ pass_through /\ VUnread # << >> /\ VLeave(UsageError)
    \/ /\ vpc = "release"
       /\ Spooler!Fail
       /\ VExit(IoError)
       /\ UNCHANGED <<vOptVars, v_read, v_payload>>
=============================================================================

----------------------------- MODULE SignVerify -----------------------------
(***************************************************************************)
(* sign, then verify: the signature is kept in a file and travels with the *)
(* data.  On the way the file may be replaced by any signature that anyone *)
(* made, with fields altered, cut or armored, and the data by other data.  *)
(* Nobody signs with a key that is not his own.                            *)
(***************************************************************************)
EXTENDS Sign, Verify

CONSTANT Earlier         \* payloads made before: by old versions, others, encrypt

\* Whoever made a payload signed what it says, with the key in it.
ASSUME EarlierAssumption ==
    \A p \in Earlier : p = SignedPayload(p.sig.hash.tag, p.pk, p.sig.hash.msg[2], p.ts)

\* A --pub that is not a key is none of the keys, and no file is no value.
ASSUME NoKeyAssumption == Garbled \notin Keys
ASSUME NoFileAssumption ==
    \A k \in Keys, m \in Messages, t \in 0 .. TS_MAX :
        LET p == SignedPayload(TAG_SIGN, k, m, t)
        IN  None \notin {TextFile(ArmorLines(p)), BinaryFile(Bytes(p)),
                         BinaryFile(<<Bytes(p)[1]>>), BinaryFile(<< >>)}

VARIABLES issued,        \* [pk, ts, digest] of every detached signature made
          faithful       \* the verifier got what sign wrote and the same data,
                         \* and nothing failed it

svVars == <<signVars, verifyVars, issued, faithful>>

SVInit == /\ SignInit
          /\ VerifyInit
          /\ issued = {Fact(p, p.sig.hash.msg[2]) :
                           p \in {e \in Earlier : e.sig.hash.tag # TAG_AUTH}}
          /\ faithful = FALSE

Signer == /\ sign \/ SignFails
          /\ issued' = IF spc = "read" /\ spc' = "write"
                       THEN issued \cup {Fact(payload', s_read)} ELSE issued
          /\ UNCHANGED <<verifyVars, faithful>>

\* A payload as it is, or with one field altered.
Alterations(p) ==
    {p, [p EXCEPT !.known = FALSE]}
        \cup {[p EXCEPT !.ts = t] : t \in 0 .. TS_MAX}
        \cup {[p EXCEPT !.pk = k] : k \in Pubs \ {None, Garbled}}

\* Files made of a payload p, and of halves of two payloads.
Shapes(p) == {BinaryFile(Bytes(p)), TextFile(ArmorLines(p))}
Damaged(p, q) == {BinaryFile(<<Bytes(p)[1]>>), TextFile(<<Base64(Bytes(p))>>),
                  BinaryFile(<<Bytes(p)[1], Bytes(q)[2]>>),
                  TextFile(<<Begin, Junk, End>>)}

\* Files made from what others signed.
Shaped(made) == UNION {Shapes(a) : a \in UNION {Alterations(p) : p \in made}}
OtherFiles == {None} \cup Shaped(Earlier) \cup UNION {Damaged(p, q) : p, q \in Earlier}

\* A sign that failed leaves nothing behind that one that succeeded does not.
Call == /\ vpc = "idle" /\ sexit = Success
        /\ vpc' = "start"
        /\ UNCHANGED <<signVars, expected_pub, pass_through, v_read, v_payload,
                       vexit, vSpoolVars, issued>>

\* pipe-k1 sign < data > file && pipe-k1 verify --sig file < data
CallFaithful == /\ Call
                /\ v_file' = SignFile
                /\ v_data' = message
                /\ faithful' = TRUE

CallAnything ==
    /\ Call
    /\ v_file' \in OtherFiles \cup Shaped({payload})
                        \cup UNION {Damaged(payload, q) : q \in Earlier}
    /\ v_data' \in Messages
    /\ UNCHANGED faithful

Verifier == verify /\ UNCHANGED <<signVars, issued, faithful>>

VerifierFails == VerifyFails /\ faithful' = FALSE /\ UNCHANGED <<signVars, issued>>

SVNext == Signer \/ CallFaithful \/ CallAnything \/ Verifier \/ VerifierFails

\* A process that can go on does; whether anything fails is not promised.
SVSpec == /\ SVInit /\ [][SVNext]_svVars
          /\ WF_svVars(sign /\ Signer)
          /\ WF_svVars(CallFaithful)
          /\ WF_svVars(Verifier)

-----------------------------------------------------------------------------

\* The types of the variables that change.
SVTypeOK ==
    /\ sk \in Keys \cup {None}
    /\ payload # None => payload.ts \in 0 .. TS_MAX
    /\ IsPrefix(s_read, message) /\ IsPrefix(v_read, v_data)
    /\ spc \in {"start", "read", "write", "flush", "exit"}
    /\ sexit \in {Running, Success, IoError, UsageError, Aborted}
    /\ vpc \in {"idle", "start", "sig", "data", "release", "exit"}
    /\ vexit \in {Running, Success, AuthFailure, UsageError}
    /\ offered \in Nat /\ emitted \in 0 .. offered

\* main.rs:1382: --pass-through lets not one byte out, and verify --pub does not
\* succeed, unless the holder of that key made a detached signature over exactly
\* the data on stdin, at the time the file says.  Signatures of stream trailers,
\* by others, over other data or with an altered time do not count.
AcceptsOnlyIssued ==
    (emitted > 0 \/ vexit = Success) =>
        /\ Fact(v_payload, v_data) \in issued
        /\ pass_through => v_payload.pk = expected_pub
        /\ expected_pub \in {None, v_payload.pk}

\* A verify --pass-through that exits with 0 has passed on all of its input, and
\* never more than --max-size: no short read, ceiling or read of several chunks
\* lets it succeed with less.
PassThroughWhole ==
    pass_through =>
        /\ vexit = Success => emitted = Len(v_data)
        /\ max_size # None => emitted <= max_size

\* What sign wrote and reported as a success, verify accepts for the same data,
\* armored or not and at every clock reading, unless an option forbids it; or
\* stdout failed sign unnoticed at its exit (see SuccessDelivers), which verify
\* then finds out.
SignatureRoundTrip ==
    faithful /\ vpc = "exit" =>
        IF PubMissing \/ (pass_through /\ ~Spooler!Within(Len(message)))
        THEN vexit # Success
        ELSE vexit = Success <=>
                 expected_pub \in {None, sk} /\ Detach(SignFile).bytes = Bytes(payload)

\* sign --armor that exits with 0 has written its four lines: a print that fails
\* aborts the process (Cargo.toml: panic = "abort").
ArmorSuccessDelivers ==
    armor /\ sexit = Success => out = ArmorLines(payload)

\* SPECIFICATION.md: exit code 0 is success, a full disk is exit code 2.  So a
\* sign that exits with 0 has delivered the signature.
SuccessDelivers ==
    sexit = Success => out = IF armor THEN ArmorLines(payload) ELSE Bytes(payload)

\* Both commands come to an end; verify is not called if sign failed.
BothEnd == <>(spc = "exit" /\ (vpc = "exit" \/ sexit # Success))
=============================================================================

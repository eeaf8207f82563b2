-------------------------------- MODULE Wire --------------------------------
(***************************************************************************)
(* The wire format that encrypt writes and decrypt reads.  The wire is a   *)
(* sequence of items: a header, chunks and, in mode 1, a trailer.          *)
(* Cryptography is ideal: a key, a MAC, a sealed box and a signature are   *)
(* the record of what went into them, equal only if all of that is equal.  *)
(* A session stands for one ephemeral key with its salt.                   *)
(***************************************************************************)
EXTENDS Runs, ExitCodes

CONSTANTS CHUNK_SIZE,    \* plaintext bytes in a full chunk
          COUNTER_MAX,   \* u64::MAX, the last chunk counter
          None           \* Option::None

ASSUME WireAssumption == /\ CHUNK_SIZE \in Nat \ {0}
                         /\ COUNTER_MAX \in Nat
                         /\ None \notin Nat

Authenticated == 1       \* mode 0x01
Anonymous == 2           \* mode 0x02

-----------------------------------------------------------------------------
(* Primitives.                                                             *)

\* ECDH and HKDF: the ephemeral secret with the recipient's public key, or the
\* recipient's secret with the ephemeral public key, give the same keys.
derive_keys(session, recip) == [session |-> session, recip |-> recip]

\* The MAC over magic, version, mode, ephemeral key, recipient and salt.
compute_header_hmac(key, mode, session, recip) ==
    [key |-> key, mode |-> mode, session |-> session, recip |-> recip]

build_nonce(counter, term_tag) == <<counter, term_tag>>

build_aad(mode, recip, len, counter, term_tag) ==
    <<mode, recip, len, counter, term_tag>>

\* Encryption in place under a key: intact until someone changes a byte.
Seal(key, nonce, aad, data) ==
    [key |-> key, nonce |-> nonce, aad |-> aad, data |-> data, intact |-> TRUE]

\* Decryption succeeds for the key, nonce and additional data of the seal.
SealOpens(box, key, nonce, aad) ==
    /\ box.intact
    /\ box.key = key
    /\ box.nonce = nonce
    /\ box.aad = aad

\* sign_raw over the tagged hash of header MAC and plaintext digest.
AuthSignature(signer, hmac, digest) ==
    [signer |-> signer, hmac |-> hmac, digest |-> digest]

-----------------------------------------------------------------------------
(* Items.                                                                  *)

Header(session, mode, recip) ==
    [type |-> "header", known |-> TRUE, mode |-> mode, session |-> session,
     recip |-> recip,
     hmac |-> compute_header_hmac(derive_keys(session, recip), mode, session,
                                  recip)]

Chunk(session, mode, recip, counter, term_tag, data) ==
    [type |-> "chunk", len |-> RunLen(data), term_tag |-> term_tag,
     box |-> Seal(derive_keys(session, recip), build_nonce(counter, term_tag),
                  build_aad(mode, recip, RunLen(data), counter, term_tag),
                  data)]

Trailer(sender, hmac, digest) ==
    [type |-> "trailer", sender |-> sender,
     sig |-> AuthSignature(sender, hmac, digest)]

\* Bytes that end in the middle of an item, and the end of the stream.
Cut == [type |-> "cut"]
Eof == [type |-> "eof"]

-----------------------------------------------------------------------------
(* The reference: the stream that stands for n bytes of plaintext.         *)

ChunkCount(n) == IF n = 0 THEN 1 ELSE (n + CHUNK_SIZE - 1) \div CHUNK_SIZE

Slices(n) == [i \in 1..ChunkCount(n) |->
                  Run((i - 1) * CHUNK_SIZE, IF i = ChunkCount(n) THEN n
                                            ELSE i * CHUNK_SIZE)]

\* sender is None in anonymous mode, the signing key in authenticated mode.
CanonicalStream(session, mode, recip, sender, n) ==
    LET header == Header(session, mode, recip)
    IN  << header >>
        \o [i \in 1..ChunkCount(n) |->
               Chunk(session, mode, recip, i - 1,
                     IF i = ChunkCount(n) THEN 1 ELSE 0, Slices(n)[i])]
        \o (IF mode = Authenticated
            THEN << Trailer(sender, header.hmac, Slices(n)) >>
            ELSE << >>)
=============================================================================

# pipe-k1: models, checks and proofs

`pipe-k1` (`src/rust/`) is a stateless UNIX filter: `encrypt` and `decrypt` turn
stdin into stdout, `sign`, `verify` and a git shim make and check signatures.
This directory holds TLA+ models of all of these commands, the TLC runs that check
them on small instances, and TLAPS proofs of all invariants of the passing runs, for all
values of the parameters. Cryptography is taken as ideal; what is
examined is the program around it: buffers, boundaries, counters, orders of checks,
failures, and the two processes of a pipeline running against each other.

## 1. Inventory

| component | source | state it keeps | operations | models |
|---|---|---|---|---|
| spooler | `spool.rs` | memory buffer, temporary file, key, block counter, byte count, ceiling | `new`, `write_chunk`, `release_to`, `drop` | `Spool`, `SpoolAbs` |
| encrypt | `main.rs` `run_encrypt` | two chunk buffers, chunk counter, digest | setup, header, `fill_buffer`, chunk loop, trailer | `Encrypt` |
| decrypt | `main.rs` `run_decrypt` | options, keys, chunk counter, digest, a spooler | key, header, chunk loop, trailer, trailing bytes, release | `Decrypt` |
| wire format | `main.rs` `build_nonce`, `build_aad`, `derive_keys`, `compute_header_hmac` | none | header, chunk, trailer | `Wire` |
| pipeline | the shell | a pipe or a file | blocking, EPIPE, end of file | `Pipeline` |
| error codes | `error.rs` | none | `exit_code` | `ExitCodes` |
| command line | `main.rs` `real_main`, `parse_key_intake_args`, loops of `dispatch_command` and `run_git_shim` | loop index, options | dispatch, one round of a loop, refusal | `Options`; what the options can be: the initial states of the commands |
| key intake, BIP-85 | `main.rs` `load_secret_key`, `scrub_all_sensitive_env`, `derive_bip85_operational_key` | environment, descriptors, secret buffers | grab and scrub, one step per source | `KeyIntake` |
| sign | `main.rs` dispatch, `sign_stream_payload` | digest, payload, buffer of stdout | key, read, payload, print or write, flush at exit | `Signature`, `Sign` |
| verify | `main.rs` dispatch, `verify_stream_payload` | payload, digest, a spooler (pass-through) | options, signature file, read, verdict, release | `Signature`, `Verify` |
| git shim | `main.rs` `run_git_shim`, `write_status_fd` | status lines, exit code | sign, verify, status lines | `GitShim` |
| trust database | `main.rs` `resolve_allowed_signers` | none | candidate files, entries | `AllowedSigners` |
| civil date | `main.rs` 1018-1030 | none | days to year, month, day | `CivilDate` |
| `pubkey`, `hash`, `inspect`, bech32, hex, base64 | `main.rs` | none | printing, encoding | not modelled |

How they interact. `encrypt` and `decrypt` share no memory: they meet through a
pipe or a file, as header, chunks and, in mode 1, trailer. `decrypt` gives the
plaintext of each chunk to a spooler and releases it after everything else has
been verified; with `--allow-unverified-stream` it writes it out at once.
`verify --pass-through` uses the same spooler. `sign` and `verify` meet through a
signature file, git and its shim through files, status lines and exit codes. Every
command that needs a key calls the key intake first.

What is hard here:

* *boundaries*: one chunk of lookahead decides the terminal tag while `read()`
  returns any number of bytes; the spooler cuts memory and chunks into blocks at
  the moment its limit is passed;
* *counters* that are nonces: chunk counter and block counter;
* *failure in the middle*: each write, read, open or key can fail, and the exit
  code and what is already on stdout are all that others see;
* *an unreliable world*: a stream cut, altered, reordered or spliced, a temporary
  file that changes between writing and reading;
* *two processes*: a writer that blocks on a full pipe, a reader on an empty one,
  and either of them gone;
* *early returns*: the key intake, `verify` and the shim return from many places, and
  what must have happened by then (wiping, closing, status lines) is in between;
* *precedence*: six sources of a key, nine places for trusted signers, two loops over
  one command line, and in each the question which one wins.

`PROJECT.json` lists these line by line under `hazards`, with the property that
covers each.

## 2. Modules

```
Runs ──┬── Spool ───── SpoolProofs           SpoolAbs <── (refinement) ── Spool
       │      └─ MCSpool                        │
       └── Wire ──┬── Encrypt ── EncryptProofs  │ INSTANCE
                  │      ├─ MCEncrypt   └────┐  │
                  │      └──────────┐        │  │
                  └── Decrypt <─────┼────────┼──┤
                         └───── Pipeline ────┴── PipelineProofs
                                    └─ MCPipeline
                                                │
ExitCodes ── Signature ──┬── Sign ──────────────┼──┐
    │           │        ├── Verify <───────────┘  ├── SignVerify ──┬─ MCSignVerify
    │           │        │      └──────────────────┘                └─ SignVerifyProofs
    │           │        └── GitShim ──┬─ MCGitShim
    │           │               │      └─ GitShimProofs
    │           │               └ INSTANCE AllowedSigners
    │           └── SignatureProofs: under SignVerifyProofs and GitShimProofs
    ├── Options ──┬─ MCOptions
    │             └─ OptionsProofs
    └── KeyIntake ── KeyIntakeProofs         CivilDate
```

`Wire` extends `ExitCodes` too.

**Runs.** Plaintext is never spelled out. A byte *is* its position in the stream
it came from, a buffer is a run `[lo, hi)`. A lost, repeated or moved byte is a
run that does not start where the one before ended, so order and completeness are
properties of two numbers, and a stream of any content is covered.

**SpoolAbs.** What a spooler promises: bytes are offered and held back, nothing is
emitted before `release_to`, then they come out in order, and success means all of
them. Where they are kept does not show.

**Spool.** `StreamSpooler`, field by field. `write_chunk` is one action when it
refuses or stays in memory; a spill continues block by block (`FlushOldMem`,
`FlushChunk`), since a block is what can fail. `release_to` likewise
(`ReleaseBlock`). A block is a record of length field, nonce, additional data and
contents, as it was sealed; it opens only at its own position. `DiskFault` is the
world: it damages the block that is read next, alters its length, exchanges it for
another sealed one or cuts the file off. The history variables `sealed` and `out`
are what was sealed and what went to the output. `disk_file` stays TRUE while
`release_to` holds the file in a local variable.

**Wire.** Items as records. A key, a MAC, a sealed box and a signature are records
of what went into them, equal only if all of that is. A *session* is an ephemeral
key with its salt. `CanonicalStream` is the reference: the stream for n bytes as
SPECIFICATION.md 2.2 describes it.

**Encrypt.** `run_encrypt`. `ReadCur` and `ReadNext` take one `read()` of any size;
`CurFilled` and `NextFilled` end `fill_buffer`; `EmitChunk` is the rest of the loop
body. `Produce` and `CloseInput` are whoever feeds stdin. `STICKY_EOF` tells a pipe,
where the end of input is final, from a growing file or a terminal, where it is not.

**Decrypt.** `run_decrypt`, one action per item read. An action takes the item as a
parameter, so that the composing module decides what the wire delivers. Header
checks are in the order of the code. The spooler is `SpoolAbs`, which `Spool` is
proved to implement and `decrypt` to use as it allows (section 4); its write failures are `ReadChunkFails`, one of the failures of
`decrypt` itself, which `Pipeline` keeps apart from what the wire does.

**Pipeline.** Both commands with a medium between them: a *pipe* of `PIPE_CAP`
items, which blocks and breaks; a *file*, read after `encrypt` has ended; or a
*faulty* medium that delivers, in any order and any number of times, what `encrypt`
wrote, items of other streams, items with one field altered, cut items, or the end.
Only items of the type that `decrypt` reads next are delivered whole: all others are
refused alike, and a cut item stands for them.
`failed` remembers that something local failed `decrypt`, which then owes no round trip.
The standard output's own buffering is not shown: items reach the pipe when they
are written, and a failing write may leave a cut item behind.

**Signature.** What `sign`, `verify` and the shim share: the payload as a record of
timestamp, key and signature, with the tag and digest that went into the latter;
files as bytes or lines; the armor; and the loop that takes it off, as a recursive
function of the line number. What taking it off means is stated apart from the loop, by
where the markers are (`InArmor`, `AreArmored`, `ArmorOf`). Bytes are counted in half
payloads, so that a signature can be wrapped, cut and put together wrongly. A line is one
of BEGIN, END, blank, with a colon, base64, or not base64.

**Sign.** The `sign` arm of `dispatch_command`. stdout is Rust's line writer: lines
go out when they are printed, raw bytes after the last newline byte stay in
`buffered` until `SFlush`, the flush in `process::exit`, whose errors nobody sees.
A failing `println!` panics (`Aborted`).

**Verify.** The `verify` arm. Hashing and spooling are one action, as one round of
the loop; the spooler is `SpoolAbs`.

**SignVerify.** `sign`, then `verify`, either with what `sign` wrote and the same
data (`CallFaithful`) or with anything that can be made from existing signatures
(`CallAnything`): another's or an older one, a trailer's, with altered fields, halves of
two, cut, wrapped, unarmored. `issued` remembers who really signed what and when;
`faithful` that `verify` got what `sign` wrote and nothing failed it.

**Options.** Tokens are strings, and a loop is a table of the tokens it knows. Each
`Round` is one pass of a `while` loop with its index; a command runs one or two loops
over the same tokens (`LoopsOf`). Beside the tokens the model keeps the *items* the caller
wrote, with what was meant by them: what the item's own loop makes of it alone
(`MeansByItself`). A value may be the name of a command, an option of the same loop, or one
of the command's other loop, which then takes it for an option: such a loop is `Disturbed`. A
number that does not parse, and an option at the end of the line without its value, make the
field `Broken`; the code goes on with its default, or with the earlier value. A field is
`Sound` if it is not broken and its loop not disturbed.

**KeyIntake.** `load_secret_key`, one action per source. A key is named after where it
came from. A variable is set or not, and readable or not (`odd`: not UTF-8, which
`env::var` takes for unset); `env` is the table of the environment and `block` the variables
whose bytes are in its memory. A descriptor is made into the File `file` (`FromRawFd`, which
panics on -1), read (`ReadFd`, which may fail with a part of the text read) and dropped
(`DropFd`, or by the return on an error); `open` are the descriptors, `used` those that were
taken. `held` are the buffers that hold a secret and were not wiped: the texts, the vector that
`parse_key_bytes` decodes into (`decoded`), and the words and the seed of a mnemonic.

**AllowedSigners.** `resolve_allowed_signers` as an operator on a *world*: settings under
their new and old names, environment, the `.git` entries from the working directory upwards, signer files.

**GitShim.** `run_git_shim`. A path through the code that ends in status lines puts
them in `pending`; `WriteStatus` is one `write_status_fd`, which may lose its lines
without notice. After signing, git may call the shim again on the result
(`VerifySigned`). `Calls` are the calls git may make; `faults` says whether reads,
writes and the key may fail in this one.

**CivilDate.** The conversion as an operator, and a calendar that goes from day to
day beside it.

## 3. Runs

| run | bounds | shows |
|---|---|---|
| `spool` | memory 3, blocks of 2, chunks of 0, 1, 3, streams to 8, ceiling 5 or none | safety, liveness and refinement of the spooler under I/O errors and disk faults |
| `encrypt` | chunks of 3, counter to 3, input to 13 | canonical stream, nonces, order, silence on usage errors, termination |
| `pipeline` | chunks of 2, counter to 3, input to 7, a pipe of 2 items, a file or a faulty medium, four foreign streams, all options | integrity, completeness, sender and ceiling against any delivery; round trip, and that both processes end, over pipe and file |
| `sign_verify` | reads of 2, inputs of 0 and 3 units, timestamps 0 and 1 and a clock past that width, three earlier signatures, all options, failures of both commands | nothing is accepted or passed on that was not signed; round trip; delivery with `--armor`; both commands end |
| `options` | up to 3 items, every option, values that are options of the same or the other loop, invalid numbers, values missing | each option that is validly given ends with its last value, unless its own loop met one of its options as a value of the other; the loops do not put each other out of step |
| `key_intake` | 2 descriptors and -1, every set of sources and variables, readable or not, every failure | precedence, closing of descriptors before the text is used and on every return, wiping of the texts that were used |
| `git_shim` | 288 settings with 30 pairs of signer files over two levels of `.git`; ten forms of two signatures with two commits, lost lines, failing calls; every text of up to 4 lines of 8 kinds; signing with four key ids | what GOODSIG and exit code 0 mean; one verdict for each signature that decodes; trust and name of a signer; what is taken from an armored file; what is signed verifies, and was not signed for another key that `-u` named |

Why these bounds are enough. All comparisons in the code are between lengths and
one limit, so what matters is on which side of each limit a length falls and by
how little. Blocks of 2 with a limit of 3 and chunks of 0, 1 and 3 bytes give spills
that leave a remainder, spills that leave none, several spills, and empty chunks.
Chunks of 3 with inputs to 13 pass the chunk boundary at every offset and run past
the last counter value (3, for 2^64-1). The decrypting side's
unchecked addition wraps after the last chunk that its counter can number, and no later. Two ceilings, both modes and four values of
`--sender` (none, the sender, a stranger, not a key) cover every branch on options.
The proofs below remove these bounds for all modules but `CivilDate`.

For signatures, reads of 2 with inputs of 0 and 3 end at and off a buffer; a clock of
two values shows an altered time, a third one past its width. Four lines hold a wrapped
signature between its markers, one with a header, or a block and the start of another.
Three items let an option be repeated with another between, in both loops. Two
descriptors can be given to three options apart or twice the same, and one option can name -1. Two levels of
`.git` show which one ends the ascent. `CivilDate` has no bound: all 49711 days of a
32-bit timestamp are the code's range.

Fairness. A process that can take a step takes one some day (weak fairness of the
program's own actions, as any scheduler gives), and whoever feeds stdin closes it
(`CloseInput`); a feeder that never does would keep `encrypt` waiting rightly. No
fairness is assumed of faults (an I/O error is possible and never owed, so it cannot
be what ends a process; only a broken pipe is certain to be noticed) or of the caller
of a spooler, except that a failed or finished spooler is dropped, which Rust's
ownership guarantees. In `Pipeline` this is asked over a pipe or a file only: a faulty
medium may deliver chunks for ever. In `SignVerify` the steps of `sign` and `verify`
and the call of `verify` with what `sign` wrote are fair. The other modules state no
fairness. `CHECK_DEADLOCK` is off since the programs are meant to end.

Disagreements with the documentation that a run shows, by a property that states what
SPECIFICATION.md says, are in the first table. Those in the second are stated in the same way,
and `tlc -config <cfg> <module>` shows each of them; they are kept as configurations and are
not among the runs of `PROJECT.json`. Where a property of a passing run is about the same code,
it is restricted to what both agree on: `ExactlyOneVerdict` asks for a verdict on signatures
that decode, `TrustFromHierarchy` leaves the files open that the switch takes out
(`SwitchedOff`), `SignedVerifies` is about key ids that are keys, `LastOccurrenceWins` about
sound fields and `TextsWiped` about the texts.

| run | SPECIFICATION.md | code |
|---|---|---|
| `encrypt_growing_input` | 154: intermediate chunks have exactly 65536 bytes | a read of 0 bytes that is not final makes a short one, exit 0 |
| `spool_failure` | 243: a failing verification emits zero bytes | the release has written the blocks before the bad one |
| `sign_unflushed` | 186: exit 2 when the disk is full | raw `sign` exits with 0, its output lost in the flush at exit |
| `civil_date_wrong` | 341: the ISO date of the timestamp | wrong on 2336 days in January and February, first on 10 January 1970; the divisors in `main.rs` 1023 are not those of the civil calendar |
| `shim_undecodable` | 319-326: NEWSIG, ERRSIG and exit 1 for corrupt base64 | exit 1 without a status line (`main.rs` 985) |

| configuration, module | property | SPECIFICATION.md | code |
|---|---|---|---|
| `PipelineMode.cfg`, `MCPipeline` | `RoundTrip` | 203: `--mode <1\|2>` | any u8 is taken; `--mode 3` encrypts a stream nobody can decrypt (`main.rs` 1176) |
| `TrustSwitch.cfg`, `MCGitShim` | `TrustAsSpecified` | 331, 336: files in `.git` are part of the hierarchy, `allowInTreeSigners` is for working tree files | the switch takes out the files in `.git` (`main.rs` 804) |
| `ShimKeyId.cfg`, `MCGitShim` | `SignsOnlyForKeyId` | 296-299: INV_SGNR and exit 2 for a key id that cannot be resolved | it is ignored, and the commit signed with the key at hand (`main.rs` 1070) |
| `OptionsAsWritten.cfg`, `MCOptions` | `AsWritten` | 252-253: `-a` selects armor, `--sec-file` takes a path | `sign --sec-file -a` reads the file `-a` and armors too; each loop skips the values of its own options only (`main.rs` 1236) |
| `OptionsInvalid.cfg`, `MCOptions` | `InvalidRefused` | 186: exit 2 for invalid arguments | `--max-size x` sets no ceiling, `--sender` at the end demands none (`main.rs` 1200, 1211) |
| `KeyEnvironment.cfg`, `KeyIntake` | `EnvironmentOverwritten` | 42: the memory of the variables is overwritten | not of a variable that is not UTF-8, which is only removed (`main.rs` 118) |
| `KeyBuffers.cfg`, `KeyIntake` | `UsedSecretsWiped` | 44: all buffers of a key are wiped on drop | not the vector a key is decoded into nor the words of a mnemonic (`main.rs` 68, 76, 152) |

Others were met while modelling. The models follow the code here, and no property
asks for what the document says:

* 186, exit 2 for local failures such as ENOSPC: I/O errors exit with 1 (`error.rs` 48).
* 185, exit 1 for tampered headers: a header altered from mode 2 to mode 1 exits with 2,
  before its MAC is checked (`main.rs` 619). It is refused all the same.
* 363 and 365, BADSIG has the identity, if there is one: always the npub (`main.rs` 1056).

## 4. Proofs

Every invariant of the passing runs is proved for all values of the constants, with
these exceptions, which only TLC checks:

* liveness, and so `CallsReturn`, `EncTerminates`, `BothExit`, `BothEnd`: the prover does
  not reason about fairness;
* what a run or a configuration refutes, and with it all that `CivilDate` says.

The theorems that take an operator as a parameter cannot be used with these provers, among
them induction over the naturals. The well-foundedness of `<` on the naturals can: it is a
statement about a set. `SignatureProofs!SetInduction` is induction over the members of a
set, derived from it, and carries the recursive definitions of `Signature` and
`AllowedSigners`.

The assumptions on the constants are in the modules that declare them, and TLC evaluates
them for each run. They say that limits and sizes are naturals, that `None` and other
values that stand for nothing or for garbage are no key, descriptor or number, and this:

* `ForeignAssumption`: every run of `encrypt` draws an ephemeral key of its own
  (`main.rs` 432-478, from the system's generator);
* `CounterAssumption`: no stream fills every chunk that a u64 can count, 2^80 bytes.
  `decrypt` adds to its counter without a check; past that point, without overflow checks,
  it would take chunk 0 for the next one;
* `EarlierAssumption`, `UnforgedAssumption`: whoever made a signature payload signed what
  it says, and the signature in a file that git hands over was made by its owner;
* `CallsAssumption`: a text that is verified is made of the kinds of lines in `Signature`;
* `ItemsAssumption`: an item means what its own loop makes of it by itself, and no option has
  the name of a command; the values are any tokens;
* `FdsAssumption`: the descriptors that a caller may open are naturals, so that -1 is none;
* `WorldAssumption`: the shim's settings are on or off, what is called `.git` at each
  level is one of the four kinds, and signer files are sequences of lines.

**SpoolProofs** assumes only `SpoolAssumption` (limits are naturals, blocks not
empty) and allows every fault. None of the properties is inductive alone. The
invariant `IInv` adds what ties the pieces together:

* `SealedChain`: the i-th block was sealed with nonce i-1 and starts where the one
  before ended;
* `FileAuthentic`: a block of the file that is intact is the one that was sealed
  with its nonce, which faults preserve, since they copy or damage and cannot seal;
* `BufferChain`: what is sealed, `old_mem`, `chunk` and `mem_buffer` follow on from
  one another;
* `Control`: what holds at each control point, above all that while releasing,
  `EndOf(out)` is the end of block `block_idx`.

That an opened block continues the output (`OpenedBlock`) then follows from
`FileAuthentic` with `SealedChain`: it opens at `block_idx` only with that nonce.
From `Invariance` follow `TypeCorrect`, `OrderCorrect`, `ReleaseCorrect`,
`NonceCorrect`, `MemoryCorrect`, `CeilingCorrect` and `Refinement`: every step maps
to a step of `SpoolAbs` or leaves it unchanged. The last is what entitles `Decrypt`
to use `SpoolAbs` in place of the spooler.

**EncryptProofs** assumes `WireAssumption` and `EncryptAssumption`. `EInv` says of
each chunk on the wire that its counter is its place and its bytes continue the one
before (`ChunkOK`), and of the buffers that they continue the wire up to what was
read, and that a fill has ended with a full buffer or at the end of input
(`Settled`). From `EncInvariance` follow `EncTypeCorrect`, `WireOrderCorrect`,
`ChunkNonceCorrect`, `SuccessCorrect` and `FramingCorrect`; the last needs the end
of input to be final (`STICKY_EOF`), and `encrypt_growing_input` shows that it does.

For `StreamIsCanonical` and `UsageErrorIsSilent` the invariant `SInv` adds to `EInv` that
the wire is, at each place of `run_encrypt`, an initial part of the canonical stream: item
by item the one that `CanonicalStream` has there, with the terminal tag on no chunk but
the last (`CanonicalCorrect`, given `STICKY_EOF`), and that up to the header nothing was
written (`UsageErrorCorrect`).

**PipelineProofs** is about `encrypt` and `decrypt` with any medium. `PInv` is `SInv` and
`DInv`. The central fact (`DeliverablePlausible`) is that every MAC, sealed box and
signature in an item that a faulty medium can deliver, altered or not, is one that the
owner of some session made. So a header that passes its MAC names a session and its mode, a
chunk that opens is the next one of that session with its own terminal tag, and a trailer
that verifies belongs to the whole of it. `DInv` follows the accepted plaintext along the
runs of that session and relates the spooler's counts to it. None of the properties is
inductive alone: that the next chunk continues the plaintext needs the counter to be
the number of accepted chunks and the key to be that of the accepted header. From it follow
`PipeTypeCorrect`, `PrefixCorrect`, `ReleaseCorrect`, `SenderCorrect` and `CeilingCorrect`.

It has also the other direction for pipe and file, `RoundTripCorrect`, in the
setting of a real round trip (`Setting`): the end of input is final, the stream is for the
reader's own key, and the mode is 1 or 2. Where the end of input is not final, or `--mode 3`
is given, the round trip does fail, as `encrypt_growing_input` and `PipelineMode.cfg` show.
`RInv` adds to `PInv` that the reader is in step with the writer (`InStep`): which item it
takes next at each of its places; and that whenever it gives up there is an excuse: the
writer has failed, or the options do not allow the stream.

Last, `DecryptUsesSpooler`: `Decrypt` writes some of its spooler's changes out itself, where
a call and the return of `run_decrypt` are one step. That all of them are steps of
`SpoolAbs` is a refinement. The mapping (`LastSt`) looks at the spooler as its last call
left it, since a refused chunk and the drop that follows are one step of `decrypt` and two of
`SpoolAbs`. With `SpoolProofs!Refinement` on the other side, what the models conclude from
`SpoolAbs` holds of `StreamSpooler` too. `VerifyUsesSpooler` in `SignVerifyProofs` says the
same of `verify`. TLC agrees with both on the instances of `pipeline` and `sign_verify`; no
run is kept for it.

**SignatureProofs** has what the loops of `Signature` compute, for texts of any length.
`CapturedCorrect`, by induction on the lines with the invariant of the loop, says that what
is captured are the data lines between the first BEGIN and the first END. From it follow
what comes out of the files that `sign` can write, and of any text with whole armor at its
beginning (`DetachOne`, `DetachTwo`).

**SignVerifyProofs**. `SVInv` has three parts: the state of `sign` at each place, where a
payload is the one for the message that was read and was issued; the state of `verify`,
where a signature it holds was issued, by anyone, and what was read is the beginning of the
data; and, as long as `verify` was given what `sign` wrote, that their outcomes agree.
From it follow `SVTypeCorrect`, `AcceptsCorrect`, `PassThroughCorrect`,
`ArmorSuccessCorrect` and `SignatureRoundTripCorrect`.

**GitShimProofs**. `GInv` says at each place of the shim which answer it is giving and how
many of its lines are written: each of them arrived or was lost, and where nothing fails all
of them arrived, in their order (`Progress`). The properties ask for lines in any order and
with gaps, so they are not inductive. From it, `AnswerShape` and `SignatureProofs` follow
`GoodCorrect`, `VerdictCorrect`, `SignedVerifiesCorrect`, `CapturedIsArmoredCorrect` and
`ArmorRoundTripCorrect`.

`VerdictCorrect` has no more to say of a signature that does not decode than that GOODSIG
and the exit code agree, and `SignedVerifiesCorrect` nothing of a key id that is no
key: there `shim_undecodable` and `ShimKeyId.cfg` show what happens.

`TrustCorrect` says whom the answer trusts, for any settings, any depth of directories and
files of any length. It has three parts. Induction over the lines of a file and over the
files gives that `resolve_allowed_signers` has one record for each key, made of the first
entry for it (`Collected`, `AllCollected`). `candidate_paths` lists the files that may
speak, each by its place in the specification's hierarchy, with increasing ranks
(`CandidatesSpeak`), where the level at which the ascent stops is the only one with a `.git`
and none below it (`FirstDotGit`). So the first entry is the highest (`ResolvedTrust`),
and each status line says of trust what is so (`AnswerTrust`), whichever of them arrive. With
the switch on, which is the default, that is the whole of the specification's hierarchy
(`TrustAsSpecified`); with the switch off, the theorem bounds the code's answer by the files
that remain, and claims nothing of those the code takes out.

**KeyIntakeProofs**. `KInv` says at each place of `load_secret_key` which sources are known
not to have been given (`Passed`), which buffers can hold a secret (`Live`), for which source
the File is that is being read, if there is one (`Where`, `Reading`), and which of the
descriptors taken so far can be open, no other than that File's (`Descriptors`). Each property
needs it: that a descriptor is closed when its text is used, because of the steps between taking
and dropping it, on each of which the function may return; that the texts of a mnemonic are
wiped, because at `derive` nothing else holds a text that the key is made from. From it follow
`KeyTypeCorrect`, `KeyFromFirst`, `DescriptorsAreClosed` and `TextsAreWiped`.

**OptionsProofs** is about lines of any length, over any items that fit
`ItemsAssumption`, the tables of options being those of the code. `LastOccurrenceWins` says
nothing until all loops have ended. `OInv` follows each loop through the line: the items lie
in the tokens one after the other (`Layout`); the loop stands where an item begins, or within
one that it has no arm for, and never, unless it was disturbed, at a value of its own option
(`AtItem`); and each sound option is what the items read so far mean, the last occurrence
counting, where a second loop starts from all that the first has read (`ReadBy`, `LastAbout`,
`ReadSoFar`). A round either passes over a token or takes an item whole (`RoundForeign`,
`RoundOwn`), also one at the end that lacks values, or takes what is a value of another loop's
option for one of its own (`RoundDisturbed`). Such a round writes fields of its own loop only
(`Outside`), none of them sound. That the loops undo nothing of each other rests on the tables:
no field is filled by both loops of a command (`OneLoopEach`). At the end every item that means
anything has been read by some loop (`ReadByAll`), and `LastOccurrenceCorrect` follows.

## 5. Not modelled

* Byte layouts and encodings (bech32, hex, base64), curve arithmetic, hashing, BIP-39,
  BIP-32 and BIP-85 arithmetic, and the strength of the primitives: libraries, taken as
  ideal. A text parses or does not; both are explored.
* `pubkey`, `hash`, `inspect-header` and `inspect-chunk`: one computation and its print,
  without state; the loops over `pubkey`'s options are in `Options`.
* Messages and usage texts; what goes to stderr.
* `PR_SET_DUMPABLE` and close-on-exec: no step of the program depends on them. The
  interval in which the fallback temporary file has a name.
* In memory only the spooler's and the key intake's secrets are followed, and of the latter
  the buffers that a key passes through as text, bytes, words or seed: not the scalars that
  the commands and the curve library make of it. In `Spool` a block leaves `old_mem` when it
  is written, where the code keeps the whole vector until the last one, and the chunk that is
  being written is not counted as memory of the spooler.
* A standard output that is closed from the start (EBADF), which Rust's runtime takes for a
  success.
* Interrupted reads are retried by `fill_buffer`, `read_exact` and `read_to_end` and leave
  no trace in the model; elsewhere they are failing reads.
* Options whose meaning depends on their letters (`-bsau`, `-uK`) are examples in a table.

## 6. State of the work

Every component with state is modelled, and every invariant that a passing run checks is
proved. What stays with TLC is liveness and, for lack of a theorem that holds, `CivilDate`:
its conversion disagrees with the calendar, so the run that shows it is all there is to
say. A change to the code would start at the lines in `PROJECT.json` under `map`: the model of
that line first, then its run, then the invariant named above for it.

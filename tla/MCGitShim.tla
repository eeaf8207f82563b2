----------------------------- MODULE MCGitShim ------------------------------
\* GitShim for TLC: Alice and Mallory made signatures before; a working directory
\* two levels deep, in repositories of every form.
EXTENDS GitShim, TLC

CONSTANTS Alice, Mallory,
          MAX_LINES      \* lines of a text that is put together from any lines

Commit == <<"commit">>

ByAlice == SignedPayload(TAG_SIGN, Alice, Commit, 1)
MCEarlier == {ByAlice, SignedPayload(TAG_SIGN_LEGACY, Mallory, Commit, 1)}

\* The switch under its new and its old name.
Switch(new, old) == ("pipe-k1" :> new) @@ ("pipek1" :> old)

\* Every setting, and the switch in every way that its names can differ; a .git
\* entry is looked for at two levels, and commondir beside a pointer only.
Settings ==
    [config : SUBSET {"pipe-k1", "pipek1"},
     allow_in_tree : {Switch(None, None), Switch(FALSE, TRUE), Switch(TRUE, FALSE),
                      Switch(None, FALSE)},
     git_dir : BOOLEAN, home : BOOLEAN,
     tree : ({<<"none", "none">>, <<"dir", "dir">>, <<"none", "dir">>,
              <<"unusable", "dir">>} \X {FALSE})
            \cup ({<<"pointer", "dir">>, <<"none", "pointer">>} \X BOOLEAN)]

\* Files that list Alice under two names, and one of them bare.
First == <<Skipped, Entry("alice", Alice), Entry("other", Alice)>>
Second == <<Entry("mallory", Mallory), Entry(None, Alice)>>

SignerFiles ==
    {(p :> First) @@ (q :> Second) :
         p \in {Path("config", 0, "pipe-k1"), Path("config", 0, "pipek1"),
                Path("GIT_DIR", 0, "pipek1"),
                Path("dot_git", 1, "pipe-k1"), Path("dot_git", 2, "pipek1"),
                Path("home", 0, "pipek1")},
         q \in {Path("GIT_DIR", 0, "pipe-k1"), Path("dot_git", 1, "pipek1"),
                Path("gitdir", 1, "pipek1"), Path("gitdir", 2, "pipek1"),
                Path("common", 1, "pipek1"), Path("home", 0, "pipe-k1")}}

World(set, files) ==
    [config |-> set.config, allow_in_tree |-> set.allow_in_tree,
     git_dir |-> set.git_dir, home |-> set.home, commondir |-> set.tree[2],
     dot_git |-> set.tree[1], files |-> files]

Default == World([config |-> {}, allow_in_tree |-> Switch(None, None),
                  git_dir |-> FALSE, home |-> TRUE,
                  tree |-> << <<"none", "dir">>, FALSE>>],
                 Path("dot_git", 2, "pipek1") :> First)

Verifying(w, file, data, may_fail) ==
    [verify |-> TRUE, key_id |-> None, world |-> w, file |-> file, data |-> data,
     faults |-> may_fail]

\* A good signature by Alice in every world.
TrustCalls == {Verifying(World(s, f), TextFile(ArmorLines(ByAlice)), Commit, FALSE) :
                   s \in Settings, f \in SignerFiles}

\* Every kind of file in one world, with and without faults.
FilesOf(p) ==
    {TextFile(ArmorLines(p)), BinaryFile(Bytes(p)), BinaryFile(<<Bytes(p)[1]>>),
     BinaryFile(<<Bytes(p)[2], Bytes(p)[1]>>), TextFile(<<Begin, Junk, End>>),
     TextFile(<<Base64(Bytes(p))>>), TextFile(ArmorLines([p EXCEPT !.known = FALSE])),
     TextFile(ArmorLines([p EXCEPT !.ts = 0])),
     TextFile(ArmorLines([p EXCEPT !.pk = Alice])),
     TextFile(ArmorLines([p EXCEPT !.pk = Me]))}
FileCalls == {Verifying(Default, f, d, b) :
                  f \in UNION {FilesOf(p) : p \in MCEarlier},
                  d \in {Commit, <<"other">>}, b \in BOOLEAN}

\* Every text of a few lines.
Lines == {Begin, End, Blank, Colon, Junk, Base64(Bytes(ByAlice)),
          Base64(<<Bytes(ByAlice)[1]>>), Base64(<<Bytes(ByAlice)[2]>>)}
TextCalls == {Verifying(Default, TextFile(t), Commit, FALSE) :
                  t \in BoundedSeq(Lines, MAX_LINES)}

SignCalls == [verify : {FALSE}, key_id : {None, Me, Alice, Unresolvable},
              world : {Default}, file : {None}, data : {Commit, <<"other">>},
              faults : BOOLEAN]

MCCalls == UNION {TrustCalls, FileCalls, TextCalls, SignCalls}
=============================================================================

--------------------------- MODULE AllowedSigners ---------------------------
(***************************************************************************)
(* The trust database of the git shim: resolve_allowed_signers of main.rs. *)
(* A world is what the shim finds when it is called: git's configuration,  *)
(* the environment, the .git entries from the working directory (level 1)  *)
(* upwards, and the signer files.                                          *)
(***************************************************************************)
EXTENDS Integers, Sequences, FiniteSetsExt

CONSTANT None

\* The file at a place; in the repository, at the level of its .git.
Path(place, level, name) == [place |-> place, level |-> level, name |-> name]

\* Each place is looked at under the new and then under the old name.
BothNames(place, level) == <<Path(place, level, "pipe-k1"), Path(place, level, "pipek1")>>

\* An entry of a signer file; a bare key has no name.  Any other line, such as a
\* comment or an unparsable one, is Skipped.
Entry(name, key) == [key |-> key, name |-> name]
Skipped == [key |-> None, name |-> None]

\* What a signer is called: by name or, without one, by the npub of its key.
Identity(name, key) == [name |-> name, npub |-> IF name = None THEN key ELSE None]

-----------------------------------------------------------------------------

\* A setting counts under its new name or, where that is not set, under the old.
\* The file: config holds the names that are set.
ConfigFile(w) ==
    IF "pipe-k1" \in w.config THEN <<Path("config", 0, "pipe-k1")>>
    ELSE IF "pipek1" \in w.config THEN <<Path("config", 0, "pipek1")>>
    ELSE << >>

\* The switch: allow_in_tree gives the value under each name, None if it is not
\* set; the default is true.
AllowInTree(w) ==
    LET new == w.allow_in_tree["pipe-k1"]
    IN  (IF new # None THEN new ELSE w.allow_in_tree["pipek1"]) # FALSE

\* Replaces DotGitLevels: a .git file without a gitdir line is passed over.
DotGitLevelsUsable(w) == {l \in DOMAIN w.dot_git : w.dot_git[l] \in {"dir", "pointer"}}

\* The levels at which there is a .git at all: directory, pointer or unusable.
DotGitLevels(w) == {l \in DOMAIN w.dot_git : w.dot_git[l] # "none"}

\* The ascent stops at the first .git: a directory, a file that points to the
\* git directory of a worktree or submodule, or a file without a pointer.
InRepository(w) ==
    IF DotGitLevels(w) = {} THEN << >>
    ELSE LET l == Min(DotGitLevels(w))
         IN  CASE w.dot_git[l] = "dir" -> BothNames("dot_git", l)
               [] w.dot_git[l] = "pointer" ->
                      BothNames("gitdir", l)
                          \o (IF w.commondir THEN BothNames("common", l) ELSE << >>)
               [] OTHER -> << >>

candidate_paths(w) ==
    ConfigFile(w)
    \o (IF AllowInTree(w)
        THEN (IF w.git_dir THEN BothNames("GIT_DIR", 0) ELSE << >>) \o InRepository(w)
        ELSE << >>)
    \o (IF w.home THEN BothNames("home", 0) ELSE << >>)

FileLines(w, path) == IF path \in DOMAIN w.files THEN w.files[path] ELSE << >>

\* The first entry for a key counts.
AddSigner(signers, line) ==
    IF line = Skipped \/ \E k \in DOMAIN signers : signers[k].key = line.key
    THEN signers
    ELSE Append(signers, [key |-> line.key,
                          identity |-> Identity(line.name, line.key)])

\* The signers after each line of a file, and after each of the files.
LineSteps(signers, lines) ==
    LET steps[j \in 0 .. Len(lines)] ==
            IF j = 0 THEN signers ELSE AddSigner(steps[j - 1], lines[j])
    IN  steps

FileSteps(w, paths) ==
    LET steps[i \in 0 .. Len(paths)] ==
            IF i = 0 THEN << >>
            ELSE LET lines == FileLines(w, paths[i])
                 IN  LineSteps(steps[i - 1], lines)[Len(lines)]
    IN  steps

resolve_allowed_signers(w) ==
    FileSteps(w, candidate_paths(w))[Len(candidate_paths(w))]
=============================================================================

------------------------------ MODULE SpoolAbs ------------------------------
(***************************************************************************)
(* What StreamSpooler promises the commands that use it: bytes are offered *)
(* and held back; nothing is emitted before the caller commits by calling  *)
(* release_to; from then on they come out in the order they went in, each  *)
(* once; success means all of them.  A stream over the ceiling is refused  *)
(* and can no longer be released.  Where the bytes are kept meanwhile      *)
(* (memory, sealed blocks in a temporary file) does not show.              *)
(***************************************************************************)
EXTENDS Integers

CONSTANTS MaxSizes,      \* the ceilings a caller may ask for: naturals, or None
          ChunkSizes,    \* the lengths of the chunks that callers offer
          None           \* no ceiling

VARIABLES max_size,      \* the ceiling of this spooler
          offered,       \* how many bytes write_chunk was called with
          emitted,       \* how many of them went to the output
          st             \* "open", "releasing", "done", "failed" or "erased"

absVars == <<max_size, offered, emitted, st>>

\* Replaces Within: the ceiling is not enforced.
WithinIgnored(n) == TRUE

Within(n) == max_size = None \/ n <= max_size

Init == /\ max_size \in MaxSizes
        /\ offered = 0
        /\ emitted = 0
        /\ st = "open"

\* A chunk is taken, or refused because the stream would pass the ceiling.
Offer(n) == /\ st = "open"
            /\ offered' = offered + n
            /\ st' = IF Within(offered + n) THEN "open" ELSE "failed"
            /\ UNCHANGED <<max_size, emitted>>

\* release_to is called: the caller has verified the whole stream.
Commit == /\ st = "open"
          /\ st' = "releasing"
          /\ UNCHANGED <<max_size, offered, emitted>>

\* Some of the bytes that are still held go out.
Emit == /\ st = "releasing"
        /\ emitted' \in emitted + 1 .. offered
        /\ UNCHANGED <<max_size, offered, st>>

Finish == /\ st = "releasing"
          /\ emitted = offered
          /\ st' = "done"
          /\ UNCHANGED <<max_size, offered, emitted>>

\* A local fault: no disk space, a damaged temporary file, a closed output.
\* A failing write may have passed on part of what it was given.
Fail == /\ st \in {"open", "releasing"}
        /\ st' = "failed"
        /\ emitted' \in IF st = "open" THEN {emitted} ELSE emitted .. offered
        /\ UNCHANGED <<max_size, offered>>

\* The spooler is dropped, released or not.
Erase == /\ st \in {"open", "done", "failed"}
         /\ st' = "erased"
         /\ UNCHANGED <<max_size, offered, emitted>>

Next == \/ \E n \in ChunkSizes : Offer(n)
        \/ Commit \/ Emit \/ Finish \/ Fail \/ Erase

Spec == Init /\ [][Next]_absVars
=============================================================================

-------------------------------- MODULE Runs --------------------------------
(***************************************************************************)
(* Runs of consecutive bytes.  A stream of plaintext is never spelled out: *)
(* a byte IS its position in the stream it was read from, so a buffer that *)
(* holds bytes lo, lo+1, ..., hi-1 is the run [lo, hi).  A byte that is    *)
(* lost, repeated or moved shows as a run that does not start where the    *)
(* one before it ended.                                                    *)
(***************************************************************************)
EXTENDS Integers, Sequences

Run(lo, hi) == [lo |-> lo, hi |-> hi]

RunSet == [lo : Nat, hi : Nat]

RunLen(r) == r.hi - r.lo

\* The first n bytes of a run (all of it when it is shorter), and the others.
Take(r, n) == IF RunLen(r) <= n THEN r ELSE Run(r.lo, r.lo + n)
Rest(r, n) == IF RunLen(r) <= n THEN Run(r.hi, r.hi) ELSE Run(r.lo + n, r.hi)

\* The position after the last byte of a sequence of runs.
EndOf(s) == IF Len(s) = 0 THEN 0 ELSE s[Len(s)].hi

\* The runs of s, one after the other, spell out a prefix of the stream.
Contiguous(s) ==
    \A i \in 1..Len(s) : /\ s[i].lo = (IF i = 1 THEN 0 ELSE s[i - 1].hi)
                         /\ s[i].lo <= s[i].hi
=============================================================================

---------------------------- MODULE RangeRequest ----------------------------
(***************************************************************************)
(* parseSingleRange of media/range.js, and what FileMediaAdapter.open      *)
(* makes of it.  A Range header is a record: absent, unsupported (several  *)
(* ranges, another unit, no number), a suffix of n bytes, everything from  *)
(* a start, or a span.  Numbers are what its digits denote; Number() keeps *)
(* them only up to MAX_SAFE_INTEGER.  The result is the set of ranges to   *)
(* serve, empty when a RangeError is thrown.                               *)
(***************************************************************************)
EXTENDS Integers

CONSTANT MaxSafeInteger

ASSUME RangeAssumption == MaxSafeInteger \in Nat

Header ==
    [kind : {"absent", "unsupported"}] \cup [kind : {"suffix"}, n : Nat]
    \cup [kind : {"from"}, start : Nat] \cup [kind : {"span"}, start : Nat, end : Nat]

LeastOf(m, n) == IF m <= n THEN m ELSE n
GreatestOf(m, n) == IF m >= n THEN m ELSE n

Bytes(start, end) == [start |-> start, end |-> end]
Safe(n) == n <= MaxSafeInteger

(* The two numbers of a supported header, before they are compared. *)
Asked(header, size) ==
    IF header.kind = "suffix" /\ Safe(header.n) /\ header.n > 0
    THEN {Bytes(GreatestOf(0, size - header.n), size - 1)}
    ELSE IF header.kind = "from" /\ Safe(header.start) THEN {Bytes(header.start, size - 1)}
    ELSE IF header.kind = "span" /\ Safe(header.start) /\ Safe(header.end)
    THEN {Bytes(header.start, header.end)}
    ELSE {}

Satisfiable(r, size) == r.start <= r.end /\ r.start < size

ParseSingleRange(header, size) ==
    IF header.kind = "absent" THEN {Bytes(0, size - 1)}
    ELSE {Bytes(r.start, LeastOf(r.end, size - 1)) :
              r \in {x \in Asked(header, size) : Satisfiable(x, size)}}

(* Content-Length of FileMediaAdapter.open. *)
ContentLength(r) == r.end - r.start + 1

(* 206 or 200. *)
ResponseStatus(header) == IF header.kind = "absent" THEN 200 ELSE 206

-----------------------------------------------------------------------------
(* RFC 9110's meaning of a single range: the bytes of the representation it  *)
(* selects, none when it is unsatisfiable.                                   *)
Selected(header, size) ==
    {b \in 0..(size - 1) :
        \/ header.kind = "absent"
        \/ header.kind = "suffix" /\ b >= size - header.n
        \/ header.kind = "from" /\ b >= header.start
        \/ header.kind = "span" /\ b >= header.start /\ b <= header.end}

(* The range served is the one the header selects, to the byte: it lies in   *)
(* the file, is not empty unless the file is, and leaves nothing out.        *)
RangeIsWhatWasAsked(header, size) ==
    \A r \in ParseSingleRange(header, size) : r.start..r.end = Selected(header, size)

(* Only a range that selects nothing, or is written with digits beyond the   *)
(* safe integers, is refused.                                                *)
RefusedForCause(header, size) ==
    ParseSingleRange(header, size) = {} =>
        \/ Selected(header, size) = {}
        \/ header.kind = "suffix" /\ ~Safe(header.n)
        \/ header.kind = "from" /\ ~Safe(header.start)
        \/ header.kind = "span" /\ ~(Safe(header.start) /\ Safe(header.end))
=============================================================================

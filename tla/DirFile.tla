------------------------------ MODULE DirFile ------------------------------
(* The handle that Open returns for a directory (virtualDirFile in file.go): *)
(* a listing taken at Open and a cursor that ReadDir(n) moves. Go's int ends *)
(* at MaxInt here, and f.offset+n wraps as it does there. The entries are    *)
(* the numbers 1..count, in the order of their names.                        *)
EXTENDS Integers, Sequences

CONSTANTS
    MaxInt,         \* math.MaxInt
    MaxEntries,     \* bound: no directory has more entries
    Sizes           \* the n that ReadDir(n) is called with

ASSUME DirFileAssumption ==
    /\ MaxInt \in Nat \ {0}
    /\ MaxEntries \in 0..MaxInt
    /\ Sizes \subseteq (-MaxInt - 1)..MaxInt

VARIABLES
    count,          \* len(f.entries)
    offset,         \* f.offset
    closed,         \* f.closed
    result,         \* what the last call returned
    delivered       \* ghost: the entries returned so far

vars == <<count, offset, closed, result, delivered>>

Wrap(x) == IF x > MaxInt THEN x - 2 * (MaxInt + 1) ELSE x

\* f.entries[from:to] as entry numbers.
Slice(from, to) == [i \in 1..(to - from) |-> from + i]

Init ==
    /\ count \in 0..MaxEntries
    /\ offset = 0
    /\ closed = FALSE
    /\ result = "none"
    /\ delivered = << >>

Running == result # "panic"

ReadDirClosed ==
    /\ Running /\ closed
    /\ result' = "closed"
    /\ UNCHANGED <<count, offset, closed, delivered>>

\* Mutant of ReadDirEOF: the end is only reported one entry late.
ReadDirEOFLate(n) ==
    /\ Running /\ ~closed
    /\ n > 0 /\ offset > count
    /\ result' = "eof"
    /\ UNCHANGED <<count, offset, closed, delivered>>

ReadDirEOF(n) ==
    /\ Running /\ ~closed
    /\ n > 0 /\ offset >= count
    /\ result' = "eof"
    /\ UNCHANGED <<count, offset, closed, delivered>>

\* Mutant of ReadDirRest: the cursor moves by n whatever is left.
ReadDirRestBeyond(n) ==
    /\ Running /\ ~closed
    /\ ~(n > 0 /\ offset >= count)
    /\ n <= 0 \/ Wrap(offset + n) > count
    /\ delivered' = delivered \o Slice(offset, count)
    /\ offset' = offset + n
    /\ result' = "entries"
    /\ UNCHANGED <<count, closed>>

\* n <= 0, or more than there is left: all the rest.
ReadDirRest(n) ==
    /\ Running /\ ~closed
    /\ ~(n > 0 /\ offset >= count)
    /\ n <= 0 \/ Wrap(offset + n) > count
    /\ delivered' = delivered \o Slice(offset, count)
    /\ offset' = count
    /\ result' = "entries"
    /\ UNCHANGED <<count, closed>>

\* Mutant of ReadDirSome: the cursor is set to n, not moved by it.
ReadDirSomeReset(n) ==
    /\ Running /\ ~closed
    /\ n > 0 /\ offset < count
    /\ Wrap(offset + n) <= count
    /\ Wrap(offset + n) >= offset
    /\ delivered' = delivered \o Slice(offset, Wrap(offset + n))
    /\ offset' = n
    /\ result' = "entries"
    /\ UNCHANGED <<count, closed>>

(* Otherwise the next n entries; a sum that wrapped is below the offset, and *)
(* f.entries[offset:sum] panics.                                             *)
ReadDirSome(n) ==
    /\ Running /\ ~closed
    /\ n > 0 /\ offset < count
    /\ Wrap(offset + n) <= count
    /\ IF Wrap(offset + n) >= offset
       THEN /\ delivered' = delivered \o Slice(offset, Wrap(offset + n))
            /\ offset' = Wrap(offset + n)
            /\ result' = "entries"
       ELSE /\ result' = "panic"
            /\ UNCHANGED <<offset, delivered>>
    /\ UNCHANGED <<count, closed>>

Close ==
    /\ Running
    /\ closed' = TRUE
    /\ result' = "none"
    /\ UNCHANGED <<count, offset, delivered>>

ReadDir(n) == ReadDirEOF(n) \/ ReadDirRest(n) \/ ReadDirSome(n)

Next == (\E n \in Sizes : ReadDir(n)) \/ ReadDirClosed \/ Close

Spec == Init /\ [][Next]_vars

\* A reader that goes on asking for entries, some at a time, until the end.
ReaderFairness == WF_vars(\E n \in Sizes : n > 0 /\ ReadDir(n))

FairSpec == Spec /\ ReaderFairness

---------------------------------------------------------------------------
(* Type invariant, of the bounds that Go's slicing needs.                    *)
TypeOK ==
    /\ count \in 0..MaxEntries
    /\ offset \in 0..count
    /\ closed \in BOOLEAN
    /\ result \in {"none", "entries", "eof", "closed", "panic"}
    /\ delivered \in Seq(1..count)

(* Whatever batch sizes are mixed, ReadDir delivers every entry at most once *)
(* and in order, none is skipped, and io.EOF is only returned when all were  *)
(* delivered.                                                                *)
EachEntryOnce ==
    /\ Len(delivered) = offset
    /\ \A i \in 1..Len(delivered) : delivered[i] = i
    /\ result = "eof" => Len(delivered) = count

(* A reader that keeps asking sees the end: no call returns an empty batch   *)
(* for ever without io.EOF.                                                  *)
ReaderSeesEnd == <>(result \in {"eof", "closed"} \/ closed)

(* README.md:3 "It exposes a standard `io/fs` filesystem": ReadDir of an     *)
(* open directory returns for every n.                                       *)
NeverPanics == Running
=============================================================================

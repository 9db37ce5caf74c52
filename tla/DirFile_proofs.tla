--------------------------- MODULE DirFile_proofs ---------------------------
(* Proofs about the directory handle, for directories of every length and    *)
(* batch sizes of every value that an int has.                               *)
EXTENDS DirFile, SequenceTheorems, TLAPS

\* What was delivered are the entries before the cursor, in order.
Inv == TypeOK /\ EachEntryOnce

\* A handle just opened has delivered nothing, from offset 0.
LEMMA InitInv == Init => Inv
<1> SUFFICES ASSUME Init PROVE Inv
  OBVIOUS
<1>1. offset \in 0..count /\ delivered \in Seq(1..count) /\ Len(delivered) = 0
  BY DirFileAssumption DEF Init
<1>2. TypeOK
  BY <1>1 DEF Init, TypeOK
<1>3. EachEntryOnce
  BY <1>1 DEF Init, EachEntryOnce
<1> QED
  BY <1>2, <1>3 DEF Inv

\* Appending the entries from the cursor to a later one keeps the order.
LEMMA Delivers ==
    ASSUME Inv, NEW to \in offset..count,
           delivered' = delivered \o Slice(offset, to), offset' = to,
           result' = "entries", UNCHANGED <<count, closed>>
    PROVE  Inv'
<1>1. /\ count \in Nat /\ offset \in 0..count /\ to \in 0..count
      /\ delivered \in Seq(1..count) /\ Len(delivered) = offset
      /\ \A i \in 1..Len(delivered) : delivered[i] = i
  BY DirFileAssumption DEF Inv, TypeOK, EachEntryOnce
<1>2. /\ Slice(offset, to) \in Seq(1..count) /\ Len(Slice(offset, to)) = to - offset
      /\ \A i \in 1..(to - offset) : Slice(offset, to)[i] = offset + i
  BY <1>1 DEF Slice
<1>3. delivered' \in Seq(1..count) /\ Len(delivered') = to
  BY <1>1, <1>2
<1>4. ASSUME NEW i \in 1..to PROVE delivered'[i] = i
  <2>1. CASE i <= offset
    BY <1>1, <1>2, <2>1
  <2>2. CASE ~(i <= offset)
    BY <1>1, <1>2, <2>2
  <2> QED
    BY <2>1, <2>2
<1>5. TypeOK'
  BY <1>1, <1>3 DEF Inv, TypeOK
<1>6. EachEntryOnce'
  BY <1>3, <1>4 DEF EachEntryOnce
<1> QED
  BY <1>5, <1>6 DEF Inv

\* No call of ReadDir or Close breaks the invariant; one step per action.
LEMMA NextInv == Inv /\ [Next]_vars => Inv'
<1> SUFFICES ASSUME Inv, [Next]_vars PROVE Inv'
  OBVIOUS
<1>1. count \in Nat /\ offset \in 0..count /\ count <= MaxInt /\ MaxInt \in Nat
  BY DirFileAssumption DEF Inv, TypeOK
<1>2. ASSUME NEW n \in Sizes, ReadDirEOF(n) PROVE Inv'
  <2>1. Len(delivered) = count
    BY <1>1, <1>2 DEF ReadDirEOF, Inv, EachEntryOnce
  <2> QED
    BY <1>2, <2>1 DEF ReadDirEOF, Inv, TypeOK, EachEntryOnce
<1>3. ASSUME NEW n \in Sizes, ReadDirRest(n) PROVE Inv'
  <2>1. count \in offset..count
    BY <1>1
  <2> QED
    BY <1>3, <2>1, Delivers DEF ReadDirRest
<1>4. ASSUME NEW n \in Sizes, ReadDirSome(n) PROVE Inv'
  <2>1. n \in Int /\ Wrap(offset + n) \in Int
    BY <1>1, DirFileAssumption DEF Wrap
  <2>2. CASE Wrap(offset + n) >= offset
    <3>1. Wrap(offset + n) \in offset..count
      BY <1>1, <1>4, <2>1, <2>2 DEF ReadDirSome
    <3> QED
      BY <1>4, <2>2, <3>1, Delivers DEF ReadDirSome
  <2>3. CASE ~(Wrap(offset + n) >= offset)
    BY <1>4, <2>3 DEF ReadDirSome, Inv, TypeOK, EachEntryOnce
  <2> QED
    BY <2>2, <2>3
<1>5. CASE ReadDirClosed
  BY <1>5 DEF ReadDirClosed, Inv, TypeOK, EachEntryOnce
<1>6. CASE Close
  BY <1>6 DEF Close, Inv, TypeOK, EachEntryOnce
<1>7. CASE UNCHANGED vars
  BY <1>7 DEF vars, Inv, TypeOK, EachEntryOnce
<1> QED
  BY <1>2, <1>3, <1>4, <1>5, <1>6, <1>7 DEF Next, ReadDir

\* So it holds at every moment of the life of a handle.
LEMMA InvHolds == Spec => []Inv
BY InitInv, NextInv, PTL DEF Spec

(* The cursor stays within the listing, so Go's slice expressions are in     *)
(* range but for the overflow that ReadDirSome names.                        *)
THEOREM DirFileTypeCorrect == Spec => []TypeOK
<1>1. Inv => TypeOK
  BY DEF Inv
<1> QED
  BY <1>1, InvHolds, PTL

(* Whatever batch sizes are mixed, every entry is delivered once, in order,  *)
(* and io.EOF means that none is missing.                                    *)
THEOREM DeliversEachOnce == Spec => []EachEntryOnce
<1>1. Inv => EachEntryOnce
  BY DEF Inv
<1> QED
  BY <1>1, InvHolds, PTL
=============================================================================

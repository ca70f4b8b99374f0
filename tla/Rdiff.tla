------------------------------- MODULE Rdiff --------------------------------
(***************************************************************************)
(* The deltas of pdiff updates (crates/tpt-l-apt-transport/src/pdiff.rs).  *)
(* A byte is a number below Radix, a tag the number the format gives it;   *)
(* the magic is one cell.                                                  *)
(***************************************************************************)
EXTENDS Integers, Sequences

CONSTANTS Radix,    \* 256 in the code
          MaxBytes  \* of a number: 4 in the code

ASSUME RdiffAssumption == Radix \in Nat /\ Radix > 1 /\ MaxBytes \in 1..4

Magic == -1
ReadBe(bytes) ==
    LET read[k \in 0..Len(bytes)] == IF k = 0 THEN 0 ELSE read[k - 1] * Radix + bytes[k]
    IN read[Len(bytes)]
Power[n \in 0..MaxBytes] == IF n = 0 THEN 1 ELSE Power[n - 1] * Radix

\* Fault: the first number that needs two bytes gets one.
BytesNeededLess(v) == LET need == {n \in 1..MaxBytes : v <= Power[n]}
                      IN IF need = {} THEN MaxBytes ELSE CHOOSE n \in need : \A m \in need : n <= m
\* A number that is too large is written in the most bytes, cut off.
BytesNeeded(v) == LET need == {n \in 1..MaxBytes : v < Power[n]}
                  IN IF need = {} THEN MaxBytes ELSE CHOOSE n \in need : \A m \in need : n <= m
WriteBe(v, n) ==
    LET shifted[k \in 0..n] == IF k = 0 THEN v ELSE shifted[k - 1] \div Radix
    IN [k \in 1..n |-> shifted[n - k] % Radix]

\* An operation is [literal, data, from, length].
EncodeOp(op) ==
    LET wl == BytesNeeded(op.from)
        ll == BytesNeeded(op.length)
    IN IF op.literal
       THEN <<64 + BytesNeeded(Len(op.data))>> \o WriteBe(Len(op.data), BytesNeeded(Len(op.data))) \o op.data
       ELSE <<69 + (wl - 1) * 4 + (ll - 1)>> \o WriteBe(op.from, wl) \o WriteBe(op.length, ll)
\* The delta with its first n operations.
Encoded(ops) ==
    LET delta[n \in 0..Len(ops)] == IF n = 0 THEN <<Magic>> ELSE delta[n - 1] \o EncodeOp(ops[n])
    IN delta
EncodeRdiffDelta(ops) == Append(Encoded(ops)[Len(ops)], 0)

\* apply_rdiff_delta, one operation at a time.
ReadLiteral(r, delta, tag) ==
    LET n == tag - 64
        length == ReadBe(SubSeq(delta, r.i + 1, r.i + n))
    IN IF r.i + n > Len(delta) THEN [r EXCEPT !.state = "corrupt"]
       ELSE IF r.i + n + length > Len(delta) THEN [r EXCEPT !.state = "corrupt"]
       ELSE [r EXCEPT !.out = @ \o SubSeq(delta, r.i + n + 1, r.i + n + length), !.i = @ + n + length + 1]
ReadCopy(r, delta, tag, basis) ==
    LET wl == (tag - 69) \div 4 + 1
        ll == ((tag - 69) % 4) + 1
        from == ReadBe(SubSeq(delta, r.i + 1, r.i + wl))
        end == from + ReadBe(SubSeq(delta, r.i + wl + 1, r.i + wl + ll))
    IN IF r.i + wl + ll > Len(delta) THEN [r EXCEPT !.state = "corrupt"]
       ELSE IF end > Len(basis) THEN [r EXCEPT !.state = "corrupt"]
       ELSE [r EXCEPT !.out = @ \o SubSeq(basis, from + 1, end), !.i = @ + wl + ll + 1]
Apply1(r, delta, basis) ==
    IF r.state # "reading" \/ r.i > Len(delta) THEN r
    ELSE LET tag == delta[r.i]
         IN CASE tag = 0        -> [r EXCEPT !.state = "end"]
              [] tag \in 65..68 -> ReadLiteral(r, delta, tag)
              [] tag \in 69..84 -> ReadCopy(r, delta, tag, basis)
              [] OTHER          -> [r EXCEPT !.state = "corrupt"]
\* The result, {} for an error.  A delta without an end is taken as it is.
ApplyRdiffDelta(basis, delta) ==
    LET read[n \in 0..Len(delta)] == IF n = 0 THEN [state |-> "reading", i |-> 2, out |-> <<>>]
                                     ELSE Apply1(read[n - 1], delta, basis)
        r == read[Len(delta)]
    IN IF delta = <<>> \/ r.state = "corrupt" THEN {}
       ELSE IF Head(delta) # Magic THEN {} ELSE {r.out}

-----------------------------------------------------------------------------
\* What the first n operations give.
Piece(basis, op) == IF op.literal THEN op.data ELSE SubSeq(basis, op.from + 1, op.from + op.length)
Output(basis, ops) ==
    LET output[n \in 0..Len(ops)] == IF n = 0 THEN <<>> ELSE output[n - 1] \o Piece(basis, ops[n])
    IN output
Outside(basis, op) == ~op.literal /\ op.from + op.length > Len(basis)

(***************************************************************************)
(* A delta gives what its operations say, or an error if one of them       *)
(* copies from beyond the basis; cut short at any byte it gives an error,  *)
(* or what the operations give that are whole.                             *)
(***************************************************************************)
DeltaIsItsOps(basis, ops) ==
    LET delta == EncodeRdiffDelta(ops)
        inside == \A i \in DOMAIN ops : ~Outside(basis, ops[i])
    IN /\ ApplyRdiffDelta(basis, delta) = (IF inside THEN {Output(basis, ops)[Len(ops)]} ELSE {})
       /\ inside => \A n \in 0..Len(delta) :
             ApplyRdiffDelta(basis, SubSeq(delta, 1, n))
                \subseteq {Output(basis, ops)[k] : k \in 0..Len(ops)}
=============================================================================

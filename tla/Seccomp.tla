------------------------------ MODULE Seccomp -------------------------------
(***************************************************************************)
(* The filter program that a profile is turned into                        *)
(* (crates/tpt-l-linux-sandbox-rs/src/seccomp.rs).  A rule is [nr, args]   *)
(* with args {} or one [arg, value]; a call is [arch, nr, args].           *)
(***************************************************************************)
EXTENDS Integers, Sequences, Reader

CONSTANTS Arch,     \* the architecture of the build
          Modulus,  \* one more than the largest u32
          Profiles, \* the profiles, sequences of rules
          Calls     \* the calls that meet a filter

Argument == {"a0", "a1", "a2", "a3", "a4", "a5"}
ASSUME FilterAssumption ==
    /\ Modulus \in Nat \ {0}
    /\ \A call \in Calls : call.nr \in 0 .. Modulus - 1
    /\ \A rules \in Profiles :
          /\ rules \in Seq([nr : Int, args : SUBSET [arg : Argument, value : Int]])
          /\ \A i \in DOMAIN rules : \A a, b \in rules[i].args : a = b

Insn(op, k, jt, jf) == [op |-> op, k |-> k, jt |-> jt, jf |-> jf]
LdAbs(field)   == Insn("ld", field, 0, 0)
Jeq(k, jt, jf) == Insn("jeq", k, jt, jf)
Ja(off)        == Insn("ja", off, 0, 0)
Ret(what)      == Insn("ret", what, 0, 0)

\* as u32, of the i64 of a number and of the u64 of a value.
Low(value) == value % Modulus

\* Fault: a call with another argument jumps past the next rule's load.
RuleFar(r) ==
    IF r.args = {} THEN <<LdAbs("nr"), Jeq(Low(r.nr), 0, 1), Ret("allow")>>
    ELSE LET a == CHOOSE x \in r.args : TRUE
         IN <<LdAbs("nr"), Jeq(Low(r.nr), 0, 3), LdAbs(a.arg), Jeq(Low(a.value), 0, 2), Ret("allow")>>
\* Each rule loads the number again, for an argument may be in its place.
Rule(r) ==
    IF r.args = {} THEN <<LdAbs("nr"), Jeq(Low(r.nr), 0, 1), Ret("allow")>>
    ELSE LET a == CHOOSE x \in r.args : TRUE
         IN <<LdAbs("nr"), Jeq(Low(r.nr), 0, 3), LdAbs(a.arg), Jeq(Low(a.value), 0, 1), Ret("allow")>>

BuildProgram(rules) ==
    LET p[k \in 0..Len(rules)] ==
            IF k = 0 THEN <<LdAbs("arch"), Jeq(Arch, 0, 1), LdAbs("nr"), Ja(1), Ret("action")>>
            ELSE p[k - 1] \o Rule(rules[k])
    IN p[Len(rules)] \o <<Ret("action")>>

-----------------------------------------------------------------------------
(* What the kernel makes of a program: the verdict, {} for one that runs   *)
(* past its end.                                                           *)

Loaded(field, call) ==
    CASE field = "arch" -> call.arch [] field = "nr" -> call.nr [] OTHER -> Low(call.args[field])
Cycle(m, p, call) ==
    IF m.verdict # {} \/ m.pc \notin DOMAIN p THEN m
    ELSE LET i == p[m.pc]
         IN CASE i.op = "ld"  -> [m EXCEPT !.acc = Loaded(i.k, call), !.pc = @ + 1]
              [] i.op = "jeq" -> [m EXCEPT !.pc = @ + 1 + (IF m.acc = i.k THEN i.jt ELSE i.jf)]
              [] i.op = "ja"  -> [m EXCEPT !.pc = @ + 1 + i.k]
              [] i.op = "ret" -> [m EXCEPT !.verdict = {i.k}]
Verdict(p, call) ==
    LET m[n \in 0..Len(p)] == IF n = 0 THEN [pc |-> 1, acc |-> 0, verdict |-> {}]
                              ELSE Cycle(m[n - 1], p, call)
    IN m[Len(p)].verdict

-----------------------------------------------------------------------------
RunFilter == \E rules \in Profiles, call \in Calls : Take("filter", <<rules, call>>)
FilterSpec == NoInput /\ [][RunFilter \/ Elsewhere({"filter"})]_inputVars

(***************************************************************************)
(* On the architecture of the build a filter allows a call if a rule names *)
(* it, with the argument it asks for if it asks for one.  It allows no     *)
(* other, as long as the numbers and the values fit in a u32; beyond that  *)
(* it can tell them apart by their lower halves only, although the rules   *)
(* are of an i64 and a u64 (lines 58-62).  Any call that it does not allow *)
(* meets the action of the profile: on any architecture the program comes  *)
(* to an end.                                                              *)
(***************************************************************************)
IsNamed(rules, call) ==
    \E i \in DOMAIN rules :
        rules[i].nr = call.nr /\ \A a \in rules[i].args : a.value = call.args[a.arg]
Matches(r, call) == Low(r.nr) = call.nr /\ \A a \in r.args : Low(a.value) = Low(call.args[a.arg])
OfAWord(r, call) ==
    {r.nr} \cup UNION {{a.value, call.args[a.arg]} : a \in r.args} \subseteq 0 .. Modulus - 1
AllowsWhatMatches(rules, call) ==
    LET v == Verdict(BuildProgram(rules), call)
    IN /\ v \in {{"allow"}, {"action"}}
       /\ call.arch = Arch =>
            /\ v = {"allow"} <=> \E i \in DOMAIN rules : Matches(rules[i], call)
            /\ IsNamed(rules, call) => v = {"allow"}
            /\ (\A i \in DOMAIN rules : OfAWord(rules[i], call))
                  => (v = {"allow"} <=> IsNamed(rules, call))
FilterIsAllowlist == part = "filter" => AllowsWhatMatches(input[1], input[2])
=============================================================================

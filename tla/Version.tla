------------------------------ MODULE Version -------------------------------
(***************************************************************************)
(* Debian versions and their order (crates/tpt-l-deb-version/src/lib.rs).  *)
(* The order is decided character by character, so a string is a sequence  *)
(* of characters here.                                                     *)
(***************************************************************************)
EXTENDS Integers, Sequences, FiniteSetsExt, Reader

CONSTANTS Rank,        \* the characters used, each with its code
          WordSize,    \* one more than the largest u64
          MaxEpoch,    \* the largest u32
          Compared,    \* strings to be compared
          Constrained, \* versions to be held against a constraint
          VersionTexts \* strings to be parsed

Digits  == {c \in DOMAIN Rank : Rank[c] \in 48..57}
Letters == {c \in DOMAIN Rank : Rank[c] \in (65..90) \cup (97..122)}
Marks   == {".", "+", "-", "~", ":"}
ValidChars == Digits \cup Letters \cup Marks

Text     == Seq(DOMAIN Rank)
Versions == [epoch : Nat, upstream : Text, revision : Text]
ASSUME VersionAssumption ==
    /\ Rank \in [DOMAIN Rank -> Nat]
    /\ {Rank[c] : c \in Digits} = 48..57 /\ Marks \cap (Digits \cup Letters) = {}
    /\ WordSize \in Nat \ {0} /\ MaxEpoch \in Nat
    /\ Compared \subseteq Text /\ VersionTexts \subseteq Text /\ Constrained \subseteq Versions

Sign(n) == IF n < 0 THEN -1 ELSE IF n > 0 THEN 1 ELSE 0
\* What the digits at i, ..., j - 1 spell.
Number(s, i, j) ==
    LET n[k \in i..j] == IF k = i THEN 0 ELSE n[k - 1] * 10 + Rank[s[k - 1]] - 48
    IN n[j]

-----------------------------------------------------------------------------
(* Version::parse: the set of the version read, empty for an error. *)

AllIn(s, chars) == \A i \in DOMAIN s : s[i] \in chars
Places(c, s) == {i \in DOMAIN s : s[i] = c}
Upto(s, i)   == SubSeq(s, 1, i - 1)
Past(s, i)   == SubSeq(s, i + 1, Len(s))

\* str::parse::<u32> takes a leading plus and any number of zeros.
Epoch(s) ==
    LET ds == IF s # <<>> /\ Head(s) = "+" THEN Tail(s) ELSE s
    IN IF ds = <<>> \/ ~AllIn(ds, Digits) THEN {}
       ELSE {n \in {Number(ds, 1, Len(ds) + 1)} : n <= MaxEpoch}

SplitRevision(epoch, rest) ==
    LET dash == Max(Places("-", rest))
    IN IF rest = <<>> \/ ~AllIn(rest, ValidChars) THEN {}
       ELSE IF Places("-", rest) = {} THEN {[epoch |-> epoch, upstream |-> rest, revision |-> <<>>]}
       ELSE {[epoch |-> epoch, upstream |-> Upto(rest, dash), revision |-> Past(rest, dash)]}

ParseVersion(s) ==
    LET colon == Min(Places(":", s))
    IN IF Places(":", s) = {} THEN SplitRevision(0, s)
       ELSE UNION {SplitRevision(e, Past(s, colon)) : e \in Epoch(Upto(s, colon))}

Digit(k) == CHOOSE d \in Digits : Rank[d] = 48 + k
Decimal(n) ==
    LET ds[k \in 0..n] == IF k < 10 THEN <<Digit(k)>> ELSE Append(ds[k \div 10], Digit(k % 10))
    IN ds[n]
Display(v) ==
    (IF v.epoch = 0 THEN <<>> ELSE Append(Decimal(v.epoch), ":"))
    \o v.upstream \o (IF v.revision = <<>> THEN <<>> ELSE <<"-">> \o v.revision)

-----------------------------------------------------------------------------
(* deb_str_cmp: the two strings are walked together, from i in the first   *)
(* and j in the second, until their order is known.                        *)

AtEnd(s, i) == i > Len(s) \/ s[i] \in Digits
CharOrder(s, i) ==
    IF AtEnd(s, i) THEN 0
    ELSE IF s[i] = "~" THEN -1
    ELSE IF s[i] \in Letters THEN Rank[s[i]]
    ELSE 1000 + Rank[s[i]]

PastRun(s, i) == Min({k \in i..Len(s) : s[k] \notin Digits} \cup {Len(s) + 1})
\* Fault: a number stops growing at ten.
CollectDigitsStops(s, i) == LET n == Number(s, i, PastRun(s, i)) IN IF n > 10 THEN 10 ELSE n
\* n * 10 + d in u64, as a build without overflow checks has it.
CollectDigits(s, i) == Number(s, i, PastRun(s, i)) % WordSize

Walking(i, j) == [i |-> i, j |-> j, ord |-> {}]
Decided(c)    == [i |-> 0, j |-> 0, ord |-> {c}]
Turn(a, b, r) ==
    LET x == CharOrder(a, r.i)
        y == CharOrder(b, r.j)
        m == CollectDigits(a, r.i)
        n == CollectDigits(b, r.j)
        i == PastRun(a, r.i)
        j == PastRun(b, r.j)
    IN IF r.ord # {} THEN r
       ELSE IF x # y THEN Decided(Sign(x - y))
       ELSE IF ~AtEnd(a, r.i) THEN Walking(r.i + 1, r.j + 1)
       ELSE IF m # n THEN Decided(Sign(m - n))
       ELSE IF i > Len(a) /\ j > Len(b) THEN Decided(0)
       ELSE Walking(i, j)
DebStrCmp(a, b) ==
    LET last == Len(a) + Len(b) + 1
        turn[k \in 0..last] == IF k = 0 THEN Walking(1, 1) ELSE Turn(a, b, turn[k - 1])
    IN CHOOSE c \in turn[last].ord : TRUE

\* Ord::cmp.
Cmp(v, w) ==
    IF v.epoch # w.epoch THEN Sign(v.epoch - w.epoch)
    ELSE LET c == DebStrCmp(v.upstream, w.upstream)
         IN IF c # 0 THEN c ELSE DebStrCmp(v.revision, w.revision)

\* VersionConstraint::satisfies.
Satisfies(installed, op, version) ==
    LET ord == Cmp(installed, version)
    IN CASE op = "<<" -> ord = -1
         [] op = "<=" -> ord # 1
         [] op = "="  -> ord = 0
         [] op = ">=" -> ord # -1
         [] op = ">>" -> ord = 1

-----------------------------------------------------------------------------
(* The order that the Debian policy describes: a string is runs of other   *)
(* characters and of digits in turn, the first ordered by `~', the end,    *)
(* letters, the rest, the second as numbers.  Written as a sequence of     *)
(* numbers, 0 being the end of a run, strings are ordered as these         *)
(* sequences are, continued by zeros.                                      *)
Block(s, i) == IF s[i] \notin Digits THEN <<CharOrder(s, i)>>
               ELSE IF i = 1 \/ s[i - 1] \notin Digits THEN <<0, Number(s, i, PastRun(s, i))>>
               ELSE <<>>
Key(s) ==
    LET key[k \in 0..Len(s)] == IF k = 0 THEN <<>> ELSE key[k - 1] \o Block(s, k)
    IN key[Len(s)]

EntryAt(key, i) == IF i \in DOMAIN key THEN key[i] ELSE 0
Differ(p, q)    == {i \in DOMAIN p \cup DOMAIN q : EntryAt(p, i) # EntryAt(q, i)}
KeyCmp(p, q)    ==
    LET first == Min(Differ(p, q))
    IN IF Differ(p, q) = {} THEN 0 ELSE Sign(EntryAt(p, first) - EntryAt(q, first))

\* No number is too large.
Fits(s) == \A i \in DOMAIN s : Number(s, i, PastRun(s, i)) < WordSize
VersionFits(v) == Fits(v.upstream) /\ Fits(v.revision)

(***************************************************************************)
(* Version::cmp is the order of the policy, as long as every number in the *)
(* versions fits into 64 bits.                                             *)
(***************************************************************************)
OrderIsPolicy(a, b) ==
    (Fits(a) /\ Fits(b)) => DebStrCmp(a, b) = KeyCmp(Key(a), Key(b))

(***************************************************************************)
(* So are the versions that satisfy a constraint: those before, at or      *)
(* after its version in the order of the policy, by epoch first, then      *)
(* upstream version, then revision, an absent one being 0.                 *)
(***************************************************************************)
Earlier(v, w) ==
    LET upstream == KeyCmp(Key(v.upstream), Key(w.upstream))
        revision == KeyCmp(Key(v.revision), Key(w.revision))
    IN \/ v.epoch < w.epoch
       \/ v.epoch = w.epoch /\ upstream < 0
       \/ v.epoch = w.epoch /\ upstream = 0 /\ revision < 0
SatisfiesIsPolicy(v, w) ==
    (VersionFits(v) /\ VersionFits(w)) =>
        /\ Satisfies(v, "<<", w) <=> Earlier(v, w)
        /\ Satisfies(v, "<=", w) <=> ~Earlier(w, v)
        /\ Satisfies(v, "=", w)  <=> ~Earlier(v, w) /\ ~Earlier(w, v)
        /\ Satisfies(v, ">=", w) <=> ~Earlier(v, w)
        /\ Satisfies(v, ">>", w) <=> Earlier(w, v)

(***************************************************************************)
(* A version that is displayed and parsed again is the same version, but   *)
(* for one with an empty revision after a dash that is not its only one    *)
(* (or that is all of it), and one with a colon after epoch 0, which is    *)
(* displayed without its epoch.                                            *)
(***************************************************************************)
DisplayReparses(s) ==
    \A v \in ParseVersion(s) :
        (/\ v.epoch = 0 => Places(":", v.upstream) = {} /\ Places(":", v.revision) = {}
         /\ v.revision = <<>> => v.upstream # <<>> /\ Places("-", v.upstream) = {})
        => ParseVersion(Display(v)) = {v}

-----------------------------------------------------------------------------
(* Each of the above on an input of its own. *)

CompareVersions == \E s, t \in Compared : Take("compare", <<s, t>>)
CheckConstraint == \E v, w \in Constrained : Take("constraint", <<v, w>>)
ReadVersion     == \E s \in VersionTexts : Take("version", s)

VersionSpec ==
    NoInput /\ [][CompareVersions \/ CheckConstraint \/ ReadVersion
                  \/ Elsewhere({"compare", "constraint", "version"})]_inputVars

\* deb_str_cmp orders versions as the policy does, a constraint takes the
\* versions it should by that order, and a version that is displayed and
\* parsed again is the same version, although its epoch and its revision may
\* be left out (deb-version 79-333).
VersionsAgree ==
    /\ part = "compare"    => OrderIsPolicy(input[1], input[2])
    /\ part = "constraint" => SatisfiesIsPolicy(input[1], input[2])
    /\ part = "version"    => DisplayReparses(input)
=============================================================================

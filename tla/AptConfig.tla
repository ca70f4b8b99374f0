----------------------------- MODULE AptConfig ------------------------------
(***************************************************************************)
(* The parser of apt.conf files and its includes                           *)
(* (crates/tpt-l-apt-config/src/lib.rs).  A text is a sequence of tokens   *)
(* [t, s]: a "key" segment or a quoted "value" with its text s, or one of  *)
(* `::', `{', `}', `;', "include", "include-dir", "comment".  A key is a   *)
(* sequence of segments.                                                   *)
(***************************************************************************)
EXTENDS Integers, Sequences, SequencesExt, Functions

CONSTANT MaxDepth  \* how deep includes may nest: 10 in the code

Tok(t) == [t |-> t, s |-> ""]

-----------------------------------------------------------------------------
(* AptConfig: a function from keys to [list, values]. *)

Empty == [k \in {} |-> <<>>]
Put(cfg, key, value) == [k \in DOMAIN cfg \cup {key} |-> IF k = key THEN value ELSE cfg[k]]
Set(cfg, key, s) == Put(cfg, key, [list |-> FALSE, values |-> <<s>>])
\* A string that is appended to becomes the first of a list.
PushList(cfg, key, s) ==
    Put(cfg, key, [list |-> TRUE,
                   values |-> Append(IF key \in DOMAIN cfg THEN cfg[key].values ELSE <<>>, s)])

-----------------------------------------------------------------------------
(* parse_block, one token at a time.  `at' is what the parser is about to  *)
(* read, `scope' the keys of the blocks that are open, outermost first.    *)

Fail(p) == [p EXCEPT !.at = "failed"]
Prefix(p) == IF p.scope = <<>> THEN <<>> ELSE Last(p.scope)

\* The top level stops at a bracket too: the rest of the text is not read.
Close(p) == IF p.scope = <<>> THEN [p EXCEPT !.at = "stopped"]
            ELSE [p EXCEPT !.scope = Front(@), !.at = "closed"]

Statement(p, tok) ==
    CASE tok.t = "comment" -> p
      [] tok.t = "}"       -> Close(p)
      [] tok.t = "key"     -> [p EXCEPT !.at = "key", !.key = Append(Prefix(p), tok.s)]
      [] tok.t \in {"include", "include-dir"} -> [p EXCEPT !.at = tok.t]
      [] OTHER             -> Fail(p)

Token(p, tok) ==
    CASE p.at \in {"failed", "stopped"} -> p
      [] p.at = "closed" /\ tok.t = ";" -> [p EXCEPT !.at = "statement"]
      [] p.at \in {"statement", "closed"} -> Statement([p EXCEPT !.at = "statement"], tok)
      [] p.at = "key" /\ tok.t = "::" -> [p EXCEPT !.at = "separator"]
      [] p.at = "key" /\ tok.t = "{"  -> [p EXCEPT !.at = "statement", !.scope = Append(@, p.key)]
      [] p.at = "key" /\ tok.t = "value" -> [p EXCEPT !.at = "set", !.value = tok.s]
      [] p.at = "separator" /\ tok.t = "key" -> [p EXCEPT !.at = "key", !.key = Append(@, tok.s)]
      [] p.at = "separator" /\ tok.t = "value" -> [p EXCEPT !.at = "push", !.value = tok.s]
      [] p.at = "set" /\ tok.t = ";" ->
             [p EXCEPT !.at = "statement", !.cfg = Set(@, p.key, p.value)]
      [] p.at = "push" /\ tok.t = ";" ->
             [p EXCEPT !.at = "statement", !.cfg = PushList(@, p.key, p.value)]
      [] p.at \in {"include", "include-dir"} /\ tok.t = "value" ->
             [p EXCEPT !.at = "closed", !.includes = Append(@, [dir |-> p.at = "include-dir", path |-> tok.s])]
      [] OTHER -> Fail(p)

\* parse_into; the blocks must be closed at the end.
ParseInto(tokens, cfg) ==
    LET p == FoldLeft(Token, [at |-> "statement", scope |-> <<>>, key |-> <<>>, value |-> "",
                              cfg |-> cfg, includes |-> <<>>], tokens)
    IN [cfg |-> p.cfg, includes |-> p.includes,
        ok |-> p.at = "stopped" \/ (p.at \in {"statement", "closed"} /\ p.scope = <<>>)]

-----------------------------------------------------------------------------
(* load_with_includes.  The includes of a file are read after the whole of *)
(* it, into the top level.  `files' gives the tokens of each file, `dirs'  *)
(* the paths in each directory in their order; what is in neither is not   *)
(* there and is passed over.                                               *)

Targets(inc, files, dirs) ==
    IF inc.dir THEN IF inc.path \in DOMAIN dirs THEN dirs[inc.path] ELSE <<>>
    ELSE IF inc.path \in DOMAIN files \cup DOMAIN dirs THEN <<inc.path>> ELSE <<>>

Broken == [ok |-> FALSE, cfg |-> Empty]

RECURSIVE LoadInner(_, _, _, _, _)
LoadInner(path, depth, cfg, files, dirs) ==
    LET p == ParseInto(files[path], cfg)
        targets == FlattenSeq([i \in DOMAIN p.includes |-> Targets(p.includes[i], files, dirs)])
    IN IF depth >= MaxDepth \/ path \notin DOMAIN files \/ ~p.ok THEN Broken
       ELSE FoldLeft(LAMBDA r, t : IF r.ok THEN LoadInner(t, depth + 1, r.cfg, files, dirs) ELSE r,
                     [ok |-> TRUE, cfg |-> p.cfg], targets)
LoadWithIncludes(path, files, dirs) == LoadInner(path, 0, Empty, files, dirs)

\* load_dir reads the files one after the other into one configuration, and
\* resolves no include.
LoadDir(paths, files) ==
    FoldLeft(LAMBDA r, t : IF r.ok THEN ParseInto(files[t], r.cfg) ELSE r,
             [ok |-> TRUE, cfg |-> Empty, includes |-> <<>>], paths)

\* merge: the values of the other configuration win.
Merge(cfg, other) == [k \in DOMAIN cfg \cup DOMAIN other |-> IF k \in DOMAIN other THEN other[k] ELSE cfg[k]]

-----------------------------------------------------------------------------
(* A setting is [blocks, chain, append, value]: its key written as blocks  *)
(* around a chain of segments.                                             *)

Chain(segments) ==
    FlattenSeq([i \in DOMAIN segments |->
        (IF i = 1 THEN <<>> ELSE <<Tok("::")>>) \o <<[t |-> "key", s |-> segments[i]]>>])
Text(s) ==
    FlattenSeq([i \in DOMAIN s.blocks |-> <<[t |-> "key", s |-> s.blocks[i]], Tok("{")>>])
    \o Chain(s.chain) \o (IF s.append THEN <<Tok("::")>> ELSE <<>>)
    \o <<[t |-> "value", s |-> s.value], Tok(";")>>
    \o FlattenSeq([i \in DOMAIN s.blocks |-> <<Tok("}")>> \o (IF s.semicolons THEN <<Tok(";")>> ELSE <<>>)])
Applied(cfg, s) == IF s.append THEN PushList(cfg, s.blocks \o s.chain, s.value)
                   ELSE Set(cfg, s.blocks \o s.chain, s.value)

(***************************************************************************)
(* The two syntaxes are one: however the keys of the settings of a text    *)
(* are written, as blocks, as chains or mixed, reading it is setting them  *)
(* in turn, so that a later setting of a key replaces all of what was      *)
(* there and an appended one adds to it.  It does not matter how the       *)
(* settings are split over the files of a directory; a file that appends   *)
(* to nothing is merged into those before it.                              *)
(***************************************************************************)
Spelled(settings) == FlattenSeq([i \in DOMAIN settings |-> Text(settings[i])])
SyntaxesAgree(settings) ==
    LET p == ParseInto(Spelled(settings), Empty)
    IN /\ p.ok /\ p.cfg = FoldLeft(Applied, Empty, settings)
       /\ \A n \in 0..Len(settings) :
            LET first == SubSeq(settings, 1, n)
                rest  == SubSeq(settings, n + 1, Len(settings))
                r == LoadDir(<<1, 2>>, <<Spelled(first), Spelled(rest)>>)
            IN /\ r.ok /\ r.cfg = p.cfg
               /\ (\A i \in DOMAIN rest : ~rest[i].append)
                  => p.cfg = Merge(ParseInto(Spelled(first), Empty).cfg, ParseInto(Spelled(rest), Empty).cfg)

\* The files that some walk of n includes leads to.
Includes(f, files, dirs) ==
    LET incs == ParseInto(files[f], Empty).includes
    IN IF f \notin DOMAIN files THEN {}
       ELSE UNION {ToSet(Targets(incs[i], files, dirs)) : i \in DOMAIN incs}
Walk(path, n, files, dirs) ==
    FoldLeft(LAMBDA fs, i : UNION {Includes(f, files, dirs) : f \in fs}, {path}, [i \in 1..n |-> i])

(***************************************************************************)
(* Loading ends, also when files include each other, and fails only for    *)
(* includes that nest too deep and for one that names a directory; what it *)
(* loads has the settings of each file that is included, however it is.    *)
(***************************************************************************)
IncludesResolve(path, files, dirs) ==
    LET r == LoadWithIncludes(path, files, dirs)
        reached == UNION {Walk(path, n, files, dirs) : n \in 0..(MaxDepth - 1)}
    IN /\ r.ok <=> Walk(path, MaxDepth, files, dirs) = {} /\ reached \subseteq DOMAIN files
       /\ r.ok => DOMAIN r.cfg = UNION {DOMAIN ParseInto(files[f], Empty).cfg : f \in reached}
=============================================================================

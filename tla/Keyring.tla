------------------------------ MODULE Keyring -------------------------------
(***************************************************************************)
(* The keyring and its file (crates/tpt-l-apt-keyring/src/lib.rs).  A      *)
(* keyring is a sequence of certificates [id, expires, revoked]; the bytes *)
(* of a file, and those that are imported, are a sequence of certificates  *)
(* and of Junk.                                                            *)
(***************************************************************************)
EXTENDS Integers, Sequences, Functions, Reader

CONSTANTS Ids, Certs,  \* the certificates, and what they are told apart by
          Histories,   \* of additions and removals, see Do
          Rings,       \* the keyrings a signature is verified with
          Signers,     \* the ids a signature may fit
          Policies

Junk == [id |-> "junk", expires |-> {}, revoked |-> FALSE]
ASSUME KeyringAssumption ==
    /\ Junk.id \notin Ids
    /\ Certs \subseteq [id : Ids, expires : SUBSET Int, revoked : BOOLEAN]
    /\ Histories \subseteq Seq([add : BOOLEAN, data : Seq(Certs \cup {Junk}), id : Ids])
    /\ Rings \subseteq Seq(Certs)
    /\ Policies \subseteq [when : Int, allowExpired : BOOLEAN, allowRevoked : BOOLEAN]

\* The elements of a sequence that are in s, in their order.
Only(seq, s) ==
    LET only[n \in 0..Len(seq)] == IF n = 0 THEN <<>>
                                   ELSE IF seq[n] \in s THEN Append(only[n - 1], seq[n]) ELSE only[n - 1]
    IN only[Len(seq)]
Elements(seq) == {seq[i] : i \in DOMAIN seq}

\* load_bytes: {} is an error.
LoadBytes(data) == LET keys == Only(data, Elements(data) \ {Junk})
                   IN IF keys = <<>> THEN {} ELSE {keys}
RemoveKey(keys, id) == Only(keys, {k \in Elements(keys) : k.id # id})

\* load_dir: a file that cannot be loaded is passed over, an empty directory
\* is an empty keyring; a file is [ext, data].
LoadDir(files) ==
    LET merged[n \in 0..Len(files)] ==
            IF n = 0 THEN <<>>
            ELSE IF files[n].ext \notin {"gpg", "asc"} \/ LoadBytes(files[n].data) = {} THEN merged[n - 1]
            ELSE merged[n - 1] \o Only(files[n].data, Elements(files[n].data) \ {Junk})
    IN merged[Len(files)]

(***************************************************************************)
(* add_to_keyring_file.  A file is {} or its bytes; the whole file is      *)
(* written again, and only what was read of it: junk is gone then.         *)
(***************************************************************************)
\* Fault: a file that cannot be loaded counts as none.
AddAnyway(file, data) ==
    LET old == UNION {LoadBytes(bytes) : bytes \in file}
    IN IF LoadBytes(data) = {} THEN [ok |-> FALSE, file |-> file]
       ELSE [ok |-> TRUE, file |-> UNION {{o \o k : k \in LoadBytes(data)} : o \in IF old = {} THEN {<<>>} ELSE old}]
Add(file, data) ==
    LET old == IF file = {} THEN {<<>>} ELSE UNION {LoadBytes(bytes) : bytes \in file}
    IN IF old = {} \/ LoadBytes(data) = {} THEN [ok |-> FALSE, file |-> file]
       ELSE [ok |-> TRUE, file |-> UNION {{o \o k : k \in LoadBytes(data)} : o \in old}]

\* A caller's load, remove and save; what it makes empty is saved as well.
RemoveFrom(file, id) ==
    LET old == UNION {LoadBytes(bytes) : bytes \in file}
    IN IF old = {} THEN [ok |-> FALSE, file |-> file]
       ELSE [ok |-> TRUE, file |-> {RemoveKey(k, id) : k \in old}]

-----------------------------------------------------------------------------
(* verify_clearsigned_with and verify_detached_with: `by' are the ids that *)
(* the signature fits.                                                     *)

Check(r, key, by, policy) ==
    IF key.id \notin by THEN r
    ELSE IF ~policy.allowExpired /\ \E t \in key.expires : policy.when > t THEN [r EXCEPT !.expired = TRUE]
    ELSE IF ~policy.allowRevoked /\ key.revoked THEN [r EXCEPT !.revoked = TRUE]
    ELSE [r EXCEPT !.signers = Append(@, key.id)]
Verify(keys, by, policy) ==
    LET check[n \in 0..Len(keys)] ==
            IF n = 0 THEN [signers |-> <<>>, expired |-> FALSE, revoked |-> FALSE]
            ELSE Check(check[n - 1], keys[n], by, policy)
        r == check[Len(keys)]
    IN IF r.signers # <<>> THEN [is |-> "signed", by |-> r.signers]
       ELSE [is |-> IF r.expired THEN "expired" ELSE IF r.revoked THEN "revoked" ELSE "none", by |-> <<>>]

-----------------------------------------------------------------------------
(***************************************************************************)
(* Whatever was added to a keyring file and removed from it, in any order: *)
(* the file holds, as often as it was added, each certificate that a call  *)
(* that succeeded added after it was last removed.  A file that is made    *)
(* empty by a removal cannot be added to any more.                         *)
(***************************************************************************)
\* An operation is [add, data, id].  The file, and whether the last succeeded.
Do(file, op) == IF op.add THEN Add(file, op.data) ELSE RemoveFrom(file, op.id)
After(ops) ==
    LET s[n \in 0..Len(ops)] == IF n = 0 THEN [ok |-> TRUE, file |-> {}] ELSE Do(s[n - 1].file, ops[n])
    IN s
Times(seq, id) == Len(Only(seq, {k \in Elements(seq) : k.id = id}))
Expected(ops, id) ==
    LET e[n \in 0..Len(ops)] == IF n = 0 THEN 0
                                ELSE IF ~After(ops)[n].ok THEN e[n - 1]
                                ELSE IF ops[n].add THEN e[n - 1] + Times(ops[n].data, id)
                                ELSE IF ops[n].id = id THEN 0 ELSE e[n - 1]
    IN e
AddedAreKept(ops, ids) ==
    LET s == After(ops)
    IN /\ \A id \in ids : \A n \in 0..Len(ops) : \A bytes \in s[n].file : Times(bytes, id) = Expected(ops, id)[n]
       /\ \A n \in 1..Len(ops) :
             ops[n].add => (s[n].ok <=> (LoadBytes(ops[n].data) # {} /\ s[n - 1].file # {<<>>}))

(***************************************************************************)
(* Whether a signature is accepted, by whom, and for what reason it is     *)
(* not, does not depend on the order of the keys or on copies of them, nor *)
(* on the files of the directory they come from: a key that may not be     *)
(* used never hides one that may, and a damaged file hides no other.       *)
(***************************************************************************)
MayBeUsed(k, policy) ==
    /\ policy.allowExpired \/ \A t \in k.expires : policy.when <= t
    /\ policy.allowRevoked \/ ~k.revoked
Damaged == <<[ext |-> "asc", data |-> <<Junk>>], [ext |-> "kbx", data |-> <<Junk>>]>>
VerdictIsOrderFree(keys, by, policy) ==
    LET v == Verify(keys, by, policy)
    IN /\ Elements(v.by) = {k.id : k \in {x \in Elements(keys) : x.id \in by /\ MayBeUsed(x, policy)}}
       /\ \A p \in Bijection(DOMAIN keys, DOMAIN keys) :
             LET w == Verify([i \in DOMAIN keys |-> keys[p[i]]], by, policy)
             IN w.is = v.is /\ Elements(w.by) = Elements(v.by)
       /\ LET files == [i \in DOMAIN keys |-> [ext |-> "gpg", data |-> <<keys[i]>>]]
          IN v = Verify(LoadDir(Damaged \o files), by, policy)

-----------------------------------------------------------------------------
ChangeKeyring == \E ops \in Histories : Take("keyring", ops)
VerifySigned  == \E keys \in Rings, by \in Signers, policy \in Policies :
                    Take("verify", [keys |-> keys, by |-> by, policy |-> policy])
KeyringSpec == NoInput /\ [][ChangeKeyring \/ VerifySigned \/ Elsewhere({"keyring", "verify"})]_inputVars

\* A key that was added and not removed is in the keyring, through any series
\* of additions and removals that return Ok, and a signature's verdict does
\* not depend on the order of the keys (keyring).
KeyringIsKept ==
    /\ part = "keyring" => AddedAreKept(input, Ids)
    /\ part = "verify"  => VerdictIsOrderFree(input.keys, input.by, input.policy)
=============================================================================

------------------------------ MODULE Transport -----------------------------
(***************************************************************************)
(* The HTTP transport (crates/tpt-l-apt-transport/src/lib.rs): fetches     *)
(* that are repeated and fall back to another URL, single requests, and    *)
(* downloads into a file, which a later call may resume.  The server       *)
(* publishes, refuses and breaks off as it likes, within bounds.           *)
(***************************************************************************)
EXTENDS Integers, Sequences, FiniteSets, SequencesExt

CONSTANTS MaxRetries,  \* TransportConfig::max_retries
          Length,      \* chunks of the file that is downloaded
          Page,        \* the body of an error response
          MaxChanges, MaxCalls  \* bounds

Fetches   == {"bytes", "index", "release", "mirrors"}
Requests  == {"range", "since"}
Downloads == {"file", "resume"}

\* The URLs that a fetch tries in turn: Packages.xz, .gz and plain; InRelease
\* and Release; the mirrors.
Urls(k) == CASE k = "index" -> 3 [] k \in {"release", "mirrors"} -> 2 [] OTHER -> 1
Url == 1..3

\* What a URL has: nothing, a body, or a body that is not what it should be.
Offers == {"absent", "present", "corrupt"}

\* The URLs whose bytes are decompressed by their extension; those of Packages
\* itself, the last one, are taken as they are, corrupt ones too.
IsCompressed(u) == u < Urls("index")

ASSUME TransportAssumption ==
    /\ MaxRetries \in Nat /\ Length \in Nat \ {0}
    /\ MaxChanges \in Nat /\ MaxCalls \in Nat

VARIABLES world,    \* URL -> what it offers
          version,  \* of the file that is downloaded
          dest,     \* the chunks in the file on disk, <<>> when there is none
          pc,       \* "idle", "asking", "body"
          kind, at, \* the call and the URL it is at
          tries,    \* attempts at that URL so far
          body,     \* chunks still to come
          result,   \* of the last call
          log,      \* history: the answers to this call, for each URL
          mixed,    \* history: the file holds what a whole download does not
          changes, calls

server == <<world, version>>
call   == <<pc, kind, at, tries, body, result, log>>
vars   == <<server, dest, call, mixed, changes, calls>>

Chunk(v, i) == <<v, i>>
Chunks(v)   == [i \in 1..Length |-> Chunk(v, i)]

Init ==
    /\ world \in [Url -> Offers] /\ version = 1 /\ dest = <<>>
    /\ pc = "idle" /\ kind = "bytes" /\ at = 1 /\ tries = 0 /\ body = <<>>
    /\ result = "none" /\ log = [u \in Url |-> <<>>] /\ mixed = FALSE
    /\ changes = 0 /\ calls = 0

Publish ==
    /\ changes < MaxChanges /\ changes' = changes + 1
    /\ \/ \E u \in Url : \E o \in Offers \ {world[u]} :
             world' = [world EXCEPT ![u] = o] /\ UNCHANGED version
       \/ version' = version + 1 /\ UNCHANGED world
    /\ UNCHANGED <<dest, call, mixed, calls>>

Begin(k) ==
    /\ pc = "idle" /\ calls < MaxCalls
    /\ pc' = "asking" /\ kind' = k /\ at' = 1 /\ tries' = 0 /\ body' = <<>>
    /\ result' = "none" /\ log' = [u \in Url |-> <<>>] /\ calls' = calls + 1
    /\ UNCHANGED <<server, dest, mixed, changes>>

Return(r) == pc' = "idle" /\ result' = r

-----------------------------------------------------------------------------
(* fetch_bytes and what is built on it. *)

\* Any error counts as an attempt, a 404 as well; the last one is returned.
Attempts(k) == MaxRetries + 1
Answers(u)  == {"network", "http"} \cup (IF world[u] = "absent" THEN {"404"} ELSE {"ok"})

\* Fault: they go on whatever was wrong.
MovesOnAlways(k, e) == k # "bytes"
\* fetch_index and fetch_release go on when a URL is not there, and
\* fetch_with_mirrors whatever was wrong.
MovesOn(k, e) == k = "mirrors" \/ (k \in {"index", "release"} /\ e = "404")
Exhausted(k, e) == IF k = "mirrors" THEN "allFailed" ELSE e

Succeed ==
    Return(IF kind = "index" /\ IsCompressed(at) /\ world[at] = "corrupt"
           THEN "decompress" ELSE "ok")

GiveUp(e) ==
    IF MovesOn(kind, e) /\ at < Urls(kind)
    THEN at' = at + 1 /\ tries' = 0 /\ UNCHANGED <<pc, result>>
    ELSE Return(Exhausted(kind, e)) /\ UNCHANGED <<at, tries>>

Attempt ==
    /\ pc = "asking" /\ kind \in Fetches
    /\ \E a \in Answers(at) :
         /\ log' = [log EXCEPT ![at] = Append(@, a)]
         /\ IF a = "ok" THEN Succeed /\ UNCHANGED <<at, tries>>
            ELSE IF tries + 1 < Attempts(kind)
            THEN tries' = tries + 1 /\ UNCHANGED <<pc, at, result>>
            ELSE GiveUp(a)
    /\ UNCHANGED <<server, dest, kind, body, mixed, changes, calls>>

-----------------------------------------------------------------------------
(* Requests and downloads: one attempt each. *)

\* fetch_range takes a whole body for a part; fetch_if_modified_since has no
\* result when the server answers 304.
Request ==
    /\ pc = "asking" /\ kind \in Requests
    /\ \/ \E e \in {"network", "http"} : Return(e)
       \/ kind = "range" /\ \E r \in {"part", "ok"} : Return(r)
       \/ kind = "since" /\ \E r \in {"unchanged", "ok"} : Return(r)
    /\ UNCHANGED <<server, dest, kind, at, tries, body, log, mixed, changes, calls>>

\* Fault: the file is not truncated.
OverwriteInPlace(b, m) == body' = b /\ mixed' = m /\ pc' = "body" /\ UNCHANGED dest
Overwrite(b, m) == dest' = <<>> /\ body' = b /\ mixed' = m /\ pc' = "body"

\* The file is made only once the status says that its bytes will come.
Download ==
    /\ kind = "file"
    /\ \/ Overwrite(Chunks(version), FALSE) /\ UNCHANGED result
       \/ /\ \E e \in {"network", "http"} : Return(e)
          /\ UNCHANGED <<dest, body, mixed>>

\* The status is not looked at but for 206: an error page, also the 416 of a
\* file that is already whole, replaces what was downloaded.
Resume ==
    /\ kind = "resume"
    /\ \/ /\ dest # <<>> /\ Len(dest) < Length   \* 206
          /\ body' = SubSeq(Chunks(version), Len(dest) + 1, Length)
          /\ mixed' = (mixed \/ Head(dest)[1] # version)
          /\ pc' = "body" /\ UNCHANGED <<dest, result>>
       \/ Overwrite(Chunks(version), FALSE) /\ UNCHANGED result   \* 200
       \/ Overwrite(<<Page>>, TRUE) /\ UNCHANGED result
       \/ Return("network") /\ UNCHANGED <<dest, body, mixed>>

Respond ==
    /\ pc = "asking"
    /\ Download \/ Resume
    /\ UNCHANGED <<server, kind, at, tries, log, changes, calls>>

\* A chunk arrives and is appended, or the connection or the disk fails.
Receive ==
    /\ pc = "body"
    /\ \/ body # <<>> /\ dest' = Append(dest, Head(body)) /\ body' = Tail(body)
          /\ UNCHANGED <<pc, result>>
       \/ body = <<>> /\ Return("ok") /\ UNCHANGED <<dest, body>>
       \/ Return("network") /\ UNCHANGED <<dest, body>>
    /\ UNCHANGED <<server, kind, at, tries, log, mixed, changes, calls>>

CallStep == Attempt \/ Request \/ Respond \/ Receive
Next == Publish \/ CallStep \/ \E k \in Fetches \cup Requests \cup Downloads : Begin(k)
Spec == Init /\ [][Next]_vars

-----------------------------------------------------------------------------
Failed(u) == Len(log[u]) = MaxRetries + 1 /\ "ok" \notin ToSet(log[u])
Answered == pc = "idle" /\ kind \in Fetches /\ result # "none"

\* It has an answer of its last URL only and has left every URL before it
\* after all its attempts, and those of fetch_index and fetch_release only if
\* the last of them said that there is no such file: no other fault of
\* Packages.xz or InRelease makes it take the next one.
PassesOnlyMissing ==
    /\ \A u \in 1..at - 1 :
         /\ Failed(u)
         /\ kind # "mirrors" => Last(log[u]) = "404"
    /\ result \in {"ok", "decompress"} \/ Failed(at)
    /\ result \in {"404", "allFailed"} => at = Urls(kind)

\* The result on a network without faults.  That a plain index is corrupt is
\* nothing a fetch can know.
Present(u) == world[u] # "absent"
Ideal ==
    LET all == 1..Urls(kind)
        u == CHOOSE v \in all : Present(v) /\ \A w \in all : Present(w) => v <= w
    IN IF \A v \in all : ~Present(v)
       THEN IF kind = "mirrors" THEN "allFailed" ELSE "404"
       ELSE IF kind = "index" /\ IsCompressed(u) /\ world[u] = "corrupt"
       THEN "decompress" ELSE "ok"

(***************************************************************************)
(* A fetch goes from URL to URL only as the kind of fetch allows, and      *)
(* attempts that fail for a while do not show: while the server publishes  *)
(* nothing and the last attempt at no URL fails for another reason than    *)
(* that it has no file, the result is that of a network without faults     *)
(* (lines 122-138, 168-182, 194-206, 225-235).                             *)
(***************************************************************************)
FetchIsRight ==
    Answered =>
        /\ PassesOnlyMissing
        /\ (/\ changes = 0
            /\ \A u \in Url : log[u] # <<>> => Last(log[u]) \in {"ok", "404"})
           => result = Ideal

(***************************************************************************)
(* What is on disk after any number of calls that broke off, were resumed  *)
(* or started over is the beginning of one version of the file, unless it  *)
(* was resumed from a version that is no longer there or an error page     *)
(* replaced it, and the whole file if the last call returned Ok.           *)
(***************************************************************************)
OnDiskIsPrefix ==
    ~mixed =>
        /\ \E v \in 1..version : IsPrefix(dest, Chunks(v))
        /\ (pc = "idle" /\ kind \in Downloads /\ result = "ok") => Len(dest) = Length

=============================================================================

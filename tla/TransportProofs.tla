-------------------------- MODULE TransportProofs ---------------------------
(***************************************************************************)
(* What a download leaves on the disk is the beginning of one version of   *)
(* the file, and a fetch goes from URL to URL only as its kind allows and  *)
(* returns what it would without the faults it got over: for a file of any *)
(* length, any number of retries and any sequence of calls and             *)
(* publications.  And what the keyring that signed files are checked with  *)
(* keeps, and that its verdicts do not depend on the order of its keys.    *)
(***************************************************************************)
EXTENDS Transport, Keyring, SequenceTheorems, WellFoundedInduction, TLAPS

Piece == (Nat \X Nat) \cup {Page}

TransportTypes ==
    /\ version \in Nat \ {0}
    /\ dest \in Seq(Piece) /\ body \in Seq(Piece)
    /\ mixed \in BOOLEAN

\* The chunks on disk are the first of one version, and what is still to come
\* is the rest of it.
Holds(v) == Len(dest) <= Length /\ \A i \in 1 .. Len(dest) : dest[i] = Chunk(v, i)
Continues(v) ==
    /\ Len(body) = Length - Len(dest)
    /\ \A i \in 1 .. Len(body) : body[i] = Chunk(v, Len(dest) + i)
OneVersion ==
    ~mixed => \E v \in 1 .. version : Holds(v) /\ (pc = "body" => Continues(v))

\* A download that says that it is done is.
DoneIsWhole ==
    (~mixed /\ pc = "idle" /\ kind \in Downloads /\ result = "ok") => Len(dest) = Length

DiskInv == TransportTypes /\ OneVersion /\ DoneIsWhole

-----------------------------------------------------------------------------
LEMMA ChunksOf ==
    ASSUME NEW v \in Nat
    PROVE  /\ Chunks(v) \in Seq(Piece)
           /\ Len(Chunks(v)) = Length
           /\ \A i \in 1 .. Length : Chunks(v)[i] = Chunk(v, i)
  BY TransportAssumption DEF Chunks, Chunk, Piece

LEMMA DiskInit == Init => DiskInv
<1> SUFFICES ASSUME Init PROVE DiskInv
  OBVIOUS
<1>1. TransportTypes
  <2>1. version \in Nat \ {0}
    BY DEF Init
  <2>3. mixed \in BOOLEAN
    BY Zenon DEF Init
  <2>2. dest \in Seq(Piece) /\ body \in Seq(Piece)
    BY EmptySeq DEF Init
  <2> QED
    BY <2>1, <2>2, <2>3 DEF TransportTypes
<1>2. Holds(1)
  BY TransportAssumption DEF Init, Holds
<1>3. OneVersion
  BY <1>2 DEF Init, OneVersion
<1> QED
  BY <1>1, <1>3 DEF Init, DiskInv, DoneIsWhole

\* A step that leaves the file and what is still to come alone, and does not
\* end a download well.
LEMMA DiskAside ==
    ASSUME DiskInv, UNCHANGED <<dest, body, mixed>>,
           version' = version \/ version' = version + 1,
           pc' = "body" => pc = "body",
           \/ UNCHANGED <<pc, kind, result>>
           \/ kind' \notin Downloads \/ result' # "ok" \/ pc' # "idle"
    PROVE  DiskInv'
<1>1. TransportTypes'
  BY DEF DiskInv, TransportTypes
<1>2. OneVersion'
  BY DEF DiskInv, TransportTypes, OneVersion, Holds, Continues
<1>3. DoneIsWhole'
  BY DEF DiskInv, DoneIsWhole
<1> QED
  BY <1>1, <1>2, <1>3 DEF DiskInv

\* A whole download starts over.
LEMMA DiskOverwritten ==
    ASSUME DiskInv, UNCHANGED version,
           Overwrite(Chunks(version), FALSE) \/ Overwrite(<<Page>>, TRUE)
    PROVE  DiskInv'
<1>1. CASE Overwrite(<<Page>>, TRUE)
  BY <1>1 DEF DiskInv, TransportTypes, Overwrite, OneVersion, DoneIsWhole, Piece
<1>2. CASE Overwrite(Chunks(version), FALSE)
  <2>1. version \in Nat \ {0} /\ dest' = <<>> /\ body' = Chunks(version) /\ pc' = "body"
        /\ mixed' = FALSE /\ version' = version
    BY <1>2 DEF DiskInv, TransportTypes, Overwrite
  <2>2. body' \in Seq(Piece) /\ Len(body') = Length
        /\ \A i \in 1 .. Length : body'[i] = Chunk(version, i)
    BY <2>1, ChunksOf
  <2>3. TransportTypes'
    <3>1. dest' \in Seq(Piece) /\ body' \in Seq(Piece) /\ version' \in Nat \ {0}
      BY <2>1, <2>2, EmptySeq
    <3>2. mixed' \in BOOLEAN
      BY <2>1
    <3> QED
      BY <3>1, <3>2 DEF TransportTypes
  <2>4. Holds(version)' /\ Continues(version)'
    BY <2>1, <2>2, TransportAssumption DEF Holds, Continues
  <2>5. version \in 1 .. version'
    BY <2>1
  <2> QED
    BY <2>1, <2>3, <2>4, <2>5 DEF DiskInv, OneVersion, DoneIsWhole, Holds, Continues
<1> QED
  BY <1>1, <1>2

\* It goes on with the version the server has now; if that is the one that was
\* begun, what comes is the rest of it.
LEMMA DiskResumed ==
    ASSUME DiskInv, UNCHANGED <<version, dest>>, dest # <<>>, Len(dest) < Length,
           body' = SubSeq(Chunks(version), Len(dest) + 1, Length),
           mixed' = (mixed \/ Head(dest)[1] # version), pc' = "body"
    PROVE  DiskInv'
<1>1. version \in Nat \ {0} /\ dest \in Seq(Piece) /\ Len(dest) \in Nat \ {0} /\ Length \in Nat \ {0}
  BY TransportAssumption, EmptySeq DEF DiskInv, TransportTypes
<1>2. /\ body' \in Seq(Piece)
      /\ Len(body') = Length - Len(dest)
      /\ \A i \in 1 .. Length - Len(dest) : body'[i] = Chunk(version, Len(dest) + i)
  <2> DEFINE all == Chunks(version)
  <2>1. /\ all \in Seq(Piece) /\ Len(all) = Length
        /\ \A i \in 1 .. Length : all[i] = Chunk(version, i)
    BY <1>1, ChunksOf
  <2> HIDE DEF all
  <2>2. \A i \in Len(dest) + 1 .. Length : all[i] \in Piece
    BY <1>1, <2>1, ElementOfSeq
  <2>3. LET s == SubSeq(all, Len(dest) + 1, Length)
        IN /\ s \in Seq(Piece) /\ Len(s) = Length - Len(dest)
           /\ \A i \in 1 .. Length - Len(dest) : s[i] = all[Len(dest) + i]
    BY <1>1, <2>2, SubSeqProperties
  <2> QED
    BY <1>1, <2>1, <2>3 DEF all
<1>3. TransportTypes'
  BY <1>1, <1>2 DEF DiskInv, TransportTypes
<1>4. ASSUME ~mixed' PROVE \E v \in 1 .. version' : Holds(v)' /\ Continues(v)'
  <2>1. PICK v \in 1 .. version : Holds(v)
    BY <1>4 DEF DiskInv, OneVersion, TransportTypes
  <2>2. Head(dest) = Chunk(v, 1)
    BY <1>1, <2>1 DEF Holds
  <2>3. v = version
    <3>1. Head(dest)[1] = version
      BY <1>4
    <3>2. Chunk(v, 1)[1] = v
      BY DEF Chunk
    <3> QED
      BY <2>2, <3>1, <3>2
  <2>4. Holds(v)' /\ Continues(v)'
    BY <1>1, <1>2, <2>1, <2>3 DEF Holds, Continues
  <2> QED
    BY <2>1, <2>4
<1> QED
  BY <1>3, <1>4 DEF DiskInv, OneVersion, DoneIsWhole

LEMMA DiskReceives ==
    ASSUME DiskInv, Receive PROVE DiskInv'
<1>1. CASE body # <<>> /\ dest' = Append(dest, Head(body)) /\ body' = Tail(body) /\ UNCHANGED <<pc, result>>
  <2>1. /\ pc = "body" /\ UNCHANGED <<version, mixed, pc>>
        /\ dest \in Seq(Piece) /\ body \in Seq(Piece)
    BY <1>1 DEF Receive, DiskInv, TransportTypes, server
  <2>2. /\ Head(body) = body[1] /\ Head(body) \in Piece /\ Tail(body) \in Seq(Piece)
        /\ Len(body) \in Nat \ {0} /\ Len(Tail(body)) = Len(body) - 1
        /\ \A i \in 1 .. Len(Tail(body)) : Tail(body)[i] = body[i + 1]
    BY <1>1, <2>1, HeadTailProperties, EmptySeq
  <2>3. /\ dest' \in Seq(Piece) /\ Len(dest') = Len(dest) + 1 /\ dest'[Len(dest) + 1] = body[1]
        /\ \A i \in 1 .. Len(dest) : dest'[i] = dest[i]
    BY <1>1, <2>1, <2>2
  <2>4. TransportTypes'
    BY <1>1, <2>1, <2>2, <2>3 DEF DiskInv, TransportTypes
  <2>5. ASSUME ~mixed PROVE \E v \in 1 .. version : Holds(v)' /\ Continues(v)'
    <3>1. PICK v \in 1 .. version : Holds(v) /\ Continues(v)
      BY <2>1, <2>5 DEF DiskInv, OneVersion
    <3>2. Len(dest) \in Nat /\ Length \in Nat
      BY <2>1, TransportAssumption
    <3>3. Holds(v)'
      BY <2>2, <2>3, <3>1, <3>2 DEF Holds, Continues
    <3>4. Continues(v)'
      <4>0. Len(body) = Length - Len(dest)
        BY <3>1 DEF Continues
      <4>1. Len(body') = Length - Len(dest')
        BY <1>1, <2>2, <2>3, <3>2, <4>0
      <4>2. ASSUME NEW i \in 1 .. Len(body') PROVE body'[i] = Chunk(v, Len(dest') + i)
        <5>1. body'[i] = body[i + 1] /\ i + 1 \in 1 .. Len(body)
          BY <1>1, <2>2, <4>2
        <5>2. body[i + 1] = Chunk(v, Len(dest) + (i + 1))
          BY <3>1, <5>1 DEF Continues
        <5>3. Len(dest) + (i + 1) = Len(dest') + i
          BY <2>3, <3>2
        <5> QED
          BY <5>1, <5>2, <5>3
      <4> QED
        BY <4>1, <4>2 DEF Continues
    <3> QED
      BY <3>3, <3>4
  <2> QED
    BY <2>1, <2>4, <2>5 DEF DiskInv, OneVersion, DoneIsWhole
<1>2. CASE body = <<>> /\ Return("ok") /\ UNCHANGED <<dest, body>>
  <2>1. pc = "body" /\ pc' = "idle" /\ UNCHANGED <<version, mixed, dest, body>>
    BY <1>2 DEF Receive, Return, server
  <2>2. TransportTypes'
    BY <2>1 DEF DiskInv, TransportTypes
  <2>3. OneVersion'
    BY <2>1 DEF DiskInv, OneVersion, Holds
  <2>4. ~mixed => Len(dest) = Length
    BY <1>2, <2>1, TransportAssumption DEF DiskInv, TransportTypes, OneVersion, Continues
  <2> QED
    BY <2>1, <2>2, <2>3, <2>4 DEF DiskInv, DoneIsWhole
<1>3. CASE Return("network") /\ UNCHANGED <<dest, body>>
  BY <1>3, DiskAside DEF Receive, Return, server
<1> QED
  BY <1>1, <1>2, <1>3 DEF Receive

LEMMA DiskStep ==
    ASSUME DiskInv, [Next]_vars PROVE DiskInv'
<1>1. CASE Publish
  BY <1>1, DiskAside DEF Publish, call
<1>2. CASE Attempt
  <2>1. UNCHANGED <<dest, body, mixed, version, kind>> /\ kind \notin Downloads /\ pc # "body"
    BY <1>2 DEF Attempt, server, Fetches, Downloads
  <2>2. pc' # "body"
    BY <1>2, <2>1 DEF Attempt, Succeed, GiveUp, Return
  <2> QED
    BY <2>1, <2>2, DiskAside
<1>3. CASE Request
  <2>1. UNCHANGED <<dest, body, mixed, version, kind>> /\ kind \notin Downloads /\ pc' = "idle"
    BY <1>3 DEF Request, Return, server, Requests, Downloads
  <2> QED
    BY <2>1, DiskAside
<1>4. CASE Respond
  <2>1. UNCHANGED version
    BY <1>4 DEF Respond, server
  <2>2. CASE Download
    BY <1>4, <2>1, <2>2, DiskOverwritten, DiskAside DEF Respond, Download, Return, server
  <2>3. CASE Resume
    BY <1>4, <2>1, <2>3, DiskOverwritten, DiskResumed, DiskAside DEF Respond, Resume, Return, server
  <2> QED
    BY <1>4, <2>2, <2>3 DEF Respond
<1>5. CASE Receive
  BY <1>5, DiskReceives
<1>6. ASSUME NEW k \in Fetches \cup Requests \cup Downloads, Begin(k) PROVE DiskInv'
  <2>1. /\ TransportTypes' /\ UNCHANGED <<dest, mixed, version>>
        /\ pc' = "asking"
    BY <1>6 DEF Begin, server, DiskInv, TransportTypes
  <2> QED
    BY <2>1 DEF DiskInv, OneVersion, Holds, DoneIsWhole
<1>7. CASE UNCHANGED vars
  BY <1>7, DiskAside DEF vars, server, call
<1> QED
  BY <1>1, <1>2, <1>3, <1>4, <1>5, <1>6, <1>7 DEF Next, CallStep

\* The file on disk is a prefix of one version (download_file and
\* download_file_resumable), for any calls, retries and publications.
THEOREM DownloadsArePrefixes == Spec => []OnDiskIsPrefix
<1>1. DiskInv => OnDiskIsPrefix
  <2> SUFFICES ASSUME DiskInv, ~mixed
               PROVE  /\ \E v \in 1 .. version : IsPrefix(dest, Chunks(v))
                      /\ (pc = "idle" /\ kind \in Downloads /\ result = "ok") => Len(dest) = Length
    BY DEF OnDiskIsPrefix
  <2>1. PICK v \in 1 .. version : Holds(v)
    BY DEF DiskInv, OneVersion
  <2>2. v \in Nat /\ dest \in Seq(Piece) /\ Length \in Nat
    BY TransportAssumption DEF DiskInv, TransportTypes
  <2> DEFINE all == Chunks(v)
  <2>3. all \in Seq(Piece) /\ Len(all) = Length /\ \A i \in 1 .. Length : all[i] = Chunk(v, i)
    BY <2>2, ChunksOf
  <2> HIDE DEF all
  <2>4. SubSeq(dest, 1, Len(dest)) = dest
    BY <2>2, SubSeqFull
  <2>5. /\ SubSeq(all, 1, Len(dest)) \in Seq(Piece)
        /\ Len(SubSeq(all, 1, Len(dest))) = Len(dest)
        /\ \A i \in 1 .. Len(dest) : SubSeq(all, 1, Len(dest))[i] = all[i]
    <3>1. \A i \in 1 .. Len(dest) : all[i] \in Piece
      BY <2>1, <2>2, <2>3, ElementOfSeq DEF Holds
    <3> QED
      BY <2>2, <3>1, SubSeqProperties
  <2>6. SubSeq(all, 1, Len(dest)) = dest
    <3>1. \A i \in 1 .. Len(dest) : dest[i] = SubSeq(all, 1, Len(dest))[i]
      BY <2>1, <2>2, <2>3, <2>5 DEF Holds
    <3> QED
      BY <2>2, <2>5, <3>1, SeqEqual
  <2>7. IsPrefix(dest, all)
    BY <2>1, <2>2, <2>3, <2>4, <2>6 DEF Holds, IsPrefix
  <2> QED
    BY <2>1, <2>7 DEF DiskInv, DoneIsWhole, all
<1> QED
  BY <1>1, DiskInit, DiskStep, PTL DEF Spec

-----------------------------------------------------------------------------
(* A fetch: the answers to each of its URLs, and what it makes of them. *)

Answer == {"network", "http", "404", "ok"}

FetchTypes ==
    /\ world \in [Url -> Offers]
    /\ log \in [Url -> Seq(Answer)]
    /\ kind \in Fetches \cup Requests \cup Downloads
    /\ pc \in {"idle", "asking", "body"}
    /\ pc = "body" => kind \in Downloads
    /\ changes \in Nat

\* While nothing was published the answers tell what the URLs offer.
AnswersTell ==
    changes = 0 =>
        \A u \in Url : \A i \in DOMAIN log[u] :
            /\ log[u][i] = "404" => world[u] = "absent"
            /\ log[u][i] = "ok" => world[u] # "absent"

\* Every URL before the one it is at was left after all its attempts, and by
\* the kinds that look for a file only because it is not there.
WasLeft(u) == Failed(u) /\ (kind # "mirrors" => Last(log[u]) = "404")
FetchIsAt ==
    kind \in Fetches /\ (pc = "asking" \/ result # "none") =>
        /\ at \in 1 .. Urls(kind)
        /\ \A u \in 1 .. at - 1 : WasLeft(u)

FetchGoesOn ==
    pc = "asking" /\ kind \in Fetches =>
        /\ result = "none"
        /\ tries = Len(log[at]) /\ tries <= MaxRetries
        /\ "ok" \notin ToSet(log[at])
        /\ \A u \in Url : u > at => log[u] = <<>>

\* The two ways in which it ends.
EndsWell == /\ log[at] # <<>> /\ Last(log[at]) = "ok"
            /\ result \in {"ok", "decompress"}
            /\ changes = 0 => result = IF kind = "index" /\ IsCompressed(at) /\ world[at] = "corrupt"
                                       THEN "decompress" ELSE "ok"
EndsBadly == /\ Failed(at)
             /\ result = Exhausted(kind, Last(log[at]))
             /\ MovesOn(kind, Last(log[at])) => at = Urls(kind)
FetchEnds == Answered => EndsWell \/ EndsBadly

FetchInv == FetchTypes /\ AnswersTell /\ FetchIsAt /\ FetchGoesOn /\ FetchEnds

LEMMA UrlFacts ==
    /\ \A k : Urls(k) \in {1, 2, 3}
    /\ \A k : Urls(k) \in Url
    /\ Fetches \cap (Requests \cup Downloads) = {}
BY DEF Urls, Url, Fetches, Requests, Downloads

LEMMA OneMoreAnswer ==
    ASSUME NEW s \in Seq(Answer), NEW a \in Answer
    PROVE  /\ Append(s, a) \in Seq(Answer) /\ Append(s, a) # <<>>
           /\ Len(Append(s, a)) = Len(s) + 1 /\ Last(Append(s, a)) = a
           /\ \A i \in DOMAIN Append(s, a) :
                Append(s, a)[i] = a \/ (i \in DOMAIN s /\ Append(s, a)[i] = s[i])
           /\ "ok" \notin ToSet(s) /\ a # "ok" => "ok" \notin ToSet(Append(s, a))
<1> DEFINE t == Append(s, a)
<1>1. /\ t \in Seq(Answer) /\ Len(t) = Len(s) + 1 /\ t[Len(s) + 1] = a
      /\ \A i \in 1 .. Len(s) : t[i] = s[i]
  BY AppendProperties
<1> HIDE DEF t
<1>2. t # <<>> /\ Last(t) = a
  BY <1>1 DEF Last
<1>3. \A i \in DOMAIN t : t[i] = a \/ (i \in DOMAIN s /\ t[i] = s[i])
  BY <1>1
<1>4. "ok" \notin ToSet(s) /\ a # "ok" => "ok" \notin ToSet(t)
  BY <1>3 DEF ToSet
<1> QED BY <1>1, <1>2, <1>3, <1>4 DEF t

LEMMA FetchInit == Init => FetchInv
<1> SUFFICES ASSUME Init PROVE FetchInv
  OBVIOUS
<1>1. \A u \in Url : log[u] = <<>>
  BY DEF Init
<1>2. log \in [Url -> Seq(Answer)]
  BY EmptySeq DEF Init
<1>3. FetchTypes
  BY <1>2 DEF Init, FetchTypes, Fetches
<1>4. AnswersTell
  BY <1>1 DEF AnswersTell
<1> QED
  BY <1>3, <1>4 DEF Init, FetchInv, FetchIsAt, FetchGoesOn, FetchEnds, Answered

\* What is published is none of the fetch's doing.
LEMMA FetchPublish == ASSUME FetchInv, Publish PROVE FetchInv'
<1>1. /\ UNCHANGED <<pc, kind, at, tries, result, log>>
      /\ changes \in Nat /\ changes' = changes + 1 /\ world' \in [Url -> Offers]
  BY DEF FetchInv, FetchTypes, Publish, call
<1>2. FetchTypes'
  BY <1>1 DEF FetchInv, FetchTypes
<1>3. changes' # 0
  BY <1>1
<1>4. AnswersTell'
  BY <1>3 DEF AnswersTell
<1>5. FetchIsAt' /\ FetchGoesOn'
  BY <1>1 DEF FetchInv, FetchIsAt, WasLeft, Failed, FetchGoesOn
<1>6. FetchEnds'
  BY <1>1, <1>3 DEF FetchInv, FetchEnds, Answered, EndsWell, EndsBadly, Failed
<1> QED BY <1>2, <1>4, <1>5, <1>6 DEF FetchInv

LEMMA FetchBegin ==
    ASSUME FetchInv, NEW k \in Fetches \cup Requests \cup Downloads, Begin(k)
    PROVE  FetchInv'
<1>1. /\ UNCHANGED <<world, changes>> /\ pc' = "asking" /\ kind' = k /\ at' = 1
      /\ tries' = 0 /\ result' = "none" /\ log' = [u \in Url |-> <<>>]
  BY DEF Begin, server
<1>2. log' \in [Url -> Seq(Answer)] /\ \A u \in Url : log'[u] = <<>>
  BY <1>1, EmptySeq
<1>3. FetchTypes'
  BY <1>1, <1>2 DEF FetchInv, FetchTypes
<1>4. AnswersTell'
  BY <1>2 DEF AnswersTell
<1>5. 1 \in 1 .. Urls(k)
  BY UrlFacts
<1>6. FetchIsAt'
  BY <1>1, <1>5 DEF FetchIsAt
<1>7. FetchGoesOn'
  <2>1. log'[1] = <<>> /\ Len(log'[1]) = 0
    BY <1>2 DEF Url
  <2>2. "ok" \notin ToSet(log'[1])
    BY <2>1 DEF ToSet
  <2> QED BY <1>1, <1>2, <2>1, <2>2, TransportAssumption DEF FetchGoesOn
<1>8. FetchEnds'
  BY <1>1 DEF FetchEnds, Answered
<1> QED BY <1>3, <1>4, <1>6, <1>7, <1>8 DEF FetchInv

\* Requests and downloads do not fetch.
LEMMA FetchAside ==
    ASSUME FetchInv, UNCHANGED <<world, kind, log, changes>>,
           kind \in Requests \cup Downloads,
           pc' \in {"idle", "asking", "body"}, pc' = "body" => kind \in Downloads
    PROVE  FetchInv'
<1>1. kind' \notin Fetches
  BY UrlFacts
<1>2. FetchTypes' /\ AnswersTell'
  BY DEF FetchInv, FetchTypes, AnswersTell
<1> QED
  BY <1>1, <1>2 DEF FetchInv, FetchIsAt, FetchGoesOn, FetchEnds, Answered

LEMMA FetchAttempt == ASSUME FetchInv, Attempt PROVE FetchInv'
<1>1. /\ pc = "asking" /\ kind \in Fetches
      /\ UNCHANGED <<world, kind, changes>>
  BY DEF Attempt, server
<1>2. PICK a \in Answers(at) :
        /\ log' = [log EXCEPT ![at] = Append(@, a)]
        /\ IF a = "ok" THEN Succeed /\ UNCHANGED <<at, tries>>
           ELSE IF tries + 1 < Attempts(kind)
           THEN tries' = tries + 1 /\ UNCHANGED <<pc, at, result>>
           ELSE GiveUp(a)
  BY DEF Attempt
<1>3. /\ at \in 1 .. Urls(kind) /\ Urls(kind) \in {1, 2, 3} /\ at \in Url
      /\ \A u \in 1 .. at - 1 : WasLeft(u) /\ u \in Url
      /\ result = "none" /\ tries = Len(log[at]) /\ tries <= MaxRetries
      /\ "ok" \notin ToSet(log[at]) /\ \A u \in Url : u > at => log[u] = <<>>
  BY <1>1, UrlFacts DEF FetchInv, FetchIsAt, FetchGoesOn, Url
<1>4. /\ a \in Answer /\ (a = "404" => world[at] = "absent")
      /\ (a = "ok" => world[at] # "absent")
  BY <1>2 DEF Answers, Answer
<1>5. log \in [Url -> Seq(Answer)] /\ log[at] \in Seq(Answer)
  BY <1>3 DEF FetchInv, FetchTypes
<1>6. log'[at] = Append(log[at], a) /\ \A u \in Url : u # at => log'[u] = log[u]
  BY <1>2, <1>3, <1>5
<1>7. /\ log'[at] \in Seq(Answer) /\ log'[at] # <<>>
      /\ Len(log'[at]) = tries + 1 /\ Last(log'[at]) = a
      /\ \A i \in DOMAIN log'[at] :
           log'[at][i] = a \/ (i \in DOMAIN log[at] /\ log'[at][i] = log[at][i])
      /\ a # "ok" => "ok" \notin ToSet(log'[at])
  BY <1>3, <1>4, <1>5, <1>6, OneMoreAnswer
<1>8. tries \in Nat /\ MaxRetries \in Nat
  BY <1>3, <1>5, TransportAssumption
<1>9. pc' \in {"idle", "asking"}
  BY <1>1, <1>2 DEF Succeed, GiveUp, Return
<1>10. FetchTypes'
  <2>1. log' \in [Url -> Seq(Answer)]
    BY <1>2, <1>5, <1>6, <1>7
  <2> QED BY <1>1, <1>9, <2>1 DEF FetchInv, FetchTypes
<1>11. AnswersTell'
  BY <1>1, <1>4, <1>6, <1>7 DEF FetchInv, AnswersTell
<1>12. \A u \in 1 .. at - 1 : WasLeft(u)'
  BY <1>1, <1>3, <1>6 DEF WasLeft, Failed
<1>13. CASE a = "ok"
  <2>1. /\ pc' = "idle" /\ at' = at
        /\ result' = IF kind = "index" /\ IsCompressed(at) /\ world[at] = "corrupt" THEN "decompress" ELSE "ok"
    BY <1>2, <1>13 DEF Succeed, Return
  <2>2. EndsWell'
    BY <1>1, <1>7, <1>13, <2>1 DEF EndsWell
  <2>3. FetchIsAt'
    BY <1>1, <1>3, <1>12, <2>1 DEF FetchIsAt
  <2> QED BY <1>10, <1>11, <2>1, <2>2, <2>3 DEF FetchInv, FetchGoesOn, FetchEnds
<1>14. CASE a # "ok" /\ tries + 1 < Attempts(kind)
  <2>1. tries' = tries + 1 /\ UNCHANGED <<pc, at, result>> /\ tries + 1 < MaxRetries + 1
    BY <1>2, <1>14 DEF Attempts
  <2>2. FetchIsAt'
    BY <1>1, <1>3, <1>12, <2>1 DEF FetchIsAt
  <2>3. FetchGoesOn'
    <3>1. /\ at' = at /\ result' = "none" /\ kind' = kind
          /\ tries' = tries + 1 /\ tries' <= MaxRetries
      BY <1>1, <1>3, <1>8, <2>1
    <3>2. Len(log'[at']) = tries' /\ "ok" \notin ToSet(log'[at'])
      BY <1>7, <1>14, <3>1
    <3>3. \A u \in Url : u > at' => log'[u] = <<>>
      BY <1>3, <1>6, <3>1 DEF Url
    <3> QED BY <3>1, <3>2, <3>3 DEF FetchGoesOn
  <2>4. FetchEnds'
    BY <1>1, <2>1 DEF FetchEnds, Answered
  <2> QED BY <1>10, <1>11, <2>2, <2>3, <2>4 DEF FetchInv
<1>15. CASE a # "ok" /\ ~(tries + 1 < Attempts(kind))
  <2>1. GiveUp(a) /\ tries + 1 = MaxRetries + 1
    BY <1>2, <1>3, <1>8, <1>15 DEF Attempts
  <2>2. /\ Len(log'[at]) = MaxRetries + 1 /\ "ok" \notin ToSet(log'[at])
    BY <1>7, <1>15, <2>1
  <2>3. CASE MovesOn(kind, a) /\ at < Urls(kind)
    <3>1. at' = at + 1 /\ tries' = 0 /\ UNCHANGED <<pc, result>> /\ at + 1 \in Url
          /\ at + 1 \in 1 .. Urls(kind)
      BY <1>3, <2>1, <2>3 DEF GiveUp, Url
    <3>2. ASSUME NEW u \in 1 .. at PROVE WasLeft(u)'
      <4>1. CASE u = at
        <5>1. kind' # "mirrors" => Last(log'[u]) = "404"
          BY <1>1, <1>7, <2>3, <4>1 DEF MovesOn
        <5> QED BY <2>2, <4>1, <5>1 DEF WasLeft, Failed
      <4>2. CASE u # at
        BY <1>3, <1>12, <4>2
      <4> QED BY <4>1, <4>2
    <3>3. FetchIsAt'
      <4>1. at' - 1 = at
        BY <1>3, <3>1
      <4> QED BY <1>1, <3>1, <3>2, <4>1 DEF FetchIsAt
    <3>4. FetchGoesOn'
      <4>1. log'[at + 1] = <<>> /\ \A u \in Url : u > at + 1 => log'[u] = <<>>
        BY <1>3, <1>6, <3>1 DEF Url
      <4>2. "ok" \notin ToSet(log'[at + 1]) /\ Len(log'[at + 1]) = 0
        BY <4>1 DEF ToSet
      <4> QED BY <1>3, <1>8, <3>1, <4>1, <4>2 DEF FetchGoesOn
    <3>5. FetchEnds'
      BY <1>1, <3>1 DEF FetchEnds, Answered
    <3> QED BY <1>10, <1>11, <3>3, <3>4, <3>5 DEF FetchInv
  <2>4. CASE ~(MovesOn(kind, a) /\ at < Urls(kind))
    <3>1. pc' = "idle" /\ result' = Exhausted(kind, a) /\ at' = at
      BY <2>1, <2>4 DEF GiveUp, Return
    <3>2. MovesOn(kind, a) => at = Urls(kind)
      BY <1>3, <2>4
    <3>3. EndsBadly'
      BY <1>1, <1>7, <2>2, <3>1, <3>2 DEF EndsBadly, Failed, Exhausted, MovesOn
    <3>4. FetchIsAt'
      BY <1>1, <1>3, <1>12, <3>1 DEF FetchIsAt
    <3> QED BY <1>10, <1>11, <3>1, <3>3, <3>4 DEF FetchInv, FetchGoesOn, FetchEnds
  <2> QED BY <2>3, <2>4
<1> QED BY <1>13, <1>14, <1>15

LEMMA FetchNext == ASSUME FetchInv, [Next]_vars PROVE FetchInv'
<1>1. CASE UNCHANGED vars
  BY <1>1 DEF vars, server, call, FetchInv, FetchTypes, AnswersTell, FetchIsAt, WasLeft,
              Failed, FetchGoesOn, FetchEnds, Answered, EndsWell, EndsBadly
<1>2. CASE Request
  BY <1>2, FetchAside DEF Request, Return, server
<1>3. CASE Respond
  <2>1. kind \in Downloads /\ pc' \in {"idle", "body"}
        /\ UNCHANGED <<world, kind, log, changes>>
    BY <1>3 DEF Respond, Download, Resume, Overwrite, Return, Downloads, server
  <2> QED BY <2>1, FetchAside
<1>4. CASE Receive
  <2>1. kind \in Downloads /\ pc' \in {"idle", "body"}
        /\ UNCHANGED <<world, kind, log, changes>>
    BY <1>4 DEF Receive, Return, server, FetchInv, FetchTypes
  <2> QED BY <2>1, FetchAside
<1> QED
  BY <1>1, <1>2, <1>3, <1>4, FetchPublish, FetchBegin, FetchAttempt DEF Next, CallStep

\* Nothing before the URL it ends at is there, if the last attempt at none
\* failed for another reason.
LEMMA EndIsIdeal ==
    ASSUME FetchInv, Answered, changes = 0,
           \A u \in Url : log[u] # <<>> => Last(log[u]) \in {"ok", "404"}
    PROVE  result = Ideal
<1>1. /\ kind \in Fetches /\ at \in 1 .. Urls(kind) /\ Urls(kind) \in {1, 2, 3}
      /\ at \in Url /\ \A u \in 1 .. at - 1 : WasLeft(u)
      /\ log \in [Url -> Seq(Answer)] /\ MaxRetries \in Nat
  BY UrlFacts, TransportAssumption
     DEF FetchInv, FetchTypes, FetchIsAt, Answered, Url
<1>2. ASSUME NEW u \in Url, Failed(u)
      PROVE  Last(log[u]) = "404" /\ ~Present(u)
  <2>1. log[u] \in Seq(Answer) /\ Len(log[u]) \in Nat \ {0} /\ log[u] # <<>>
    BY <1>1, <1>2 DEF Failed
  <2>2. Last(log[u]) \in ToSet(log[u]) /\ Last(log[u]) = log[u][Len(log[u])]
        /\ Len(log[u]) \in DOMAIN log[u]
    BY <2>1 DEF Last, ToSet
  <2>3. Last(log[u]) = "404"
    BY <1>2, <2>1, <2>2 DEF Failed
  <2> QED BY <2>2, <2>3 DEF FetchInv, AnswersTell, Present
<1>3. \A u \in 1 .. at - 1 : ~Present(u)
  <2>1. \A u \in 1 .. at - 1 : u \in Url /\ Failed(u)
    BY <1>1 DEF WasLeft, Url
  <2> QED BY <1>2, <2>1
<1>4. CASE EndsWell
  <2>1. log[at] \in Seq(Answer) /\ Len(log[at]) \in DOMAIN log[at]
        /\ log[at][Len(log[at])] = "ok"
    BY <1>1, <1>4, EmptySeq DEF EndsWell, Last
  <2>2. Present(at)
    BY <1>1, <2>1 DEF FetchInv, AnswersTell, Present
  <2>3. \A v \in 1 .. Urls(kind) :
           (Present(v) /\ \A w \in 1 .. Urls(kind) : Present(w) => v <= w) <=> v = at
    BY <1>1, <1>3, <2>2
  <2>4. (CHOOSE v \in 1 .. Urls(kind) :
           Present(v) /\ \A w \in 1 .. Urls(kind) : Present(w) => v <= w) = at
    BY <1>1, <2>3
  <2> QED BY <1>1, <1>4, <2>2, <2>4 DEF Ideal, EndsWell
<1>5. CASE EndsBadly
  <2>1. Last(log[at]) = "404" /\ ~Present(at)
    BY <1>1, <1>2, <1>5 DEF EndsBadly
  <2>2. at = Urls(kind)
    <3>1. kind \in {"index", "release", "mirrors"} => MovesOn(kind, "404")
      BY DEF MovesOn
    <3>2. kind = "bytes" => Urls(kind) = 1
      BY DEF Urls
    <3> QED BY <1>1, <1>5, <2>1, <3>1, <3>2 DEF EndsBadly, Fetches
  <2>3. \A v \in 1 .. Urls(kind) : ~Present(v)
    BY <1>1, <1>3, <2>1, <2>2
  <2> QED BY <1>5, <2>1, <2>3 DEF EndsBadly, Exhausted, Ideal
<1> QED BY <1>4, <1>5 DEF FetchInv, FetchEnds

LEMMA EndPasses == ASSUME FetchInv, Answered PROVE PassesOnlyMissing
<1>1. /\ kind \in Fetches /\ at \in 1 .. Urls(kind)
      /\ \A u \in 1 .. at - 1 : WasLeft(u)
  BY DEF FetchInv, FetchIsAt, Answered
<1>2. at \in Url
  BY <1>1, UrlFacts DEF Url
<1>3. /\ kind \in Fetches /\ at \in 1 .. Urls(kind) /\ at \in Url
      /\ \A u \in 1 .. at - 1 : WasLeft(u)
      /\ log[at] \in Seq(Answer)
  BY <1>1, <1>2 DEF FetchInv, FetchTypes
<1>4. CASE EndsWell
  BY <1>3, <1>4 DEF EndsWell, WasLeft, PassesOnlyMissing
<1>5. CASE EndsBadly
  <2>1. Last(log[at]) \in Answer
    <3>1. Len(log[at]) \in 1 .. Len(log[at])
      BY <1>3, <1>5, TransportAssumption DEF EndsBadly, Failed
    <3> QED BY <1>3, <3>1, ElementOfSeq DEF Last
  <2>2. result \in {"404", "allFailed"} => MovesOn(kind, Last(log[at])) \/ kind = "bytes"
    BY <1>3, <1>5, <2>1 DEF EndsBadly, Exhausted, MovesOn, Answer, Fetches
  <2>3. kind = "bytes" => at = Urls(kind)
    BY <1>3 DEF Urls
  <2> QED BY <1>3, <1>5, <2>2, <2>3 DEF EndsBadly, WasLeft, PassesOnlyMissing
<1> QED BY <1>4, <1>5 DEF FetchInv, FetchEnds

\* A fetch goes from URL to URL only as its kind allows, and attempts that fail
\* for a while do not show in what it returns.
THEOREM FetchesAreRight == Spec => []FetchIsRight
<1>1. FetchInv /\ [Next]_vars => FetchInv'
  BY FetchNext
<1>2. FetchInv => FetchIsRight
  BY EndPasses, EndIsIdeal DEF FetchIsRight
<1> QED BY <1>1, <1>2, FetchInit, PTL DEF Spec

-----------------------------------------------------------------------------
\* Induction over the turns of a loop, from the least element of what is left.
LEMMA Induction ==
    ASSUME NEW last \in Nat, NEW G, 0 \in G,
           \A k \in 0 .. last - 1 : k \in G => k + 1 \in G
    PROVE  0 .. last \subseteq G
<1> DEFINE Below == OpToRel(<, Nat)
           Bad   == (0 .. last) \ G
<1>1. IsWellFoundedOn(Below, Nat)
  BY NatLessThanWellFounded
<1>2. \A a, b \in Nat : a < b => <<a, b>> \in Below
  BY DEF OpToRel
<1>3. Bad # {} => \E m \in Bad : \A k \in Bad : ~(<<k, m>> \in Below)
  <2>1. Bad \subseteq Nat
    OBVIOUS
  <2> QED BY <1>1, <2>1, WFMin
<1> HIDE DEF Below
<1>4. ASSUME NEW m \in Bad, \A k \in Bad : ~(<<k, m>> \in Below) PROVE FALSE
  <2>1. m \in Nat /\ m # 0 /\ m - 1 \in 0 .. last - 1 /\ m - 1 \in Nat
    BY <1>4
  <2>2. <<m - 1, m>> \in Below
    BY <1>2, <2>1
  <2>3. m - 1 \in G
    BY <1>4, <2>1, <2>2
  <2> QED BY <1>4, <2>1, <2>3
<1> QED BY <1>3, <1>4


-----------------------------------------------------------------------------
(* Only: its turns, and what it takes of a sequence.                       *)

OnlyTo(f, seq, s, m) ==
    [n \in 0 .. m |-> IF n = 0 THEN <<>>
                      ELSE IF seq[n] \in s THEN Append(f[n - 1], seq[n]) ELSE f[n - 1]]
OnlyRun(seq, s, m) == CHOOSE f : f = OnlyTo(f, seq, s, m)

LEMMA OnlyRuns ==
    ASSUME NEW seq, NEW s, NEW m \in Nat
    PROVE  OnlyRun(seq, s, m) = OnlyTo(OnlyRun(seq, s, m), seq, s, m)
<1> DEFINE G == {k \in 0 .. m : \E f : f = OnlyTo(f, seq, s, k)}
<1>1. 0 \in G
  <2>1. [i \in 0 .. 0 |-> <<>>] = OnlyTo([i \in 0 .. 0 |-> <<>>], seq, s, 0)
    BY DEF OnlyTo
  <2> QED BY <2>1
<1>2. ASSUME NEW k \in 0 .. m - 1, k \in G PROVE k + 1 \in G
  <2>1. PICK f : f = OnlyTo(f, seq, s, k)
    BY <1>2
  <2> DEFINE g == [i \in 0 .. k + 1 |-> IF i = 0 THEN <<>>
                                        ELSE IF seq[i] \in s THEN Append(f[i - 1], seq[i]) ELSE f[i - 1]]
  <2>2. \A i \in 0 .. k : g[i] = f[i]
    <3>1. \A i \in 0 .. k : g[i] = OnlyTo(f, seq, s, k)[i]
      BY DEF OnlyTo
    <3> QED BY <2>1, <3>1, Zenon
  <2>3. \A i \in 0 .. k + 1 : i # 0 => i - 1 \in 0 .. k
    OBVIOUS
  <2>4. g = OnlyTo(g, seq, s, k + 1)
    BY <2>2, <2>3 DEF OnlyTo
  <2> QED BY <2>4
<1>3. m \in G
  <2>1. \A k \in 0 .. m - 1 : k \in G => k + 1 \in G
    BY <1>2
  <2> HIDE DEF G
  <2> QED BY <1>1, <2>1, Induction
<1> QED BY <1>3 DEF OnlyRun

\* The turns, as a function that the lemmas below go along.
IsTurns(f, seq, s, m) ==
    /\ f[0] = <<>>
    /\ \A n \in 0 .. m - 1 : f[n + 1] = IF seq[n + 1] \in s THEN Append(f[n], seq[n + 1]) ELSE f[n]

LEMMA OnlyTurns ==
    ASSUME NEW seq, NEW s, NEW m \in Nat, Len(seq) = m
    PROVE  \E f : IsTurns(f, seq, s, m) /\ Only(seq, s) = f[m]
<1>1. PICK f : f = OnlyRun(seq, s, m)
  OBVIOUS
<1>2. f = OnlyTo(f, seq, s, m)
  BY <1>1, OnlyRuns
<1>3. \A n \in 0 .. m : f[n] = IF n = 0 THEN <<>>
                               ELSE IF seq[n] \in s THEN Append(f[n - 1], seq[n]) ELSE f[n - 1]
  <2>1. \A n \in 0 .. m : OnlyTo(f, seq, s, m)[n]
            = IF n = 0 THEN <<>> ELSE IF seq[n] \in s THEN Append(f[n - 1], seq[n]) ELSE f[n - 1]
    BY DEF OnlyTo
  <2> QED BY <1>2, <2>1, Zenon
<1>4. f[0] = <<>>
  BY <1>3
<1>5. ASSUME NEW n \in 0 .. m - 1
      PROVE  f[n + 1] = IF seq[n + 1] \in s THEN Append(f[n], seq[n + 1]) ELSE f[n]
  <2>1. n + 1 \in 0 .. m /\ n + 1 # 0 /\ (n + 1) - 1 = n
    OBVIOUS
  <2>2. f[n + 1] = IF seq[n + 1] \in s THEN Append(f[(n + 1) - 1], seq[n + 1]) ELSE f[(n + 1) - 1]
    BY <1>3, <2>1
  <2> QED BY <2>1, <2>2
<1>6. Only(seq, s) = f[m]
  BY <1>1 DEF Only, OnlyRun, OnlyTo
<1> QED BY <1>4, <1>5, <1>6 DEF IsTurns

Met(seq, n) == {seq[i] : i \in 1 .. n}
IsPart(q, T, seq, s, n) == q \in Seq(T) /\ Elements(q) = Met(seq, n) \cap s

\* The turns are sequences of what was met and is wanted.
LEMMA TurnsAreSeqs ==
    ASSUME NEW T, NEW seq \in Seq(T), NEW s, NEW m, m = Len(seq), NEW f, IsTurns(f, seq, s, m),
           NEW n \in 0 .. m
    PROVE  IsPart(f[n], T, seq, s, n)
<1>1. m \in Nat /\ \A i \in 1 .. m : seq[i] \in T
  OBVIOUS
<1> DEFINE G == {k \in 0 .. m : f[k] \in Seq(T) /\ Elements(f[k]) = Met(seq, k) \cap s}
<1>2. 0 \in G
  <2>1. f[0] = <<>> /\ 0 \in 0 .. m
    BY <1>1 DEF IsTurns
  <2>2. <<>> \in Seq(T) /\ Elements(<<>>) = {}
    BY DEF Elements
  <2>3. Met(seq, 0) = {}
    BY DEF Met
  <2> QED BY <2>1, <2>2, <2>3
<1>3. ASSUME NEW k \in 0 .. m - 1, k \in G PROVE k + 1 \in G
  <2>1. PICK q, x : q = f[k] /\ x = seq[k + 1]
    OBVIOUS
  <2>2. f[k + 1] = IF x \in s THEN Append(q, x) ELSE q
    BY <2>1 DEF IsTurns
  <2>3. q \in Seq(T) /\ x \in T /\ Elements(q) = Met(seq, k) \cap s
    BY <1>1, <1>3, <2>1
  <2>4. Met(seq, k + 1) = Met(seq, k) \cup {x}
    <3>1. 1 .. k + 1 = (1 .. k) \cup {k + 1}
      BY <1>1
    <3> QED BY <2>1, <3>1 DEF Met
  <2>5. Elements(Append(q, x)) = Elements(q) \cup {x}
    <3>1. Len(q) \in Nat /\ DOMAIN q = 1 .. Len(q) /\ DOMAIN Append(q, x) = 1 .. Len(q) + 1
      BY <2>3
    <3>2. 1 .. Len(q) + 1 = (1 .. Len(q)) \cup {Len(q) + 1}
      BY <3>1
    <3>3. (\A i \in 1 .. Len(q) : Append(q, x)[i] = q[i]) /\ Append(q, x)[Len(q) + 1] = x
      BY <2>3
    <3> QED BY <3>1, <3>2, <3>3 DEF Elements
  <2>6. f[k + 1] \in Seq(T)
    BY <2>2, <2>3
  <2>7. Elements(f[k + 1]) = Met(seq, k + 1) \cap s
    BY <2>2, <2>3, <2>4, <2>5
  <2> QED BY <1>1, <2>6, <2>7
<1>4. 0 .. m \subseteq G
  <2>1. \A k \in 0 .. m - 1 : k \in G => k + 1 \in G
    BY <1>3
  <2> HIDE DEF G
  <2> QED BY <1>1, <1>2, <2>1, Induction
<1> QED BY <1>4 DEF IsPart

LEMMA OnlyType ==
    ASSUME NEW T, NEW seq \in Seq(T), NEW s
    PROVE  /\ Only(seq, s) \in Seq(T)
           /\ Elements(Only(seq, s)) = Elements(seq) \cap s
<1>1. PICK m : m = Len(seq) /\ m \in Nat /\ DOMAIN seq = 1 .. m
  OBVIOUS
<1>2. PICK f : IsTurns(f, seq, s, m) /\ Only(seq, s) = f[m]
  BY <1>1, OnlyTurns
<1>3. m \in 0 .. m
  BY <1>1
<1>4. IsPart(f[m], T, seq, s, m)
  BY <1>1, <1>2, <1>3, TurnsAreSeqs
<1>5. Elements(seq) = Met(seq, m)
  BY <1>1 DEF Elements, Met
<1> QED BY <1>2, <1>4, <1>5 DEF IsPart

\* Two runs over the same elements are the same.
LEMMA TurnsAgree ==
    ASSUME NEW T, NEW a \in Seq(T), NEW b \in Seq(T), NEW s, NEW t, NEW m \in Nat, m <= Len(a), m <= Len(b),
           NEW f, IsTurns(f, a, s, Len(a)), NEW g, IsTurns(g, b, t, Len(b)),
           \A i \in 1 .. m : a[i] = b[i] /\ (a[i] \in s <=> a[i] \in t)
    PROVE  \A n \in 0 .. m : f[n] = g[n]
<1> DEFINE G == {k \in 0 .. m : f[k] = g[k]}
<1>1. 0 \in G
  BY DEF IsTurns
<1>2. ASSUME NEW k \in 0 .. m - 1, k \in G PROVE k + 1 \in G
  <2>1. k \in 0 .. Len(a) - 1 /\ k \in 0 .. Len(b) - 1 /\ k + 1 \in 1 .. m
    OBVIOUS
  <2>2. /\ f[k + 1] = IF a[k + 1] \in s THEN Append(f[k], a[k + 1]) ELSE f[k]
        /\ g[k + 1] = IF b[k + 1] \in t THEN Append(g[k], b[k + 1]) ELSE g[k]
    BY <2>1 DEF IsTurns
  <2>3. f[k] = g[k] /\ a[k + 1] = b[k + 1] /\ (a[k + 1] \in s <=> a[k + 1] \in t)
    BY <1>2, <2>1
  <2> QED BY <2>1, <2>2, <2>3
<1>3. 0 .. m \subseteq G
  <2>1. \A k \in 0 .. m - 1 : k \in G => k + 1 \in G
    BY <1>2
  <2> HIDE DEF G
  <2> QED BY <1>1, <2>1, Induction
<1> QED BY <1>3

LEMMA OnlyAgrees ==
    ASSUME NEW T, NEW seq \in Seq(T), NEW s, NEW t, \A k \in Elements(seq) : k \in s <=> k \in t
    PROVE  Only(seq, s) = Only(seq, t)
<1>1. PICK m : m = Len(seq) /\ m \in Nat /\ DOMAIN seq = 1 .. m
  OBVIOUS
<1>2. PICK f : IsTurns(f, seq, s, m) /\ Only(seq, s) = f[m]
  BY <1>1, OnlyTurns
<1>3. PICK g : IsTurns(g, seq, t, m) /\ Only(seq, t) = g[m]
  BY <1>1, OnlyTurns
<1>4. \A i \in 1 .. m : seq[i] \in s <=> seq[i] \in t
  BY <1>1 DEF Elements
<1>5. \A n \in 0 .. m : f[n] = g[n]
  BY <1>1, <1>2, <1>3, <1>4, TurnsAgree
<1> QED BY <1>1, <1>2, <1>3, <1>5

\* All of a sequence, or nothing of it.
LEMMA OnlyAll ==
    ASSUME NEW T, NEW seq \in Seq(T), NEW s, Elements(seq) \subseteq s
    PROVE  Only(seq, s) = seq
<1>1. PICK m : m = Len(seq) /\ m \in Nat /\ DOMAIN seq = 1 .. m
  OBVIOUS
<1>2. PICK f : IsTurns(f, seq, s, m) /\ Only(seq, s) = f[m]
  BY <1>1, OnlyTurns
<1> DEFINE G == {k \in 0 .. m : f[k] = SubSeq(seq, 1, k)}
<1>3. 0 \in G
  <2>1. f[0] = <<>> /\ 0 \in 0 .. m
    BY <1>1, <1>2 DEF IsTurns
  <2>2. SubSeq(seq, 1, 0) = <<>>
    OBVIOUS
  <2> QED BY <2>1, <2>2
<1>4. ASSUME NEW k \in 0 .. m - 1, k \in G PROVE k + 1 \in G
  <2>1. k + 1 \in 1 .. m /\ k \in Nat
    BY <1>1
  <2>2. seq[k + 1] \in s
    BY <1>1, <2>1 DEF Elements
  <2>3. f[k + 1] = Append(f[k], seq[k + 1]) /\ f[k] = SubSeq(seq, 1, k)
    BY <1>2, <1>4, <2>2 DEF IsTurns
  <2>4. SubSeq(seq, 1, k + 1) = Append(SubSeq(seq, 1, k), seq[k + 1])
    BY <1>1, <2>1
  <2> QED BY <1>1, <2>1, <2>3, <2>4
<1>5. 0 .. m \subseteq G
  <2>1. \A k \in 0 .. m - 1 : k \in G => k + 1 \in G
    BY <1>4
  <2> HIDE DEF G
  <2> QED BY <1>1, <1>3, <2>1, Induction
<1>6. f[m] = SubSeq(seq, 1, m)
  BY <1>1, <1>5
<1>7. SubSeq(seq, 1, m) = seq
  BY <1>1
<1> QED BY <1>2, <1>6, <1>7

LEMMA EmptyHasNone ==
    ASSUME NEW T, NEW seq \in Seq(T)
    PROVE  seq = <<>> <=> Elements(seq) = {}
<1>1. seq # <<>> => 1 \in DOMAIN seq
  OBVIOUS
<1> QED BY <1>1 DEF Elements

IsMoved(q, r, x) == Append(q \o r, x) = q \o Append(r, x)
LEMMA AppendConcat ==
    ASSUME NEW T, NEW q \in Seq(T), NEW r \in Seq(T), NEW x \in T
    PROVE  IsMoved(q, r, x)
<1>1. Append(q \o r, x) \in Seq(T) /\ q \o Append(r, x) \in Seq(T)
  OBVIOUS
<1>2. Len(Append(q \o r, x)) = Len(q \o Append(r, x))
  OBVIOUS
<1>3. \A i \in 1 .. Len(Append(q \o r, x)) : Append(q \o r, x)[i] = (q \o Append(r, x))[i]
  OBVIOUS
<1> QED BY <1>1, <1>2, <1>3, SeqEqual DEF IsMoved

LEMMA OnlyConcat ==
    ASSUME NEW T, NEW a \in Seq(T), NEW b \in Seq(T), NEW s
    PROVE  Only(a \o b, s) = Only(a, s) \o Only(b, s)
<1>0. PICK m : m = Len(a)
  OBVIOUS
<1>00. PICK n : n = Len(b)
  OBVIOUS
<1>1. m = Len(a) /\ n = Len(b) /\ m \in Nat /\ n \in Nat /\ m + n \in Nat
  BY <1>0, <1>00
<1>2. PICK c : c = a \o b /\ c \in Seq(T) /\ Len(c) = m + n
  <2>1. a \o b \in Seq(T) /\ Len(a \o b) = Len(a) + Len(b)
    OBVIOUS
  <2> QED BY <1>1, <2>1
<1>3. (\A i \in 1 .. m : c[i] = a[i]) /\ (\A i \in 1 .. n : c[m + i] = b[i])
  BY <1>1, <1>2
<1>4. PICK f : IsTurns(f, c, s, m + n) /\ Only(c, s) = f[m + n]
  <2>1. Len(c) = m + n /\ m + n \in Nat
    BY <1>1, <1>2
  <2> HIDE <1>1
  <2> QED BY <2>1, OnlyTurns
<1>5. PICK g : IsTurns(g, a, s, m) /\ Only(a, s) = g[m]
  BY <1>1, OnlyTurns
<1>6. PICK h : IsTurns(h, b, s, n) /\ Only(b, s) = h[n]
  BY <1>1, OnlyTurns
<1>7. f[m] = g[m]
  <2>1. \A k \in 0 .. m : f[k] = g[k]
    <3>1. m <= Len(c) /\ m <= Len(a) /\ \A i \in 1 .. m : c[i] = a[i]
      BY <1>1, <1>2, <1>3
    <3>2. IsTurns(f, c, s, Len(c)) /\ IsTurns(g, a, s, Len(a))
      BY <1>1, <1>2, <1>4, <1>5
    <3>3. \A i \in 1 .. m : c[i] = a[i] /\ (c[i] \in s <=> c[i] \in s)
      BY <3>1
    <3>4. m \in Nat /\ c \in Seq(T)
      BY <1>1, <1>2
    <3> QED BY <3>1, <3>2, <3>3, <3>4, TurnsAgree
  <2> QED BY <1>1, <2>1
<1>8. g[m] \in Seq(T) /\ \A k \in 0 .. n : h[k] \in Seq(T)
  <2>1. m \in 0 .. m
    BY <1>1
  <2>2. g[m] \in Seq(T)
    BY <1>1, <1>5, <2>1, TurnsAreSeqs DEF IsPart
  <2>3. \A k \in 0 .. n : h[k] \in Seq(T)
    BY <1>1, <1>6, TurnsAreSeqs DEF IsPart
  <2> QED BY <2>2, <2>3
<1> DEFINE G == {k \in 0 .. n : f[m + k] = g[m] \o h[k]}
<1>9. 0 \in G
  <2>1. h[0] = <<>> /\ m + 0 = m /\ 0 \in 0 .. n
    BY <1>1, <1>6 DEF IsTurns
  <2>2. g[m] \o <<>> = g[m]
    BY <1>8
  <2> QED BY <1>7, <2>1, <2>2
<1>10. ASSUME NEW k \in 0 .. n - 1, k \in G PROVE k + 1 \in G
  <2>1. k \in 0 .. n /\ k + 1 \in 0 .. n /\ k + 1 \in 1 .. n /\ m + k \in 0 .. (m + n) - 1 /\ (m + k) + 1 = m + (k + 1)
    BY <1>1
  <2>2. PICK x : x = b[k + 1]
    OBVIOUS
  <2>3. c[m + (k + 1)] = x /\ x \in T
    <3>1. c[m + (k + 1)] = b[k + 1]
      BY <1>3, <2>1
    <3>2. b[k + 1] \in T
      BY <1>1, <2>1
    <3> QED BY <2>2, <3>1, <3>2
  <2>4. f[m + (k + 1)] = IF x \in s THEN Append(f[m + k], x) ELSE f[m + k]
    BY <1>4, <2>1, <2>3 DEF IsTurns
  <2>5. h[k + 1] = IF x \in s THEN Append(h[k], x) ELSE h[k]
    BY <1>6, <2>2 DEF IsTurns
  <2>6. f[m + k] = g[m] \o h[k]
    BY <1>10
  <2>7. h[k] \in Seq(T)
    BY <1>8, <2>1
  <2>8. Append(g[m] \o h[k], x) = g[m] \o Append(h[k], x)
    <3>1. PICK u, v : u = g[m] /\ v = h[k]
      OBVIOUS
    <3>2. u \in Seq(T) /\ v \in Seq(T)
      BY <1>8, <2>7, <3>1
    <3>3. IsMoved(u, v, x)
      BY <2>3, <3>2, AppendConcat, Zenon
    <3> QED BY <3>1, <3>3 DEF IsMoved
  <2> QED BY <2>1, <2>4, <2>5, <2>6, <2>8
<1>11. 0 .. n \subseteq G
  <2>1. \A k \in 0 .. n - 1 : k \in G => k + 1 \in G
    BY <1>10
  <2> HIDE DEF G
  <2> QED BY <1>1, <1>9, <2>1, Induction
<1>12. f[m + n] = g[m] \o h[n]
  <2>1. n \in 0 .. n
    BY <1>1
  <2> QED BY <1>11, <2>1
<1> QED BY <1>2, <1>4, <1>5, <1>6, <1>12
LEMMA OnlyNone ==
    ASSUME NEW T, NEW seq \in Seq(T), NEW s, Elements(seq) \cap s = {}
    PROVE  Only(seq, s) = <<>>
<1>1. Only(seq, s) \in Seq(T) /\ Elements(Only(seq, s)) = {}
  BY OnlyType
<1> QED BY <1>1, EmptyHasNone

LEMMA OnlyAppend ==
    ASSUME NEW T, NEW q \in Seq(T), NEW x \in T, NEW s
    PROVE  Only(Append(q, x), s) = IF x \in s THEN Append(Only(q, s), x) ELSE Only(q, s)
<1>1. PICK o : o = <<x>>
  OBVIOUS
<1>2. o \in Seq(T) /\ Elements(o) = {x} /\ Append(q, x) = q \o o
  <2>1. <<x>> \in Seq(T) /\ Elements(<<x>>) = {x}
    BY DEF Elements
  <2>2. Append(q, x) = q \o <<x>>
    OBVIOUS
  <2> QED BY <1>1, <2>1, <2>2
<1>3. Only(q \o o, s) = Only(q, s) \o Only(o, s)
  BY <1>2, OnlyConcat
<1>4. PICK p : p = Only(q, s) /\ p \in Seq(T)
  BY OnlyType
<1>5. CASE x \in s
  <2>1. Only(o, s) = o
    BY <1>2, <1>5, OnlyAll
  <2>2. p \o <<x>> = Append(p, x)
    BY <1>4
  <2> QED BY <1>1, <1>2, <1>3, <1>4, <1>5, <2>1, <2>2
<1>6. CASE x \notin s
  <2>1. Only(o, s) = <<>>
    BY <1>2, <1>6, OnlyNone
  <2>2. p \o <<>> = p
    BY <1>4
  <2> QED BY <1>2, <1>3, <1>4, <1>6, <2>1, <2>2
<1> QED BY <1>5, <1>6

LEMMA OnlyOnly ==
    ASSUME NEW T, NEW seq \in Seq(T), NEW s, NEW t
    PROVE  Only(Only(seq, s), t) = Only(seq, s \cap t)
<1>1. PICK m : m = Len(seq) /\ m \in Nat /\ \A i \in 1 .. m : seq[i] \in T
  OBVIOUS
<1>2. PICK f : IsTurns(f, seq, s, m) /\ Only(seq, s) = f[m]
  BY <1>1, OnlyTurns
<1>3. PICK h : IsTurns(h, seq, s \cap t, m) /\ Only(seq, s \cap t) = h[m]
  BY <1>1, OnlyTurns
<1>4. \A k \in 0 .. m : f[k] \in Seq(T)
  BY <1>1, <1>2, TurnsAreSeqs DEF IsPart
<1> DEFINE G == {k \in 0 .. m : Only(f[k], t) = h[k]}
<1>5. 0 \in G
  <2>1. f[0] = <<>> /\ h[0] = <<>> /\ 0 \in 0 .. m
    BY <1>1, <1>2, <1>3 DEF IsTurns
  <2>2. <<>> \in Seq(T) /\ Elements(<<>>) \cap t = {}
    BY DEF Elements
  <2>3. Only(<<>>, t) = <<>>
    BY <2>2, OnlyNone
  <2> QED BY <2>1, <2>3
<1>6. ASSUME NEW k \in 0 .. m - 1, k \in G PROVE k + 1 \in G
  <2>1. k + 1 \in 0 .. m /\ k \in 0 .. m /\ k + 1 \in 1 .. m
    BY <1>1
  <2>2. PICK q, x : q = f[k] /\ x = seq[k + 1]
    OBVIOUS
  <2>3. /\ f[k + 1] = IF x \in s THEN Append(q, x) ELSE q
        /\ h[k + 1] = IF x \in s \cap t THEN Append(h[k], x) ELSE h[k]
    BY <1>2, <1>3, <2>2 DEF IsTurns
  <2>4. q \in Seq(T) /\ x \in T /\ Only(q, t) = h[k]
    BY <1>1, <1>4, <1>6, <2>1, <2>2
  <2>5. Only(Append(q, x), t) = IF x \in t THEN Append(Only(q, t), x) ELSE Only(q, t)
    BY <2>4, OnlyAppend
  <2>6. Only(f[k + 1], t) = h[k + 1]
    BY <2>3, <2>4, <2>5
  <2> QED BY <2>1, <2>6
<1>7. 0 .. m \subseteq G
  <2>1. \A k \in 0 .. m - 1 : k \in G => k + 1 \in G
    BY <1>6
  <2> HIDE DEF G
  <2> QED BY <1>1, <1>5, <2>1, Induction
<1>8. m \in G
  <2>1. m \in 0 .. m
    BY <1>1
  <2> QED BY <1>7, <2>1
<1> QED BY <1>2, <1>3, <1>8

\* How often a certificate is in a keyring: in parts of it that are put
\* together, in what a removal leaves, in what is loaded of it.
LEMMA TimesIs ==
    ASSUME NEW T, NEW seq \in Seq(T), NEW id
    PROVE  /\ Times(seq, id) = Len(Only(seq, {k \in T : k.id = id}))
           /\ Times(seq, id) \in Nat
<1>1. \A k \in Elements(seq) : k \in T
  BY DEF Elements
<1>2. Only(seq, {k \in Elements(seq) : k.id = id}) = Only(seq, {k \in T : k.id = id})
  BY <1>1, OnlyAgrees
<1>3. Only(seq, {k \in T : k.id = id}) \in Seq(T)
  BY OnlyType
<1> QED BY <1>2, <1>3 DEF Times

LEMMA TimesAdd ==
    ASSUME NEW T, NEW a \in Seq(T), NEW b \in Seq(T), NEW id
    PROVE  Times(a \o b, id) = Times(a, id) + Times(b, id)
<1> DEFINE s == {k \in T : k.id = id}
<1>1. PICK p, q : p = Only(a, s) /\ q = Only(b, s)
  OBVIOUS
<1>2. p \in Seq(T) /\ q \in Seq(T)
  BY <1>1, OnlyType
<1>3. a \o b \in Seq(T)
  OBVIOUS
<1>4. Only(a \o b, s) = p \o q
  BY <1>1, OnlyConcat
<1>5. Len(p \o q) = Len(p) + Len(q)
  BY <1>2
<1>6. Times(a \o b, id) = Len(Only(a \o b, s))
  BY <1>3, TimesIs
<1>7. Times(a, id) = Len(p) /\ Times(b, id) = Len(q)
  BY <1>1, TimesIs
<1> QED BY <1>4, <1>5, <1>6, <1>7

LEMMA TimesOnly ==
    ASSUME NEW T, NEW seq \in Seq(T), NEW s, NEW id
    PROVE  /\ (\A k \in Elements(seq) : k.id = id => k \in s) => Times(Only(seq, s), id) = Times(seq, id)
           /\ (\A k \in Elements(seq) : k.id = id => k \notin s) => Times(Only(seq, s), id) = 0
<1> DEFINE t == {k \in T : k.id = id}
<1>1. Only(seq, s) \in Seq(T)
  BY OnlyType
<1>2. Times(Only(seq, s), id) = Len(Only(Only(seq, s), t))
  BY <1>1, TimesIs
<1>3. Only(Only(seq, s), t) = Only(seq, s \cap t)
  BY OnlyOnly
<1>4. Times(seq, id) = Len(Only(seq, t))
  BY TimesIs
<1>5. Elements(seq) \subseteq T
  BY DEF Elements
<1>6. ASSUME \A k \in Elements(seq) : k.id = id => k \in s
      PROVE  Times(Only(seq, s), id) = Times(seq, id)
  <2>1. \A k \in Elements(seq) : k \in s \cap t <=> k \in t
    BY <1>5, <1>6
  <2>2. Only(seq, s \cap t) = Only(seq, t)
    BY <2>1, OnlyAgrees
  <2> QED BY <1>2, <1>3, <1>4, <2>2
<1>7. ASSUME \A k \in Elements(seq) : k.id = id => k \notin s
      PROVE  Times(Only(seq, s), id) = 0
  <2>1. Elements(seq) \cap (s \cap t) = {}
    BY <1>7
  <2>2. Only(seq, s \cap t) = <<>>
    BY <2>1, OnlyNone
  <2>3. Len(<<>>) = 0
    OBVIOUS
  <2> QED BY <1>2, <1>3, <2>2, <2>3
<1> QED BY <1>6, <1>7
-----------------------------------------------------------------------------
(* What a keyring file holds: nothing yet, or certificates without junk.   *)

IsClean(bytes, Cert) == bytes \in Seq(Cert) /\ Junk \notin Elements(bytes)
IsFile(file, Cert) == file = {} \/ \E bytes \in Seq(Cert) : IsClean(bytes, Cert) /\ file = {bytes}
Loaded(data) == Only(data, Elements(data) \ {Junk})

LEMMA LoadedIs ==
    ASSUME NEW Cert, NEW data \in Seq(Cert)
    PROVE  /\ LoadBytes(data) = IF Loaded(data) = <<>> THEN {} ELSE {Loaded(data)}
           /\ IsClean(Loaded(data), Cert)
           /\ Junk \notin Elements(data) => Loaded(data) = data
<1>1. Loaded(data) \in Seq(Cert) /\ Elements(Loaded(data)) = Elements(data) \cap (Elements(data) \ {Junk})
  BY OnlyType DEF Loaded
<1>2. Junk \notin Elements(data) => Loaded(data) = data
  <2>1. Junk \notin Elements(data) => Elements(data) \subseteq Elements(data) \ {Junk}
    OBVIOUS
  <2> QED BY <2>1, OnlyAll DEF Loaded
<1> QED BY <1>1, <1>2 DEF LoadBytes, Loaded, IsClean

LEMMA LoadedTimes ==
    ASSUME NEW Cert, NEW data \in Seq(Cert), NEW id, id # "junk"
    PROVE  Times(Loaded(data), id) = Times(data, id)
<1>1. \A k \in Elements(data) : k.id = id => k \in Elements(data) \ {Junk}
  BY DEF Junk
<1> QED BY <1>1, TimesOnly DEF Loaded

\* What one operation does to a file that holds what it should.
Joined(old, ks) == {old \o k : k \in ks}
IsAdded(r, file, data, Cert) ==
    /\ r.ok <=> (LoadBytes(data) # {} /\ file # {<<>>})
    /\ ~r.ok => r.file = file
    /\ r.ok => \E a \in Seq(Cert) : /\ IsClean(a, Cert)
                                    /\ file = {a} \/ (file = {} /\ a = <<>>)
                                    /\ r.file = {a \o Loaded(data)}
LEMMA FilesAreClean ==
    ASSUME NEW Cert, NEW file, IsFile(file, Cert), NEW data \in Seq(Cert), NEW r, r = Add(file, data)
    PROVE  IsAdded(r, file, data, Cert)
<1>1. PICK k : k = Loaded(data) /\ LoadBytes(data) = IF k = <<>> THEN {} ELSE {k}
  BY LoadedIs
<1>2. PICK old : old = IF file = {} THEN {<<>>} ELSE UNION {LoadBytes(bytes) : bytes \in file}
  OBVIOUS
<1>20. PICK all : all = UNION {Joined(o, LoadBytes(data)) : o \in old}
  OBVIOUS
<1>3. r = IF old = {} \/ LoadBytes(data) = {} THEN [ok |-> FALSE, file |-> file] ELSE [ok |-> TRUE, file |-> all]
  BY <1>2, <1>20 DEF Add, Joined
<1>4. CASE file = {}
  <2>1. old = {<<>>} /\ <<>> \in Seq(Cert) /\ IsClean(<<>>, Cert)
    BY <1>2, <1>4 DEF IsClean, Elements
  <2>3. PICK e : e = <<>>
    OBVIOUS
  <2>2. LoadBytes(data) # {} => all = {e \o k}
    <3>1. LoadBytes(data) # {} => LoadBytes(data) = {k} /\ old = {e}
      BY <1>1, <2>1, <2>3
    <3>2. Joined(e, {k}) = {e \o k}
      BY DEF Joined
    <3>3. UNION {Joined(o, {k}) : o \in {e}} = Joined(e, {k})
      OBVIOUS
    <3> QED BY <1>20, <3>1, <3>2, <3>3, Zenon
  <2>4. r.ok <=> LoadBytes(data) # {}
    BY <1>3, <2>1
  <2>5. ~r.ok => r.file = file
    BY <1>3
  <2>6. r.ok => r.file = {e \o k}
    BY <1>3, <2>2, <2>3, <2>4
  <2>7. e \in Seq(Cert) /\ IsClean(e, Cert) /\ file = {} /\ e = <<>>
    BY <1>4, <2>1, <2>3
  <2> QED BY <1>1, <1>4, <2>4, <2>5, <2>6, <2>7, Zenon DEF IsAdded
<1>5. CASE file # {}
  <2>1. PICK a : a \in Seq(Cert) /\ IsClean(a, Cert) /\ file = {a}
    BY <1>5 DEF IsFile
  <2>2. LoadBytes(a) = IF a = <<>> THEN {} ELSE {a}
    BY <2>1, LoadedIs DEF IsClean
  <2>3. old = LoadBytes(a)
    BY <1>2, <1>5, <2>1
  <2>4. old # {} /\ LoadBytes(data) # {} => all = {a \o k}
    <3>1. old # {} /\ LoadBytes(data) # {} => LoadBytes(data) = {k} /\ old = {a}
      BY <1>1, <2>2, <2>3
    <3>2. Joined(a, {k}) = {a \o k}
      BY DEF Joined
    <3>3. UNION {Joined(o, {k}) : o \in {a}} = Joined(a, {k})
      OBVIOUS
    <3> QED BY <1>20, <3>1, <3>2, <3>3, Zenon
  <2>5. old = {} <=> file = {<<>>}
    BY <2>1, <2>2, <2>3
  <2>6. r.ok <=> (LoadBytes(data) # {} /\ file # {<<>>})
    BY <1>3, <2>5
  <2>7. ~r.ok => r.file = file
    BY <1>3
  <2>8. r.ok => r.file = {a \o k}
    BY <1>3, <2>4
  <2> QED BY <1>1, <2>1, <2>6, <2>7, <2>8, Zenon DEF IsAdded
<1> QED BY <1>4, <1>5

LEMMA RemovalsAreClean ==
    ASSUME NEW Cert, NEW file, IsFile(file, Cert), NEW id, NEW r, r = RemoveFrom(file, id)
    PROVE  /\ ~r.ok => r.file = file
           /\ r.ok => \E a \in Seq(Cert) : IsClean(a, Cert) /\ file = {a} /\ r.file = {RemoveKey(a, id)}
<1>1. PICK old : old = UNION {LoadBytes(bytes) : bytes \in file}
  OBVIOUS
<1>2. r = IF old = {} THEN [ok |-> FALSE, file |-> file] ELSE [ok |-> TRUE, file |-> {RemoveKey(k, id) : k \in old}]
  BY <1>1 DEF RemoveFrom
<1>3. CASE file = {}
  BY <1>1, <1>2, <1>3
<1>4. CASE file # {}
  <2>1. PICK a : a \in Seq(Cert) /\ IsClean(a, Cert) /\ file = {a}
    BY <1>4 DEF IsFile
  <2>2. LoadBytes(a) = IF a = <<>> THEN {} ELSE {a}
    BY <2>1, LoadedIs DEF IsClean
  <2>3. old = LoadBytes(a)
    BY <1>1, <2>1
  <2>4. old # {} => {RemoveKey(k, id) : k \in old} = {RemoveKey(a, id)}
    BY <2>2, <2>3
  <2> QED BY <1>2, <2>1, <2>4
<1> QED BY <1>3, <1>4

-----------------------------------------------------------------------------
(* The turns of a series of operations, and of what is expected of it.     *)

IsSeries(s, ops) ==
    /\ s[0] = [ok |-> TRUE, file |-> {}]
    /\ \A n \in 0 .. Len(ops) - 1 : s[n + 1] = Do(s[n].file, ops[n + 1])
IsExpected(e, s, ops, id) ==
    /\ e[0] = 0
    /\ \A n \in 0 .. Len(ops) - 1 :
          e[n + 1] = IF ~s[n + 1].ok THEN e[n]
                     ELSE IF ops[n + 1].add THEN e[n] + Times(ops[n + 1].data, id)
                     ELSE IF ops[n + 1].id = id THEN 0 ELSE e[n]

SeriesTo(f, ops, m) ==
    [n \in 0 .. m |-> IF n = 0 THEN [ok |-> TRUE, file |-> {}] ELSE Do(f[n - 1].file, ops[n])]
SeriesRun(ops, m) == CHOOSE f : f = SeriesTo(f, ops, m)

LEMMA SeriesRuns ==
    ASSUME NEW ops, NEW m \in Nat
    PROVE  SeriesRun(ops, m) = SeriesTo(SeriesRun(ops, m), ops, m)
<1> DEFINE G == {k \in 0 .. m : \E f : f = SeriesTo(f, ops, k)}
<1>1. 0 \in G
  <2>1. [i \in 0 .. 0 |-> [ok |-> TRUE, file |-> {}]] = SeriesTo([i \in 0 .. 0 |-> [ok |-> TRUE, file |-> {}]], ops, 0)
    BY DEF SeriesTo
  <2> QED BY <2>1
<1>2. ASSUME NEW k \in 0 .. m - 1, k \in G PROVE k + 1 \in G
  <2>1. PICK f : f = SeriesTo(f, ops, k)
    BY <1>2
  <2> DEFINE g == [i \in 0 .. k + 1 |-> IF i = 0 THEN [ok |-> TRUE, file |-> {}] ELSE Do(f[i - 1].file, ops[i])]
  <2>2. \A i \in 0 .. k : g[i] = f[i]
    <3>1. \A i \in 0 .. k : g[i] = SeriesTo(f, ops, k)[i]
      BY DEF SeriesTo
    <3> QED BY <2>1, <3>1, Zenon
  <2>3. \A i \in 0 .. k + 1 : i # 0 => i - 1 \in 0 .. k
    OBVIOUS
  <2>4. g = SeriesTo(g, ops, k + 1)
    BY <2>2, <2>3 DEF SeriesTo
  <2> QED BY <2>4
<1>3. m \in G
  <2>1. \A k \in 0 .. m - 1 : k \in G => k + 1 \in G
    BY <1>2
  <2> HIDE DEF G
  <2> QED BY <1>1, <2>1, Induction
<1> QED BY <1>3 DEF SeriesRun

LEMMA SeriesIs ==
    ASSUME NEW ops, NEW m \in Nat, Len(ops) = m, NEW s, s = After(ops)
    PROVE  IsSeries(s, ops)
<1>1. s = SeriesRun(ops, m)
  BY DEF After, SeriesRun, SeriesTo
<1>2. s = SeriesTo(s, ops, m)
  BY <1>1, SeriesRuns
<1>3. \A n \in 0 .. m : s[n] = IF n = 0 THEN [ok |-> TRUE, file |-> {}] ELSE Do(s[n - 1].file, ops[n])
  <2>1. \A n \in 0 .. m : SeriesTo(s, ops, m)[n]
            = IF n = 0 THEN [ok |-> TRUE, file |-> {}] ELSE Do(s[n - 1].file, ops[n])
    BY DEF SeriesTo
  <2> QED BY <1>2, <2>1, Zenon
<1>4. s[0] = [ok |-> TRUE, file |-> {}]
  BY <1>3
<1>5. ASSUME NEW n \in 0 .. m - 1
      PROVE  s[n + 1] = Do(s[n].file, ops[n + 1])
  <2>1. n + 1 \in 0 .. m /\ n + 1 # 0 /\ (n + 1) - 1 = n
    OBVIOUS
  <2>2. s[n + 1] = Do(s[(n + 1) - 1].file, ops[n + 1])
    BY <1>3, <2>1
  <2> QED BY <2>1, <2>2
<1> QED BY <1>4, <1>5 DEF IsSeries

ExpectedTo(f, s, ops, id, m) ==
    [n \in 0 .. m |-> IF n = 0 THEN 0
                      ELSE IF ~s[n].ok THEN f[n - 1]
                      ELSE IF ops[n].add THEN f[n - 1] + Times(ops[n].data, id)
                      ELSE IF ops[n].id = id THEN 0 ELSE f[n - 1]]
ExpectedRun(s, ops, id, m) == CHOOSE f : f = ExpectedTo(f, s, ops, id, m)

LEMMA ExpectedRuns ==
    ASSUME NEW s, NEW ops, NEW id, NEW m \in Nat
    PROVE  ExpectedRun(s, ops, id, m) = ExpectedTo(ExpectedRun(s, ops, id, m), s, ops, id, m)
<1> DEFINE G == {k \in 0 .. m : \E f : f = ExpectedTo(f, s, ops, id, k)}
<1>1. 0 \in G
  <2>1. [i \in 0 .. 0 |-> 0] = ExpectedTo([i \in 0 .. 0 |-> 0], s, ops, id, 0)
    BY DEF ExpectedTo
  <2> QED BY <2>1
<1>2. ASSUME NEW k \in 0 .. m - 1, k \in G PROVE k + 1 \in G
  <2>1. PICK f : f = ExpectedTo(f, s, ops, id, k)
    BY <1>2
  <2> DEFINE g == [i \in 0 .. k + 1 |-> IF i = 0 THEN 0
                                        ELSE IF ~s[i].ok THEN f[i - 1]
                                        ELSE IF ops[i].add THEN f[i - 1] + Times(ops[i].data, id)
                                        ELSE IF ops[i].id = id THEN 0 ELSE f[i - 1]]
  <2>2. \A i \in 0 .. k : g[i] = f[i]
    <3>1. \A i \in 0 .. k : g[i] = ExpectedTo(f, s, ops, id, k)[i]
      BY DEF ExpectedTo
    <3> QED BY <2>1, <3>1, Zenon
  <2>3. \A i \in 0 .. k + 1 : i # 0 => i - 1 \in 0 .. k
    OBVIOUS
  <2>4. g = ExpectedTo(g, s, ops, id, k + 1)
    BY <2>2, <2>3 DEF ExpectedTo
  <2> QED BY <2>4
<1>3. m \in G
  <2>1. \A k \in 0 .. m - 1 : k \in G => k + 1 \in G
    BY <1>2
  <2> HIDE DEF G
  <2> QED BY <1>1, <2>1, Induction
<1> QED BY <1>3 DEF ExpectedRun

LEMMA ExpectedIs ==
    ASSUME NEW ops, NEW m \in Nat, Len(ops) = m, NEW id, NEW e, e = Expected(ops, id), NEW s, s = After(ops)
    PROVE  IsExpected(e, s, ops, id)
<1>1. e = ExpectedRun(s, ops, id, m)
  BY DEF Expected, ExpectedRun, ExpectedTo
<1>2. e = ExpectedTo(e, s, ops, id, m)
  BY <1>1, ExpectedRuns
<1>3. \A n \in 0 .. m : e[n] = IF n = 0 THEN 0
                               ELSE IF ~s[n].ok THEN e[n - 1]
                               ELSE IF ops[n].add THEN e[n - 1] + Times(ops[n].data, id)
                               ELSE IF ops[n].id = id THEN 0 ELSE e[n - 1]
  <2>1. \A n \in 0 .. m : ExpectedTo(e, s, ops, id, m)[n]
            = IF n = 0 THEN 0
              ELSE IF ~s[n].ok THEN e[n - 1]
              ELSE IF ops[n].add THEN e[n - 1] + Times(ops[n].data, id)
              ELSE IF ops[n].id = id THEN 0 ELSE e[n - 1]
    BY DEF ExpectedTo
  <2> QED BY <1>2, <2>1, Zenon
<1>4. e[0] = 0
  BY <1>3
<1>5. ASSUME NEW n \in 0 .. m - 1
      PROVE  e[n + 1] = IF ~s[n + 1].ok THEN e[n]
                        ELSE IF ops[n + 1].add THEN e[n] + Times(ops[n + 1].data, id)
                        ELSE IF ops[n + 1].id = id THEN 0 ELSE e[n]
  <2>1. n + 1 \in 0 .. m /\ n + 1 # 0 /\ (n + 1) - 1 = n
    OBVIOUS
  <2>2. e[n + 1] = IF ~s[n + 1].ok THEN e[(n + 1) - 1]
                   ELSE IF ops[n + 1].add THEN e[(n + 1) - 1] + Times(ops[n + 1].data, id)
                   ELSE IF ops[n + 1].id = id THEN 0 ELSE e[(n + 1) - 1]
    BY <1>3, <2>1
  <2> QED BY <2>1, <2>2
<1> QED BY <1>4, <1>5 DEF IsExpected
Counts(file, Cert, id, e) ==
    /\ IsFile(file, Cert)
    /\ e \in Nat
    /\ file = {} => e = 0
    /\ \A bytes \in file : Times(bytes, id) = e

LEMMA CleanJoined ==
    ASSUME NEW Cert, NEW a \in Seq(Cert), NEW b \in Seq(Cert), IsClean(a, Cert), IsClean(b, Cert)
    PROVE  IsClean(a \o b, Cert)
<1>1. a \o b \in Seq(Cert) /\ DOMAIN (a \o b) = 1 .. Len(a) + Len(b)
  OBVIOUS
<1>2. \A i \in 1 .. Len(a) + Len(b) : (a \o b)[i] = IF i <= Len(a) THEN a[i] ELSE b[i - Len(a)]
  OBVIOUS
<1>3. DOMAIN a = 1 .. Len(a) /\ DOMAIN b = 1 .. Len(b) /\ Len(a) \in Nat /\ Len(b) \in Nat
  OBVIOUS
<1>4. \A i \in 1 .. Len(a) + Len(b) : IF i <= Len(a) THEN i \in 1 .. Len(a) ELSE i - Len(a) \in 1 .. Len(b)
  BY <1>3
<1>5. \A i \in 1 .. Len(a) + Len(b) : (a \o b)[i] # Junk
  BY <1>2, <1>3, <1>4 DEF IsClean, Elements
<1> QED BY <1>1, <1>5 DEF IsClean, Elements

LEMMA AddCounts ==
    ASSUME NEW Cert, NEW file, NEW id, NEW e, Counts(file, Cert, id, e), id # "junk",
           NEW data \in Seq(Cert), NEW r, r = Add(file, data)
    PROVE  Counts(r.file, Cert, id, IF r.ok THEN e + Times(data, id) ELSE e)
<1>1. IsFile(file, Cert) /\ e \in Nat
  BY DEF Counts
<1>0. IsAdded(r, file, data, Cert)
  BY <1>1, FilesAreClean
<1>2. CASE ~r.ok
  <2>1. r.file = file
    BY <1>0, <1>2 DEF IsAdded
  <2> QED BY <1>2, <2>1
<1>3. CASE r.ok
  <2>1. PICK a \in Seq(Cert) : /\ IsClean(a, Cert)
                               /\ file = {a} \/ (file = {} /\ a = <<>>)
                               /\ r.file = {a \o Loaded(data)}
    BY <1>0, <1>3 DEF IsAdded
  <2>2. PICK k : k = Loaded(data) /\ k \in Seq(Cert) /\ IsClean(k, Cert)
    BY LoadedIs DEF IsClean
  <2>3. a \o k \in Seq(Cert) /\ IsClean(a \o k, Cert)
    BY <2>1, <2>2, CleanJoined
  <2>4. Times(a \o k, id) = Times(a, id) + Times(k, id)
    BY <2>1, <2>2, TimesAdd
  <2>5. Times(k, id) = Times(data, id) /\ Times(data, id) \in Nat
    BY <2>2, LoadedTimes, TimesIs
  <2>6. Times(a, id) = e
    <3>1. CASE file = {a}
      BY <3>1 DEF Counts
    <3>2. CASE file = {} /\ a = <<>>
      <4>1. Elements(a) = {} /\ a \in Seq(Cert)
        BY <2>1, <3>2, EmptyHasNone
      <4>2. Only(a, {x \in Elements(a) : x.id = id}) = <<>>
        BY <4>1, OnlyNone
      <4>3. Len(<<>>) = 0
        OBVIOUS
      <4>4. Times(a, id) = 0
        BY <4>2, <4>3 DEF Times
      <4> QED BY <3>2, <4>4 DEF Counts
    <3> QED BY <2>1, <3>1, <3>2
  <2>7. r.file = {a \o k}
    BY <2>1, <2>2
  <2>8. IsFile(r.file, Cert)
    BY <2>3, <2>7 DEF IsFile
  <2>9. e + Times(data, id) \in Nat
    BY <1>1, <2>5
  <2>10. \A bytes \in r.file : Times(bytes, id) = e + Times(data, id)
    BY <2>4, <2>5, <2>6, <2>7
  <2>11. r.file # {}
    BY <2>7
  <2> QED BY <1>3, <2>8, <2>9, <2>10, <2>11 DEF Counts
<1> QED BY <1>2, <1>3

LEMMA RemovalCounts ==
    ASSUME NEW Cert, NEW file, NEW id, NEW e, Counts(file, Cert, id, e), NEW other, NEW r, r = RemoveFrom(file, other)
    PROVE  Counts(r.file, Cert, id, IF r.ok /\ other = id THEN 0 ELSE e)
<1>1. IsFile(file, Cert) /\ e \in Nat
  BY DEF Counts
<1>2. CASE ~r.ok
  <2>1. r.file = file
    BY <1>1, <1>2, RemovalsAreClean
  <2> QED BY <1>2, <2>1
<1>3. CASE r.ok
  <2>1. PICK a \in Seq(Cert) : IsClean(a, Cert) /\ file = {a} /\ r.file = {RemoveKey(a, other)}
    BY <1>1, <1>3, RemovalsAreClean
  <2>2. PICK b : b = RemoveKey(a, other) /\ b = Only(a, {k \in Elements(a) : k.id # other})
    BY DEF RemoveKey
  <2>3. b \in Seq(Cert) /\ Elements(b) = Elements(a) \cap {k \in Elements(a) : k.id # other}
    BY <2>2, OnlyType
  <2>4. IsClean(b, Cert)
    BY <2>1, <2>3 DEF IsClean
  <2>5. Times(a, id) = e
    BY <2>1 DEF Counts
  <2>6. Times(b, id) = IF other = id THEN 0 ELSE e
    <3>1. CASE other = id
      <4>1. \A k \in Elements(a) : k.id = id => k \notin {x \in Elements(a) : x.id # other}
        BY <3>1
      <4>2. Times(Only(a, {x \in Elements(a) : x.id # other}), id) = 0
        BY <4>1, TimesOnly
      <4> QED BY <2>2, <3>1, <4>2
    <3>2. CASE other # id
      <4>1. \A k \in Elements(a) : k.id = id => k \in {x \in Elements(a) : x.id # other}
        BY <3>2
      <4>2. Times(Only(a, {x \in Elements(a) : x.id # other}), id) = Times(a, id)
        BY <4>1, TimesOnly
      <4> QED BY <2>2, <2>5, <3>2, <4>2
    <3> QED BY <3>1, <3>2
  <2>7. r.file = {b}
    BY <2>1, <2>2
  <2>8. IsFile(r.file, Cert)
    BY <2>3, <2>4, <2>7 DEF IsFile
  <2> QED BY <1>1, <1>3, <2>6, <2>7, <2>8 DEF Counts
<1> QED BY <1>2, <1>3

\* AddedAreKept (Keyring), for every series of operations: a keyring file
\* holds each certificate as often as the additions that succeeded since its
\* last removal put it there, and an addition fails only if it has no
\* certificate or removals have emptied the file
\* (crates/tpt-l-apt-keyring/src/lib.rs 150-256).
LEMMA KeysAreKept ==
    ASSUME NEW Cert, NEW Id, NEW ops \in Seq([add : BOOLEAN, data : Seq(Cert \cup {Junk}), id : Id]),
           NEW ids, "junk" \notin ids
    PROVE  AddedAreKept(ops, ids)
<1>1. PICK T : T = Cert \cup {Junk}
  OBVIOUS
<1>2. PICK m : m = Len(ops)
  OBVIOUS
<1>3. m \in Nat /\ \A n \in 1 .. m : ops[n].add \in BOOLEAN /\ ops[n].data \in Seq(T)
  <2>1. PICK Op : Op = [add : BOOLEAN, data : Seq(T), id : Id]
    OBVIOUS
  <2>2. ops \in Seq(Op)
    BY <1>1, <2>1
  <2>3. m \in Nat /\ \A n \in 1 .. m : ops[n] \in Op
    BY <1>2, <2>2
  <2> QED BY <2>1, <2>3
<1>4. PICK s : s = After(ops)
  OBVIOUS
<1>5. IsSeries(s, ops)
  BY <1>2, <1>3, <1>4, SeriesIs
<1>6. ASSUME NEW id, id # "junk"
      PROVE  \A n \in 0 .. m : Counts(s[n].file, T, id, Expected(ops, id)[n])
  <2>1. PICK e : e = Expected(ops, id)
    OBVIOUS
  <2>2. IsExpected(e, s, ops, id)
    BY <1>2, <1>3, <1>4, <2>1, ExpectedIs
  <2> DEFINE G == {n \in 0 .. m : Counts(s[n].file, T, id, e[n])}
  <2>3. 0 \in G
    <3>1. s[0].file = {} /\ e[0] = 0
      BY <1>5, <2>2 DEF IsSeries, IsExpected
    <3>2. Counts({}, T, id, 0)
      BY DEF Counts, IsFile
    <3>3. 0 \in 0 .. m
      BY <1>3
    <3> QED BY <3>1, <3>2, <3>3
  <2>4. ASSUME NEW k \in 0 .. m - 1, k \in G PROVE k + 1 \in G
    <3>1. k + 1 \in 0 .. m /\ k + 1 \in 1 .. m
      BY <1>3
    <3>2. PICK op, r, file, c : op = ops[k + 1] /\ r = s[k + 1] /\ file = s[k].file /\ c = e[k]
      OBVIOUS
    <3>3. r = Do(file, op)
      BY <1>2, <1>5, <3>2 DEF IsSeries
    <3>4. e[k + 1] = IF ~r.ok THEN c
                     ELSE IF op.add THEN c + Times(op.data, id)
                     ELSE IF op.id = id THEN 0 ELSE c
      BY <1>2, <2>2, <3>2 DEF IsExpected
    <3>5. Counts(file, T, id, c) /\ id # "junk" /\ op.data \in Seq(T)
      BY <1>3, <1>6, <2>4, <3>1, <3>2
    <3>6. CASE op.add
      <4>1. r = Add(file, op.data)
        BY <3>3, <3>6 DEF Do
      <4>2. Counts(r.file, T, id, IF r.ok THEN c + Times(op.data, id) ELSE c)
        BY <3>5, <4>1, AddCounts
      <4>3. e[k + 1] = IF r.ok THEN c + Times(op.data, id) ELSE c
        BY <3>4, <3>6
      <4> QED BY <3>1, <3>2, <4>2, <4>3
    <3>7. CASE ~op.add
      <4>1. r = RemoveFrom(file, op.id)
        BY <3>3, <3>7 DEF Do
      <4>2. Counts(r.file, T, id, IF r.ok /\ op.id = id THEN 0 ELSE c)
        BY <3>5, <4>1, RemovalCounts
      <4>3. e[k + 1] = IF r.ok /\ op.id = id THEN 0 ELSE c
        BY <3>4, <3>7
      <4> QED BY <3>1, <3>2, <4>2, <4>3
    <3> QED BY <3>6, <3>7
  <2>5. 0 .. m \subseteq G
    <3>1. \A k \in 0 .. m - 1 : k \in G => k + 1 \in G
      BY <2>4
    <3> HIDE DEF G
    <3> QED BY <1>3, <2>3, <3>1, Induction
  <2> QED BY <2>1, <2>5
<1>7. \A n \in 0 .. m : IsFile(s[n].file, T)
  <2>1. PICK id : id = "none"
    OBVIOUS
  <2>2. id # "junk"
    BY <2>1
  <2>3. \A n \in 0 .. m : Counts(s[n].file, T, id, Expected(ops, id)[n])
    BY <1>6, <2>2
  <2> QED BY <2>3 DEF Counts
<1>8. ASSUME NEW n \in 1 .. m, ops[n].add
      PROVE  s[n].ok <=> (LoadBytes(ops[n].data) # {} /\ s[n - 1].file # {<<>>})
  <2>1. PICK k : k = n - 1
    OBVIOUS
  <2>2. k \in 0 .. m - 1 /\ k \in 0 .. m /\ k + 1 = n
    BY <1>3, <2>1
  <2>3. PICK op, r, file : op = ops[n] /\ r = s[n] /\ file = s[k].file
    OBVIOUS
  <2>4. r = Add(file, op.data)
    BY <1>2, <1>5, <1>8, <2>2, <2>3 DEF IsSeries, Do
  <2>5. IsFile(file, T) /\ op.data \in Seq(T)
    BY <1>3, <1>7, <2>2, <2>3
  <2>6. IsAdded(r, file, op.data, T)
    BY <2>4, <2>5, FilesAreClean
  <2> QED BY <2>1, <2>3, <2>6 DEF IsAdded
<1>9. \A id \in ids : \A n \in 0 .. m : \A bytes \in s[n].file : Times(bytes, id) = Expected(ops, id)[n]
  <2>1. \A id \in ids : id # "junk"
    OBVIOUS
  <2> QED BY <1>6, <2>1 DEF Counts
<1> QED BY <1>2, <1>4, <1>8, <1>9 DEF AddedAreKept
-----------------------------------------------------------------------------
(* The verdict on a signature is a function of the set of the keys.        *)

Policy == [when : Int, allowExpired : BOOLEAN, allowRevoked : BOOLEAN]

IsPast(k, policy) == ~policy.allowExpired /\ \E t \in k.expires : policy.when > t
Usable(s, by, policy) == {k \in s : k.id \in by /\ MayBeUsed(k, policy)}
Past(s, by, policy)   == {k \in s : k.id \in by /\ IsPast(k, policy)}
Barred(s, by, policy) == {k \in s : k.id \in by /\ ~IsPast(k, policy) /\ ~policy.allowRevoked /\ k.revoked}
Outcome(s, by, policy) ==
    IF Usable(s, by, policy) # {} THEN "signed"
    ELSE IF Past(s, by, policy) # {} THEN "expired"
    ELSE IF Barred(s, by, policy) # {} THEN "revoked" ELSE "none"

CheckTo(f, keys, by, policy, m) ==
    [n \in 0 .. m |-> IF n = 0 THEN [signers |-> <<>>, expired |-> FALSE, revoked |-> FALSE]
                      ELSE Check(f[n - 1], keys[n], by, policy)]
CheckRun(keys, by, policy, m) == CHOOSE f : f = CheckTo(f, keys, by, policy, m)

LEMMA CheckRuns ==
    ASSUME NEW keys, NEW by, NEW policy, NEW m \in Nat
    PROVE  CheckRun(keys, by, policy, m) = CheckTo(CheckRun(keys, by, policy, m), keys, by, policy, m)
<1> DEFINE G == {k \in 0 .. m : \E f : f = CheckTo(f, keys, by, policy, k)}
<1>1. 0 \in G
  <2> DEFINE z == [i \in 0 .. 0 |-> [signers |-> <<>>, expired |-> FALSE, revoked |-> FALSE]]
  <2>1. z = CheckTo(z, keys, by, policy, 0)
    BY DEF CheckTo
  <2> QED BY <2>1
<1>2. ASSUME NEW k \in 0 .. m - 1, k \in G PROVE k + 1 \in G
  <2>1. PICK f : f = CheckTo(f, keys, by, policy, k)
    BY <1>2
  <2> DEFINE g == [i \in 0 .. k + 1 |-> IF i = 0 THEN [signers |-> <<>>, expired |-> FALSE, revoked |-> FALSE]
                                        ELSE Check(f[i - 1], keys[i], by, policy)]
  <2>2. \A i \in 0 .. k : g[i] = f[i]
    <3>1. \A i \in 0 .. k : g[i] = CheckTo(f, keys, by, policy, k)[i]
      BY DEF CheckTo
    <3> QED BY <2>1, <3>1, Zenon
  <2>3. \A i \in 0 .. k + 1 : i # 0 => i - 1 \in 0 .. k
    OBVIOUS
  <2>4. g = CheckTo(g, keys, by, policy, k + 1)
    BY <2>2, <2>3 DEF CheckTo
  <2> QED BY <2>4
<1>3. m \in G
  <2>1. \A k \in 0 .. m - 1 : k \in G => k + 1 \in G
    BY <1>2
  <2> HIDE DEF G
  <2> QED BY <1>1, <2>1, Induction
<1> QED BY <1>3 DEF CheckRun

IsVerdict(v, s, by, policy) ==
    /\ v.is = Outcome(s, by, policy)
    /\ Elements(v.by) = {k.id : k \in Usable(s, by, policy)}
Judges(r, s, by, policy, Id) ==
    /\ r \in [signers : Seq(Id), expired : BOOLEAN, revoked : BOOLEAN]
    /\ Elements(r.signers) = {k.id : k \in Usable(s, by, policy)}
    /\ r.expired <=> Past(s, by, policy) # {}
    /\ r.revoked <=> Barred(s, by, policy) # {}

LEMMA ElementsAppend ==
    ASSUME NEW T, NEW q \in Seq(T), NEW x \in T
    PROVE  Append(q, x) \in Seq(T) /\ Elements(Append(q, x)) = Elements(q) \cup {x}
<1>1. Len(q) \in Nat /\ DOMAIN q = 1 .. Len(q) /\ DOMAIN Append(q, x) = 1 .. Len(q) + 1
  OBVIOUS
<1>2. 1 .. Len(q) + 1 = (1 .. Len(q)) \cup {Len(q) + 1}
  BY <1>1
<1>3. (\A i \in 1 .. Len(q) : Append(q, x)[i] = q[i]) /\ Append(q, x)[Len(q) + 1] = x
  OBVIOUS
<1> QED BY <1>1, <1>2, <1>3 DEF Elements

\* A key is usable, past its time or barred, or the signature is not its.
LEMMA KeyIsOne ==
    ASSUME NEW k, k.expires \subseteq Int, k.revoked \in BOOLEAN, NEW policy \in Policy
    PROVE  MayBeUsed(k, policy) <=> (~IsPast(k, policy) /\ (policy.allowRevoked \/ ~k.revoked))
<1>1. policy.when \in Int
  BY DEF Policy
<1>2. \A t \in k.expires : policy.when <= t <=> ~(policy.when > t)
  BY <1>1
<1>3. (policy.allowExpired \/ \A t \in k.expires : policy.when <= t) <=> ~IsPast(k, policy)
  BY <1>2 DEF IsPast
<1> QED BY <1>3 DEF MayBeUsed

LEMMA JudgesIs ==
    ASSUME NEW Id, NEW s, NEW by, NEW policy, NEW r, NEW q \in Seq(Id), NEW e \in BOOLEAN, NEW d \in BOOLEAN,
           r = [signers |-> q, expired |-> e, revoked |-> d],
           Elements(q) = {k.id : k \in Usable(s, by, policy)},
           e <=> Past(s, by, policy) # {}, d <=> Barred(s, by, policy) # {}
    PROVE  Judges(r, s, by, policy, Id)
BY DEF Judges

LEMMA CheckJudges ==
    ASSUME NEW Id, NEW k, k.id \in Id, k.expires \subseteq Int, k.revoked \in BOOLEAN,
           NEW policy \in Policy, NEW by, NEW s, NEW r, Judges(r, s, by, policy, Id),
           NEW n, n = Check(r, k, by, policy)
    PROVE  Judges(n, s \cup {k}, by, policy, Id)
<1>1. PICK use, past, bar : /\ use = Usable(s, by, policy)
                            /\ past = Past(s, by, policy)
                            /\ bar = Barred(s, by, policy)
  OBVIOUS
<1>2. MayBeUsed(k, policy) <=> (~IsPast(k, policy) /\ (policy.allowRevoked \/ ~k.revoked))
  BY KeyIsOne
<1>3. policy.allowExpired \in BOOLEAN /\ policy.allowRevoked \in BOOLEAN
  BY DEF Policy
<1>0. PICK q, e, d : q = r.signers /\ e = r.expired /\ d = r.revoked
  OBVIOUS
<1>00. /\ q \in Seq(Id) /\ e \in BOOLEAN /\ d \in BOOLEAN
       /\ r = [signers |-> q, expired |-> e, revoked |-> d]
  BY <1>0 DEF Judges
<1>01. Elements(q) = {x.id : x \in use} /\ (e <=> past # {}) /\ (d <=> bar # {})
  BY <1>0, <1>1 DEF Judges
<1>4. CASE k.id \notin by
  <2>1. n = r
    BY <1>4 DEF Check
  <2>2. /\ Usable(s \cup {k}, by, policy) = use
        /\ Past(s \cup {k}, by, policy) = past
        /\ Barred(s \cup {k}, by, policy) = bar
    BY <1>1, <1>4 DEF Usable, Past, Barred
  <2> QED BY <1>1, <2>1, <2>2 DEF Judges
<1>5. CASE k.id \in by /\ IsPast(k, policy)
  <2>1. n = [r EXCEPT !.expired = TRUE]
    BY <1>5 DEF Check, IsPast
  <2>2. /\ Usable(s \cup {k}, by, policy) = use
        /\ Past(s \cup {k}, by, policy) = past \cup {k}
        /\ Barred(s \cup {k}, by, policy) = bar
    BY <1>1, <1>2, <1>5 DEF Usable, Past, Barred
  <2>3. n = [signers |-> q, expired |-> TRUE, revoked |-> d]
    BY <1>00, <2>1
  <2>4. past \cup {k} # {}
    OBVIOUS
  <2> QED BY <1>00, <1>01, <2>2, <2>3, <2>4, JudgesIs
<1>6. CASE k.id \in by /\ ~IsPast(k, policy) /\ ~policy.allowRevoked /\ k.revoked
  <2>1. n = [r EXCEPT !.revoked = TRUE]
    BY <1>6 DEF Check, IsPast
  <2>2. /\ Usable(s \cup {k}, by, policy) = use
        /\ Past(s \cup {k}, by, policy) = past
        /\ Barred(s \cup {k}, by, policy) = bar \cup {k}
    BY <1>1, <1>2, <1>6 DEF Usable, Past, Barred
  <2>3. n = [signers |-> q, expired |-> e, revoked |-> TRUE]
    BY <1>00, <2>1
  <2>4. bar \cup {k} # {}
    OBVIOUS
  <2> QED BY <1>00, <1>01, <2>2, <2>3, <2>4, JudgesIs
<1>7. CASE k.id \in by /\ ~IsPast(k, policy) /\ ~(~policy.allowRevoked /\ k.revoked)
  <2>2. n = [r EXCEPT !.signers = Append(q, k.id)]
    BY <1>0, <1>7 DEF Check, IsPast
  <2>3. /\ Usable(s \cup {k}, by, policy) = use \cup {k}
        /\ Past(s \cup {k}, by, policy) = past
        /\ Barred(s \cup {k}, by, policy) = bar
    BY <1>1, <1>2, <1>3, <1>7 DEF Usable, Past, Barred
  <2>4. Append(q, k.id) \in Seq(Id) /\ Elements(Append(q, k.id)) = Elements(q) \cup {k.id}
    BY <1>00, ElementsAppend
  <2>5. {x.id : x \in use \cup {k}} = {x.id : x \in use} \cup {k.id}
    OBVIOUS
  <2>6. PICK p : p = Append(q, k.id)
    OBVIOUS
  <2>7. n = [signers |-> p, expired |-> e, revoked |-> d]
    BY <1>00, <2>2, <2>6
  <2>8. p \in Seq(Id) /\ Elements(p) = {x.id : x \in use \cup {k}}
    BY <1>01, <2>4, <2>5, <2>6
  <2> QED BY <1>00, <1>01, <2>3, <2>7, <2>8, JudgesIs
<1> QED BY <1>4, <1>5, <1>6, <1>7
LEMMA VerdictIs ==
    ASSUME NEW Id, NEW Cert, \A k \in Cert : k.id \in Id /\ k.expires \subseteq Int /\ k.revoked \in BOOLEAN,
           NEW policy \in Policy, NEW by, NEW keys \in Seq(Cert), NEW v, v = Verify(keys, by, policy)
    PROVE  IsVerdict(v, Elements(keys), by, policy)
<1>1. PICK m : m = Len(keys)
  OBVIOUS
<1>2. m \in Nat /\ DOMAIN keys = 1 .. m /\ \A i \in 1 .. m : keys[i] \in Cert
  BY <1>1
<1>3. PICK f : f = CheckRun(keys, by, policy, m)
  OBVIOUS
<1>4. f = CheckTo(f, keys, by, policy, m)
  BY <1>2, <1>3, CheckRuns
<1>5. \A n \in 0 .. m : f[n] = IF n = 0 THEN [signers |-> <<>>, expired |-> FALSE, revoked |-> FALSE]
                               ELSE Check(f[n - 1], keys[n], by, policy)
  <2>1. \A n \in 0 .. m : CheckTo(f, keys, by, policy, m)[n]
            = IF n = 0 THEN [signers |-> <<>>, expired |-> FALSE, revoked |-> FALSE]
              ELSE Check(f[n - 1], keys[n], by, policy)
    BY DEF CheckTo
  <2> QED BY <1>4, <2>1, Zenon
<1> DEFINE G == {n \in 0 .. m : Judges(f[n], Met(keys, n), by, policy, Id)}
<1>6. 0 \in G
  <2>1. 0 \in 0 .. m /\ f[0] = [signers |-> <<>>, expired |-> FALSE, revoked |-> FALSE]
    BY <1>2, <1>5
  <2>2. Met(keys, 0) = {}
    BY DEF Met
  <2>3. <<>> \in Seq(Id) /\ Elements(<<>>) = {}
    BY DEF Elements
  <2>4. Usable({}, by, policy) = {} /\ Past({}, by, policy) = {} /\ Barred({}, by, policy) = {}
    BY DEF Usable, Past, Barred
  <2>5. PICK q : q = <<>>
    OBVIOUS
  <2>6. Judges(f[0], {}, by, policy, Id)
    BY <2>1, <2>3, <2>4, <2>5, JudgesIs
  <2> QED BY <2>1, <2>2, <2>6
<1>7. ASSUME NEW n \in 0 .. m - 1, n \in G PROVE n + 1 \in G
  <2>1. n + 1 \in 0 .. m /\ n + 1 \in 1 .. m /\ n + 1 # 0 /\ (n + 1) - 1 = n
    BY <1>2
  <2>2. f[n + 1] = Check(f[n], keys[n + 1], by, policy)
    <3>1. f[n + 1] = Check(f[(n + 1) - 1], keys[n + 1], by, policy)
      BY <1>5, <2>1
    <3> QED BY <2>1, <3>1
  <2>3. PICK k, s, r : k = keys[n + 1] /\ s = Met(keys, n) /\ r = f[n]
    OBVIOUS
  <2>4. k.id \in Id /\ k.expires \subseteq Int /\ k.revoked \in BOOLEAN
    BY <1>2, <2>1, <2>3
  <2>5. Judges(r, s, by, policy, Id)
    BY <1>7, <2>3
  <2>6. Judges(f[n + 1], s \cup {k}, by, policy, Id)
    BY <2>2, <2>3, <2>4, <2>5, CheckJudges
  <2>7. Met(keys, n + 1) = s \cup {k}
    <3>1. 1 .. n + 1 = (1 .. n) \cup {n + 1}
      BY <1>2
    <3> QED BY <2>3, <3>1 DEF Met
  <2> QED BY <2>1, <2>6, <2>7
<1>8. 0 .. m \subseteq G
  <2>1. \A n \in 0 .. m - 1 : n \in G => n + 1 \in G
    BY <1>7
  <2> HIDE DEF G
  <2> QED BY <1>2, <1>6, <2>1, Induction
<1>9. PICK r : r = f[m]
  OBVIOUS
<1>10. Judges(r, Elements(keys), by, policy, Id)
  <2>1. m \in 0 .. m
    BY <1>2
  <2>2. Met(keys, m) = Elements(keys)
    BY <1>2 DEF Met, Elements
  <2>3. Judges(f[m], Met(keys, m), by, policy, Id)
    BY <1>8, <2>1
  <2> QED BY <1>9, <2>2, <2>3
<1>11. v = IF r.signers # <<>> THEN [is |-> "signed", by |-> r.signers]
           ELSE [is |-> IF r.expired THEN "expired" ELSE IF r.revoked THEN "revoked" ELSE "none", by |-> <<>>]
  BY <1>1, <1>3, <1>9 DEF Verify, CheckRun, CheckTo
<1>12. PICK q : q = r.signers
  OBVIOUS
<1>13. PICK use : use = Usable(Elements(keys), by, policy)
  OBVIOUS
<1>14. q \in Seq(Id) /\ Elements(q) = {k.id : k \in use}
  BY <1>10, <1>12, <1>13 DEF Judges
<1>15. q = <<>> <=> use = {}
  <2>1. q = <<>> <=> Elements(q) = {}
    BY <1>14, EmptyHasNone
  <2>2. {k.id : k \in use} = {} <=> use = {}
    OBVIOUS
  <2> QED BY <1>14, <2>1, <2>2
<1>16. v.is = Outcome(Elements(keys), by, policy)
  BY <1>10, <1>11, <1>12, <1>13, <1>15 DEF Judges, Outcome
<1>17. v.by = q
  BY <1>11, <1>12
<1> QED BY <1>13, <1>14, <1>16, <1>17 DEF IsVerdict

-----------------------------------------------------------------------------
(* A directory with a file for each key, and damaged ones before them.     *)

MergedTo(f, files, m) ==
    [n \in 0 .. m |->
        IF n = 0 THEN <<>>
        ELSE IF files[n].ext \notin {"gpg", "asc"} \/ LoadBytes(files[n].data) = {} THEN f[n - 1]
        ELSE f[n - 1] \o Loaded(files[n].data)]
MergedRun(files, m) == CHOOSE f : f = MergedTo(f, files, m)

LEMMA MergedRuns ==
    ASSUME NEW files, NEW m \in Nat
    PROVE  MergedRun(files, m) = MergedTo(MergedRun(files, m), files, m)
<1> DEFINE G == {k \in 0 .. m : \E f : f = MergedTo(f, files, k)}
<1>1. 0 \in G
  <2> DEFINE z == [i \in 0 .. 0 |-> <<>>]
  <2>1. z = MergedTo(z, files, 0)
    BY DEF MergedTo
  <2> QED BY <2>1
<1>2. ASSUME NEW k \in 0 .. m - 1, k \in G PROVE k + 1 \in G
  <2>1. PICK f : f = MergedTo(f, files, k)
    BY <1>2
  <2> DEFINE g == [i \in 0 .. k + 1 |->
                      IF i = 0 THEN <<>>
                      ELSE IF files[i].ext \notin {"gpg", "asc"} \/ LoadBytes(files[i].data) = {} THEN f[i - 1]
                      ELSE f[i - 1] \o Loaded(files[i].data)]
  <2>2. \A i \in 0 .. k : g[i] = f[i]
    <3>1. \A i \in 0 .. k : g[i] = MergedTo(f, files, k)[i]
      BY DEF MergedTo
    <3> QED BY <2>1, <3>1, Zenon
  <2>3. \A i \in 0 .. k + 1 : i # 0 => i - 1 \in 0 .. k
    OBVIOUS
  <2>4. g = MergedTo(g, files, k + 1)
    BY <2>2, <2>3 DEF MergedTo
  <2> QED BY <2>4
<1>3. m \in G
  <2>1. \A k \in 0 .. m - 1 : k \in G => k + 1 \in G
    BY <1>2
  <2> HIDE DEF G
  <2> QED BY <1>1, <2>1, Induction
<1> QED BY <1>3 DEF MergedRun

LEMMA LoadedOne ==
    ASSUME NEW k
    PROVE  /\ k # Junk => Loaded(<<k>>) = <<k>> /\ LoadBytes(<<k>>) # {}
           /\ k = Junk => LoadBytes(<<k>>) = {}
<1>1. PICK T : T = {k}
  OBVIOUS
<1>2. PICK data : data = <<k>>
  OBVIOUS
<1>3. data \in Seq(T) /\ Elements(data) = {k} /\ data # <<>>
  BY <1>1, <1>2 DEF Elements
<1>4. LoadBytes(data) = IF Loaded(data) = <<>> THEN {} ELSE {Loaded(data)}
  BY <1>3, LoadedIs
<1>5. k # Junk => Loaded(data) = data
  BY <1>3, LoadedIs
<1>6. k = Junk => Loaded(data) = <<>>
  <2>1. k = Junk => Elements(data) \cap (Elements(data) \ {Junk}) = {}
    BY <1>3
  <2> QED BY <1>3, <2>1, OnlyNone DEF Loaded
<1> QED BY <1>2, <1>3, <1>4, <1>5, <1>6

IsConcat(c, a, b) ==
    /\ Len(c) = Len(a) + Len(b)
    /\ \A i \in 1 .. Len(a) + Len(b) : c[i] = IF i <= Len(a) THEN a[i] ELSE b[i - Len(a)]
LEMMA ConcatIs ==
    ASSUME NEW T, NEW a \in Seq(T), NEW b \in Seq(T)
    PROVE  IsConcat(a \o b, a, b)
BY DEF IsConcat

LEMMA DirectoryIsKeys ==
    ASSUME NEW Cert, Junk \notin Cert, NEW keys \in Seq(Cert),
           NEW files, files = Damaged \o [i \in DOMAIN keys |-> [ext |-> "gpg", data |-> <<keys[i]>>]]
    PROVE  LoadDir(files) = keys
<1>1. PICK m : m = Len(keys)
  OBVIOUS
<1>2. m \in Nat /\ DOMAIN keys = 1 .. m /\ \A i \in 1 .. m : keys[i] \in Cert
  BY <1>1
<1>3. PICK own : own = [i \in 1 .. m |-> [ext |-> "gpg", data |-> <<keys[i]>>]]
  OBVIOUS
<1>4. PICK a, b : a = [ext |-> "asc", data |-> <<Junk>>] /\ b = [ext |-> "kbx", data |-> <<Junk>>]
  OBVIOUS
<1>5. PICK File : File = {own[i] : i \in 1 .. m} \cup {a, b}
  OBVIOUS
<1>6. own \in Seq(File) /\ Len(own) = m
  <2>1. own \in [1 .. m -> File]
    BY <1>3, <1>5
  <2> QED BY <1>2, <2>1
<1>7. PICK two : two = <<a, b>>
  OBVIOUS
<1>8. two \in Seq(File) /\ Len(two) = 2 /\ two[1] = a /\ two[2] = b /\ files = two \o own
  <2>1. a \in File /\ b \in File
    BY <1>5
  <2>2. two \in Seq(File) /\ Len(two) = 2 /\ two[1] = a /\ two[2] = b
    BY <1>7, <2>1
  <2>3. files = two \o own
    BY <1>2, <1>3, <1>4, <1>7 DEF Damaged
  <2> QED BY <2>2, <2>3
<1>9. Len(files) = m + 2 /\ files[1] = a /\ files[2] = b /\ \A i \in 1 .. m : files[i + 2] = own[i]
  <2>1. Len(files) = 2 + m /\ \A i \in 1 .. 2 + m : files[i] = IF i <= 2 THEN two[i] ELSE own[i - 2]
    <3>1. IsConcat(two \o own, two, own)
      BY <1>6, <1>8, ConcatIs
    <3> QED BY <1>6, <1>8, <3>1 DEF IsConcat
  <2>2. 1 \in 1 .. 2 + m /\ 2 \in 1 .. 2 + m /\ 1 <= 2 /\ 2 <= 2 /\ 2 + m = m + 2
    BY <1>2
  <2>3. \A i \in 1 .. m : i + 2 \in 1 .. 2 + m /\ ~(i + 2 <= 2) /\ (i + 2) - 2 = i
    BY <1>2
  <2>4. files[1] = a /\ files[2] = b
    BY <1>8, <2>1, <2>2
  <2>5. \A i \in 1 .. m : files[i + 2] = own[i]
    BY <2>1, <2>3
  <2> QED BY <2>1, <2>2, <2>4, <2>5
<1>10. PICK f : f = MergedRun(files, m + 2)
  OBVIOUS
<1>11. f = MergedTo(f, files, m + 2)
  BY <1>2, <1>10, MergedRuns
<1>12. \A n \in 0 .. m + 2 :
           f[n] = IF n = 0 THEN <<>>
                  ELSE IF files[n].ext \notin {"gpg", "asc"} \/ LoadBytes(files[n].data) = {} THEN f[n - 1]
                  ELSE f[n - 1] \o Loaded(files[n].data)
  <2>1. \A n \in 0 .. m + 2 :
            MergedTo(f, files, m + 2)[n]
                = IF n = 0 THEN <<>>
                  ELSE IF files[n].ext \notin {"gpg", "asc"} \/ LoadBytes(files[n].data) = {} THEN f[n - 1]
                  ELSE f[n - 1] \o Loaded(files[n].data)
    BY DEF MergedTo
  <2> QED BY <1>11, <2>1, Zenon
<1>120. f[0] = <<>>
  <2>1. 0 \in 0 .. m + 2
    BY <1>2
  <2> QED BY <1>12, <2>1, Zenon
<1>121. \A n \in 0 .. m + 1 :
           f[n + 1] = IF files[n + 1].ext \notin {"gpg", "asc"} \/ LoadBytes(files[n + 1].data) = {} THEN f[n]
                      ELSE f[n] \o Loaded(files[n + 1].data)
  <2> SUFFICES ASSUME NEW n \in 0 .. m + 1
               PROVE  f[n + 1] = IF files[n + 1].ext \notin {"gpg", "asc"} \/ LoadBytes(files[n + 1].data) = {} THEN f[n]
                                 ELSE f[n] \o Loaded(files[n + 1].data)
    OBVIOUS
  <2>1. n + 1 \in 0 .. m + 2 /\ n + 1 # 0 /\ (n + 1) - 1 = n
    BY <1>2
  <2>2. f[n + 1] = IF files[n + 1].ext \notin {"gpg", "asc"} \/ LoadBytes(files[n + 1].data) = {} THEN f[(n + 1) - 1]
                   ELSE f[(n + 1) - 1] \o Loaded(files[n + 1].data)
    BY <1>12, <2>1
  <2> QED BY <2>1, <2>2
<1> DEFINE G == {n \in 0 .. m : f[n + 2] = SubSeq(keys, 1, n)}
<1>13. 0 \in G
  <2>1. PICK z, o, t : z = 0 /\ o = z + 1 /\ t = o + 1
    OBVIOUS
  <2>2. z \in 0 .. m + 1 /\ o \in 0 .. m + 1 /\ o = 1 /\ t = 2
    BY <1>2, <2>1
  <2>3. LoadBytes(a.data) = {} /\ b.ext \notin {"gpg", "asc"}
    BY <1>4, LoadedOne
  <2>4. f[z + 1] = f[z]
    <3>1. files[z + 1] = a
      BY <1>9, <2>1, <2>2
    <3> QED BY <1>121, <2>2, <2>3, <3>1
  <2>5. f[o + 1] = f[o]
    <3>1. files[o + 1] = b
      BY <1>9, <2>1, <2>2
    <3> QED BY <1>121, <2>2, <2>3, <3>1
  <2>6. f[2] = <<>>
    BY <1>120, <2>1, <2>2, <2>4, <2>5
  <2>7. SubSeq(keys, 1, 0) = <<>>
    OBVIOUS
  <2>8. 0 \in 0 .. m /\ 0 + 2 = 2
    BY <1>2
  <2> QED BY <2>6, <2>7, <2>8
<1>14. ASSUME NEW n \in 0 .. m - 1, n \in G PROVE n + 1 \in G
  <2>1. n + 1 \in 0 .. m /\ n + 1 \in 1 .. m /\ n \in 0 .. m /\ (n + 1) + 2 \in 0 .. m + 2 /\ (n + 1) + 2 # 0 /\ ((n + 1) + 2) - 1 = n + 2
    BY <1>2
  <2>2. PICK k, d, file : k = keys[n + 1] /\ d = <<k>> /\ file = files[(n + 1) + 2]
    OBVIOUS
  <2>3. file.ext = "gpg" /\ file.data = d
    <3>1. file = own[n + 1]
      BY <1>9, <2>1, <2>2
    <3>2. own[n + 1] = [ext |-> "gpg", data |-> <<keys[n + 1]>>]
      BY <1>3, <2>1
    <3>3. file = [ext |-> "gpg", data |-> d]
      BY <2>2, <3>1, <3>2
    <3> QED BY <3>3
  <2>4. k # Junk
    BY <1>2, <2>1, <2>2
  <2>5. Loaded(d) = d /\ LoadBytes(d) # {}
    BY <2>2, <2>4, LoadedOne
  <2>6. f[(n + 1) + 2] = IF file.ext \notin {"gpg", "asc"} \/ LoadBytes(file.data) = {} THEN f[n + 2]
                         ELSE f[n + 2] \o Loaded(file.data)
    <3>1. f[(n + 1) + 2] = IF file.ext \notin {"gpg", "asc"} \/ LoadBytes(file.data) = {} THEN f[((n + 1) + 2) - 1]
                           ELSE f[((n + 1) + 2) - 1] \o Loaded(file.data)
      BY <1>12, <2>1, <2>2
    <3> QED BY <2>1, <3>1
  <2>7. f[(n + 1) + 2] = f[n + 2] \o d
    BY <2>3, <2>5, <2>6
  <2>8. SubSeq(keys, 1, n + 1) = Append(SubSeq(keys, 1, n), k)
    BY <1>1, <1>2, <2>1, <2>2
  <2>9. PICK q : q = SubSeq(keys, 1, n) /\ q \in Seq(Cert)
    <3>1. n \in Int /\ 1 \in Int /\ \A i \in 1 .. n : keys[i] \in Cert
      BY <1>2, <2>1
    <3>2. SubSeq(keys, 1, n) \in Seq(Cert)
      BY <3>1, SubSeqProperties
    <3> QED BY <3>2
  <2>10. Append(q, k) = q \o <<k>>
    BY <1>2, <2>1, <2>2, <2>9
  <2> QED BY <1>14, <2>1, <2>2, <2>7, <2>8, <2>9, <2>10
<1>15. 0 .. m \subseteq G
  <2>1. \A n \in 0 .. m - 1 : n \in G => n + 1 \in G
    BY <1>14
  <2> HIDE DEF G
  <2> QED BY <1>2, <1>13, <2>1, Induction
<1>16. f[m + 2] = SubSeq(keys, 1, m)
  <2>1. m \in 0 .. m
    BY <1>2
  <2> QED BY <1>15, <2>1
<1>17. SubSeq(keys, 1, m) = keys
  BY <1>1
<1>18. LoadDir(files) = f[m + 2]
  BY <1>9, <1>10 DEF LoadDir, MergedRun, MergedTo, Loaded
<1> QED BY <1>16, <1>17, <1>18

\* VerdictIsOrderFree (Keyring), for every keyring, signature and policy:
\* whether a signature is accepted, by whom, and why it is not, depends on
\* the set of the keys alone; a damaged file hides no key
\* (crates/tpt-l-apt-keyring/src/lib.rs 259-414).
LEMMA VerdictsAreOrderFree ==
    ASSUME NEW Id, NEW Cert, Junk \notin Cert,
           \A k \in Cert : k.id \in Id /\ k.expires \subseteq Int /\ k.revoked \in BOOLEAN,
           NEW keys \in Seq(Cert), NEW by, NEW policy \in Policy
    PROVE  VerdictIsOrderFree(keys, by, policy)
<1>1. PICK v : v = Verify(keys, by, policy)
  OBVIOUS
<1>2. IsVerdict(v, Elements(keys), by, policy)
  BY <1>1, VerdictIs
<1>3. Elements(v.by) = {k.id : k \in {x \in Elements(keys) : x.id \in by /\ MayBeUsed(x, policy)}}
  BY <1>2 DEF IsVerdict, Usable
<1>4. ASSUME NEW p \in Bijection(DOMAIN keys, DOMAIN keys), NEW w, w = Verify([i \in DOMAIN keys |-> keys[p[i]]], by, policy)
      PROVE  w.is = v.is /\ Elements(w.by) = Elements(v.by)
  <2>1. PICK m : m = Len(keys)
    OBVIOUS
  <2>2. m \in Nat /\ DOMAIN keys = 1 .. m /\ \A i \in 1 .. m : keys[i] \in Cert
    BY <2>1
  <2>3. p \in [1 .. m -> 1 .. m] /\ \A j \in 1 .. m : \E i \in 1 .. m : p[i] = j
    BY <2>2 DEF Bijection, Surjection
  <2>4. PICK turned : turned = [i \in 1 .. m |-> keys[p[i]]]
    OBVIOUS
  <2>5. turned \in Seq(Cert) /\ DOMAIN turned = 1 .. m
    <3>1. turned \in [1 .. m -> Cert]
      BY <2>2, <2>3, <2>4
    <3> QED BY <2>2, <3>1
  <2>6. Elements(turned) = Elements(keys)
    BY <2>2, <2>3, <2>4, <2>5 DEF Elements
  <2>7. w = Verify(turned, by, policy)
    BY <1>4, <2>2, <2>4
  <2>8. IsVerdict(w, Elements(turned), by, policy)
    BY <2>5, <2>7, VerdictIs
  <2> QED BY <1>2, <2>6, <2>8 DEF IsVerdict
<1>5. PICK files : files = Damaged \o [i \in DOMAIN keys |-> [ext |-> "gpg", data |-> <<keys[i]>>]]
  OBVIOUS
<1>6. LoadDir(files) = keys
  BY <1>5, DirectoryIsKeys
<1> QED BY <1>1, <1>3, <1>4, <1>5, <1>6 DEF VerdictIsOrderFree

\* KeyringIsKept (Keyring), for every set of certificates, of series of
\* additions and removals, of keyrings, signatures and policies.
THEOREM KeyringsAreKept == KeyringSpec => []KeyringIsKept
<1>1. NoInput => KeyringIsKept
  BY DEF NoInput, KeyringIsKept
<1>2. KeyringIsKept /\ [ChangeKeyring \/ VerifySigned \/ Elsewhere({"keyring", "verify"})]_inputVars => KeyringIsKept'
  <2>1. Junk \notin Certs /\ \A x \in Certs : x.id \in Ids /\ x.expires \subseteq Int /\ x.revoked \in BOOLEAN
    BY KeyringAssumption
  <2>2. ASSUME ChangeKeyring PROVE KeyringIsKept'
    <3>1. PICK ops \in Histories : Take("keyring", ops)
      BY <2>2 DEF ChangeKeyring
    <3>2. ops \in Seq([add : BOOLEAN, data : Seq(Certs \cup {Junk}), id : Ids])
      BY KeyringAssumption
    <3>3. "junk" \notin Ids
      BY KeyringAssumption DEF Junk
    <3>4. AddedAreKept(ops, Ids)
      BY <2>1, <3>2, <3>3, KeysAreKept
    <3>5. part' = "keyring" /\ input' = ops
      BY <3>1 DEF Take
    <3> QED BY <3>4, <3>5 DEF KeyringIsKept
  <2>3. ASSUME VerifySigned PROVE KeyringIsKept'
    <3>1. PICK keys \in Rings, by \in Signers, policy \in Policies :
             Take("verify", [keys |-> keys, by |-> by, policy |-> policy])
      BY <2>3 DEF VerifySigned
    <3>2. keys \in Seq(Certs) /\ policy \in Policy
      BY KeyringAssumption DEF Policy
    <3>3. VerdictIsOrderFree(keys, by, policy)
      BY <2>1, <3>2, VerdictsAreOrderFree
    <3>4. part' = "verify" /\ input'.keys = keys /\ input'.by = by /\ input'.policy = policy
      BY <3>1 DEF Take
    <3> QED BY <3>3, <3>4 DEF KeyringIsKept
  <2>4. ASSUME Elsewhere({"keyring", "verify"}) PROVE KeyringIsKept'
    BY <2>4 DEF Elsewhere, KeyringIsKept
  <2>5. ASSUME KeyringIsKept, UNCHANGED inputVars PROVE KeyringIsKept'
    BY <2>5 DEF inputVars, KeyringIsKept
  <2> QED BY <2>2, <2>3, <2>4, <2>5
<1> QED BY <1>1, <1>2, PTL DEF KeyringSpec
=============================================================================

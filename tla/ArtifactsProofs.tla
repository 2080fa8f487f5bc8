--------------------------- MODULE ArtifactsProofs ---------------------------
(***************************************************************************)
(* Artifacts for every set of ids, contents and tickers and any number of  *)
(* failures: no upload races the end of its run, bytes without a record    *)
(* are the work of a failure, an answered reference can be read, and no    *)
(* altered bytes are served whole.                                         *)
(***************************************************************************)
EXTENDS Artifacts, SequenceTheorems, TLAPS

Reader == [expects : Contents, bytes : Bytes, seen : Nat, served : Bytes]

\* TypeOK, and what TLC cannot enumerate: the blobs and the reader are of their types.
Sound == ArtifactsTypeOK /\ blobs \in [Ids -> Maybe(Bytes)] /\ download \in Maybe(Reader)

\* The bytes and the record of an upload, at each of its stages.
Owned(a) ==
    /\ uploads[a].stage \in {"none", "streams"} => blobs[a] = None /\ rows[a] = None
    /\ uploads[a].stage # "none" => uploads[a].content \in Contents
    /\ uploads[a].stage \in {"stored", "checked"} => blobs[a] # None
    /\ rows[a] # None => /\ rows[a].content = uploads[a].content
                         /\ uploads[a].stage \in {"undoes", "answered", "failed"}

\* From its check to its commit an upload holds the row of a run that is open.
Holding(a) == uploads[a].stage = "checked" => lock = a /\ phase = "open"

\* Stored bytes are never longer than what was uploaded.
Fits(a) == blobs[a] # None => Len(blobs[a]) <= Len(uploads[a].content)

\* A purge works on a run whose retention is over, and on uploads that are done with.
Purging(k) ==
    purges[k] # None => /\ phase = "over"
                        /\ \A a \in purges[k].todo \cup purges[k].gone :
                               uploads[a].stage \in {"undoes", "answered", "failed"}
                        /\ \A a \in purges[k].gone : blobs[a] = None

\* A record whose commit was answered has its bytes until the retention is over.
Kept(a) ==
    rows[a] # None /\ a \notin doubted /\ phase # "over" =>
        uploads[a].stage = "answered" /\ blobs[a] # None

\* The record that a repeat, or an upload, is about to answer or has answered.
Answers(a) ==
    uploads[a].stage \in {"drops", "answered"} =>
        /\ uploads[a].ref \in Ids
        /\ phase # "over" => /\ rows[uploads[a].ref] # None
                             /\ rows[uploads[a].ref].content = uploads[a].content

\* A download serves all of what it expects, or less.
Serving ==
    download # None =>
        /\ Len(download.bytes) <= Len(download.expects) /\ download.seen <= Len(download.bytes)
        /\ download.served = download.expects \/ Len(download.served) < Len(download.expects)

------------------------------------------------------------------------------
LEMMA ContentIsBytes ==
    ASSUME NEW c \in Contents
    PROVE  c \in Bytes /\ c # None /\ Len(c) \in Nat \ {0}
<1>1. c \in Seq({c[i] : i \in DOMAIN c}) /\ c # <<>> /\ None \notin Contents
  BY ArtifactsAssumption
<1>2. c \in Seq({c[i] : i \in DOMAIN c} \cup {Bad})
  BY <1>1
<1>3. c \in Bytes
  BY <1>2 DEF Bytes
<1>4. Len(c) \in Nat /\ Len(c) # 0
  BY <1>1
<1> QED
  BY <1>1, <1>3, <1>4

LEMMA BytesAltered ==
    ASSUME NEW b \in Bytes
    PROVE  /\ b # None /\ Len(b) \in Nat /\ DOMAIN b = 1..Len(b) /\ <<>> \in Bytes
           /\ \A i \in DOMAIN b : /\ [b EXCEPT ![i] = Bad] \in Bytes
                                  /\ Len([b EXCEPT ![i] = Bad]) = Len(b)
           /\ \A n \in 0..Len(b) : SubSeq(b, 1, n) \in Bytes /\ Len(SubSeq(b, 1, n)) = n
<1>1. PICK c \in Contents : b \in Seq({c[i] : i \in DOMAIN c} \cup {Bad})
  BY DEF Bytes
<1> DEFINE S == {c[i] : i \in DOMAIN c} \cup {Bad}
<1>2. b \in Seq(S) /\ Bad \in S
  BY <1>1
<1>3. Seq(S) \subseteq Bytes
  BY DEF Bytes
<1> HIDE DEF S
<1>4. ASSUME NEW i \in DOMAIN b
      PROVE  [b EXCEPT ![i] = Bad] \in Seq(S) /\ Len([b EXCEPT ![i] = Bad]) = Len(b)
  BY <1>2
<1>5. ASSUME NEW n \in 0..Len(b)
      PROVE  SubSeq(b, 1, n) \in Seq(S) /\ Len(SubSeq(b, 1, n)) = n
  BY <1>2
<1>6. b # None
  BY ArtifactsAssumption
<1>7. Len(b) \in Nat /\ DOMAIN b = 1..Len(b) /\ <<>> \in Seq(S)
  BY <1>2
<1> QED
  BY <1>3, <1>4, <1>5, <1>6, <1>7

\* Goes moves one upload to a stage and changes nothing else of it.
LEMMA Moved ==
    ASSUME uploads \in [Ids -> Upload], NEW a \in Ids,
           NEW stage \in {"none", "streams", "stored", "checked", "drops", "undoes",
                          "answered", "failed"},
           Goes(a, stage)
    PROVE  /\ uploads' \in [Ids -> Upload]
           /\ uploads'[a].stage = stage
           /\ uploads'[a].content = uploads[a].content /\ uploads'[a].ref = uploads[a].ref
           /\ \A b \in Ids : b # a => uploads'[b] = uploads[b]
  BY DEF Goes, Upload

LEMMA MaybeIn ==
    ASSUME NEW S, NEW x \in Maybe(S), x # None
    PROVE  x \in S
  BY DEF Maybe

\* Added keeps every record, and the new one is of the upload's content.
LEMMA AddedRows ==
    ASSUME rows \in [Ids -> Maybe(Record)], NEW a \in Ids, uploads[a].content \in Contents
    PROVE  /\ WithRow(a) \in [Ids -> Maybe(Record)]
           /\ \A b \in Ids : b # a => WithRow(a)[b] = rows[b]
           /\ Stored(a) # {} => WithRow(a) = rows
           /\ Stored(a) = {} => /\ WithRow(a)[a] # None
                                /\ WithRow(a)[a].content = uploads[a].content
<1> DEFINE r == [content |-> uploads[a].content, expires |-> FALSE]
<1>0. r \in Record /\ r.content = uploads[a].content
  BY DEF Record
<1> HIDE DEF r
<1>1. r \in Record /\ r # None /\ r.content = uploads[a].content
  BY <1>0, ArtifactsAssumption
<1>2. CASE Stored(a) # {}
  BY <1>2 DEF WithRow
<1>3. CASE Stored(a) = {}
  <2>1. WithRow(a) = [rows EXCEPT ![a] = r]
    BY <1>3 DEF WithRow, r
  <2> QED
    BY <2>1, <1>1, <1>3 DEF Maybe
<1> QED
  BY <1>2, <1>3

\* The purge's own records: a ticker that goes on holds fewer rows to do.
LEMMA TickTyped ==
    ASSUME purges \in [Purgers -> Maybe(PurgeTick)], NEW k \in Purgers, purges[k] # None
    PROVE  /\ purges[k].todo \subseteq Ids /\ purges[k].gone \subseteq Ids
           /\ [purges EXCEPT ![k] = None] \in [Purgers -> Maybe(PurgeTick)]
           /\ \A a \in Ids :
                  /\ [purges EXCEPT ![k].todo = @ \ {a}] \in [Purgers -> Maybe(PurgeTick)]
                  /\ [purges EXCEPT ![k].todo = @ \ {a}, ![k].gone = @ \cup {a}]
                         \in [Purgers -> Maybe(PurgeTick)]
<1>1. purges[k] \in PurgeTick
  BY MaybeIn
<1> QED
  BY <1>1 DEF PurgeTick, Maybe

LEMMA FaultTyped ==
    ASSUME faults \in 0..MaxFaults, Fault
    PROVE  faults' \in 0..MaxFaults
  BY ArtifactsAssumption DEF Fault

\* Corruption leaves bytes in place of the bytes, and no more of them.
LEMMA Corrupted ==
    ASSUME blobs \in [Ids -> Maybe(Bytes)], NEW a \in Ids, Corrupt(a)
    PROVE  \E b \in Bytes : Len(b) <= Len(blobs[a]) /\ blobs' = [blobs EXCEPT ![a] = b]
<1>1. blobs[a] \in Bytes
  BY MaybeIn DEF Corrupt
<1>2. CASE \E i \in DOMAIN blobs[a] : blobs' = [blobs EXCEPT ![a][i] = Bad]
  <2>1. PICK i \in DOMAIN blobs[a] : blobs' = [blobs EXCEPT ![a][i] = Bad]
    BY <1>2
  <2>2. blobs' = [blobs EXCEPT ![a] = [blobs[a] EXCEPT ![i] = Bad]]
    BY <2>1
  <2>3. /\ [blobs[a] EXCEPT ![i] = Bad] \in Bytes
        /\ Len([blobs[a] EXCEPT ![i] = Bad]) = Len(blobs[a]) /\ Len(blobs[a]) \in Nat
    BY <1>1, BytesAltered
  <2> DEFINE b == [blobs[a] EXCEPT ![i] = Bad]
  <2>4. b \in Bytes /\ Len(b) <= Len(blobs[a]) /\ blobs' = [blobs EXCEPT ![a] = b]
    <3> HIDE DEF b
    <3>1. b \in Bytes /\ Len(b) = Len(blobs[a]) /\ Len(blobs[a]) \in Nat
      BY <2>3 DEF b
    <3>2. blobs' = [blobs EXCEPT ![a] = b]
      BY <2>2 DEF b
    <3> QED
      BY <3>1, <3>2
  <2> HIDE DEF b
  <2> QED
    BY <2>4
<1>3. CASE \E n \in 0..(Len(blobs[a]) - 1) : blobs' = [blobs EXCEPT ![a] = SubSeq(@, 1, n)]
  <2>1. PICK n \in 0..(Len(blobs[a]) - 1) : blobs' = [blobs EXCEPT ![a] = SubSeq(@, 1, n)]
    BY <1>3
  <2>2. n \in 0..Len(blobs[a]) /\ n <= Len(blobs[a])
    BY <1>1, BytesAltered
  <2> QED
    BY <2>1, <2>2, <1>1, BytesAltered
<1> QED
  BY <1>2, <1>3 DEF Corrupt

LEMMA SoundKept ==
    ASSUME Sound, \A a \in Ids : Owned(a), Serving, ArtifactsNext
    PROVE  Sound'
<1> USE DEF Sound, ArtifactsTypeOK
<1>1. ASSUME NEW a \in Ids, UploadStep(a)  PROVE Sound'
  <2>0. uploads[a].stage # "none" => uploads[a].content \in Contents /\ uploads[a].content \in Bytes
    BY ContentIsBytes DEF Owned
  <2>1. CASE Begin(a)
    <3>1. PICK c \in Contents :
             uploads' = [uploads EXCEPT ![a].stage = "streams", ![a].content = c]
      BY <2>1 DEF Begin
    <3>2. uploads[a] \in Upload
      OBVIOUS
    <3>3. [uploads[a] EXCEPT !.stage = "streams", !.content = c] \in Upload
      BY <3>2 DEF Upload, Maybe
    <3>4. uploads' = [uploads EXCEPT ![a] = [uploads[a] EXCEPT !.stage = "streams", !.content = c]]
      BY <3>1
    <3>5. uploads' \in [Ids -> Upload]
      BY <3>3, <3>4
    <3> QED
      BY <3>5, <2>1 DEF Begin
  <2>2. CASE Put(a)
    <3>1. uploads' \in [Ids -> Upload]
      BY <2>2, Moved DEF Put
    <3>2. blobs' \in [Ids -> Maybe(Bytes)]
      BY <2>2, <2>0 DEF Put, Maybe
    <3> QED
      BY <3>1, <3>2, <2>2, MaybeIn DEF Put
  <2>3. CASE BodyFails(a) \/ Mismatch(a) \/ Check(a)
    <3>1. uploads' \in [Ids -> Upload]
      BY <2>3, Moved DEF BodyFails, Mismatch, Check
    <3> QED
      BY <3>1, <2>3 DEF BodyFails, Mismatch, Check, Maybe
  <2>4. CASE PutAnswerLost(a)
    <3>1. uploads' \in [Ids -> Upload]
      BY <2>4, Moved DEF PutAnswerLost
    <3>2. blobs' \in [Ids -> Maybe(Bytes)]
      BY <2>4, <2>0 DEF PutAnswerLost, Maybe
    <3> QED
      BY <3>1, <3>2, <2>4, MaybeIn, FaultTyped DEF PutAnswerLost
  <2>5. CASE Commit(a)
    <3>1. rows' \in [Ids -> Maybe(Record)]
      BY <2>5, <2>0, AddedRows DEF Commit
    <3>2. uploads' \in [Ids -> Upload]
      <4> DEFINE s == IF Stored(a) = {} THEN "answered" ELSE "drops"
                 r == IF Stored(a) = {} THEN a ELSE CHOOSE b \in Stored(a) : TRUE
      <4>1. r \in Ids
        BY DEF Stored
      <4>2. uploads' = [uploads EXCEPT ![a].stage = s, ![a].ref = r]
        BY <2>5 DEF Commit
      <4>3. s \in {"answered", "drops"}
        OBVIOUS
      <4> HIDE DEF s, r
      <4>4. uploads[a] \in Upload
        OBVIOUS
      <4>5. [uploads[a] EXCEPT !.stage = s, !.ref = r] \in Upload
        BY <4>1, <4>3, <4>4 DEF Upload, Maybe
      <4>6. uploads' = [uploads EXCEPT ![a] = [uploads[a] EXCEPT !.stage = s, !.ref = r]]
        BY <4>2
      <4> QED
        BY <4>5, <4>6
    <3> QED
      BY <3>1, <3>2, <2>5 DEF Commit, Unlocked, Maybe
  <2>6. CASE CommitFails(a)
    <3>1. rows' \in [Ids -> Maybe(Record)]
      BY <2>6, <2>0, AddedRows DEF CommitFails
    <3>2. uploads' \in [Ids -> Upload]
      BY <2>6, Moved DEF CommitFails
    <3> QED
      BY <3>1, <3>2, <2>6, FaultTyped DEF CommitFails, Unlocked, Maybe
  <2>7. CASE DropDuplicate(a) \/ Undo(a)
    <3>1. uploads' \in [Ids -> Upload]
      BY <2>7, Moved DEF DropDuplicate, Undo
    <3>2. blobs' \in [Ids -> Maybe(Bytes)]
      BY <2>7 DEF DropDuplicate, Undo, Deleted, Maybe
    <3> QED
      BY <3>1, <3>2, <2>7, MaybeIn DEF DropDuplicate, Undo, Unlocked, Maybe
  <2>8. CASE Abandon(a)
    <3>1. uploads' \in [Ids -> Upload]
      BY <2>8, Moved DEF Abandon
    <3> QED
      BY <3>1, <2>8, FaultTyped DEF Abandon, Unlocked, Maybe
  <2> QED
    BY <1>1, <2>1, <2>2, <2>3, <2>4, <2>5, <2>6, <2>7, <2>8 DEF UploadStep
<1>2. ASSUME NEW a \in Ids, Download(a)  PROVE Sound'
  <2>1. rows[a] \in Record /\ blobs[a] \in Bytes
    BY <1>2, MaybeIn DEF Download
  <2>2. rows[a].content \in Contents
    BY <2>1 DEF Record
  <2>3. <<>> \in Bytes /\ Len(blobs[a]) \in Nat
    BY <2>1, BytesAltered
  <2> QED
    BY <1>2, <2>1, <2>2, <2>3 DEF Download, Reader, Maybe
<1>3. ASSUME NEW a \in Ids, Corrupt(a)  PROVE Sound'
  <2>1. blobs[a] \in Bytes
    BY <1>3, MaybeIn DEF Corrupt
  <2>2. PICK b \in Bytes : blobs' = [blobs EXCEPT ![a] = b]
    BY <1>3, Corrupted DEF Sound
  <2>3. blobs' \in [Ids -> Maybe(Bytes)]
    BY <2>2 DEF Maybe
  <2> QED
    BY <1>3, <2>3, MaybeIn, FaultTyped DEF Corrupt
<1>4. ASSUME NEW k \in Purgers, Purge(k)  PROVE Sound'
  <2>1. CASE Expired(k)
    BY <2>1 DEF Expired, PurgeTick, Maybe
  <2>2. CASE RemoveRows(k)
    BY <2>2, TickTyped DEF RemoveRows, Maybe
  <2>3. CASE PurgeFails(k)
    BY <2>3, TickTyped, FaultTyped DEF PurgeFails
  <2>4. ASSUME NEW a \in Ids, DeleteBlob(k, a)  PROVE Sound'
    <3>1. blobs' \in [Ids -> Maybe(Bytes)]
      BY <2>4 DEF DeleteBlob, Deleted, Maybe
    <3> QED
      BY <3>1, <2>4, TickTyped, MaybeIn DEF DeleteBlob
  <2>5. ASSUME NEW a \in Ids, DeleteFails(k, a)  PROVE Sound'
    <3>1. blobs' \in [Ids -> Maybe(Bytes)]
      BY <2>5 DEF DeleteFails, Deleted, Maybe
    <3> QED
      BY <3>1, <2>5, TickTyped, MaybeIn, FaultTyped DEF DeleteFails
  <2> QED
    BY <1>4, <2>1, <2>2, <2>3, <2>4, <2>5 DEF Purge
<1>5. ASSUME EndRun  PROVE Sound'
  <2>1. ASSUME NEW a \in Ids, rows[a] # None  PROVE [rows[a] EXCEPT !.expires = TRUE] \in Record
    <3>1. rows[a] \in Record
      BY <2>1, MaybeIn
    <3> QED
      BY <3>1 DEF Record
  <2> QED
    BY <1>5, <2>1 DEF EndRun, Maybe
<1>6. ASSUME RetentionOver  PROVE Sound'
  BY <1>6 DEF RetentionOver
<1>7. ASSUME Read  PROVE Sound'
  <2>1. download \in Reader
    BY <1>7, MaybeIn DEF Read
  <2>2. /\ download.bytes \in Bytes /\ download.seen \in Nat /\ Len(download.bytes) \in Nat
        /\ download.expects \in Contents
        /\ \A n \in 0..Len(download.bytes) : SubSeq(download.bytes, 1, n) \in Bytes
    BY <2>1, BytesAltered DEF Reader
  <2>3. CASE NextChunk(download)
    <3>1. download' = [download EXCEPT !.seen = download.seen + 1,
                                     !.served = SubSeq(download.bytes, 1, download.seen)]
      BY <2>1, <2>3 DEF NextChunk, Reader
    <3>2. SubSeq(download.bytes, 1, download.seen) \in Bytes /\ download.seen + 1 \in 0..Len(download.bytes)
      BY <2>2, <2>3 DEF NextChunk
    <3>3. download' \in Reader /\ download'.bytes = download.bytes /\ download'.seen = download.seen + 1
          /\ download'.expects = download.expects
      <4>1. download.seen + 1 \in Nat
        BY <2>2
      <4> QED
        BY <2>1, <3>1, <3>2, <4>1 DEF Reader
    <3> QED
      BY <1>7, <3>2, <3>3, <2>2 DEF Read, Maybe
  <2>4. CASE LastChunk(download)
    <3>1. download' \in Reader /\ download'.bytes = download.bytes /\ download'.seen = download.seen
          /\ download'.expects = download.expects
      BY <2>1, <2>4 DEF Reader, LastChunk
    <3> QED
      BY <1>7, <3>1, <2>2 DEF Read, Maybe
  <2>5. CASE Close(download)
    BY <1>7, <2>5 DEF Read, Close, Maybe
  <2> QED
    BY <1>7, <2>3, <2>4, <2>5 DEF Read
<1> QED
  BY <1>1, <1>2, <1>3, <1>4, <1>5, <1>6, <1>7 DEF ArtifactsNext

(***************************************************************************)
(* What a step may do to the upload, the record and the bytes of one id.   *)
(***************************************************************************)

\* A step of one upload leaves the others, their records and their bytes alone.
LEMMA OthersLeft ==
    ASSUME Sound, \A a \in Ids : Owned(a), NEW a \in Ids, UploadStep(a),
           NEW b \in Ids, b # a
    PROVE  /\ uploads'[b] = uploads[b] /\ rows'[b] = rows[b] /\ blobs'[b] = blobs[b]
           /\ b \in doubted => b \in doubted'
           /\ b \in strays => b \in strays'
           /\ lock = b => lock' = b
<1>1. uploads'[b] = uploads[b]
  <2>1. CASE Begin(a)
    BY <2>1 DEF Begin, Sound, ArtifactsTypeOK
  <2>2. CASE Commit(a)
    BY <2>2 DEF Commit, Sound, ArtifactsTypeOK
  <2>3. CASE \E stage \in {"stored", "failed", "undoes", "checked", "answered"} : Goes(a, stage)
    BY <2>3 DEF Goes, Sound, ArtifactsTypeOK
  <2> QED
    BY <2>1, <2>2, <2>3
    DEF UploadStep, Put, BodyFails, PutAnswerLost, Mismatch, Check, CommitFails, DropDuplicate,
        Undo, Abandon
<1>2. rows'[b] = rows[b]
  <2>1. CASE rows' = rows
    BY <2>1
  <2>2. CASE rows' = WithRow(a)
    BY <2>2 DEF WithRow, Sound, ArtifactsTypeOK
  <2> QED
    BY <2>1, <2>2
    DEF UploadStep, Begin, Put, BodyFails, PutAnswerLost, Mismatch, Check, Commit, CommitFails,
        DropDuplicate, Undo, Abandon
<1>3. blobs'[b] = blobs[b]
  <2>1. CASE blobs' = blobs
    BY <2>1
  <2>2. CASE blobs' = Deleted(a) \/ blobs' = [blobs EXCEPT ![a] = uploads[a].content]
    BY <2>2 DEF Deleted, Sound
  <2> QED
    BY <2>1, <2>2
    DEF UploadStep, Begin, Put, BodyFails, PutAnswerLost, Mismatch, Check, Commit, CommitFails,
        DropDuplicate, Undo, Abandon
<1>4. b \in doubted => b \in doubted'
  BY DEF UploadStep, Begin, Put, BodyFails, PutAnswerLost, Mismatch, Check, Commit, CommitFails,
        DropDuplicate, Undo, Abandon
<1>5. b \in strays => b \in strays'
  BY DEF UploadStep, Begin, Put, BodyFails, PutAnswerLost, Mismatch, Check, Commit, CommitFails,
        DropDuplicate, Undo, Abandon
<1>6. lock = b => lock' = b
  <2>1. b # None
    BY ArtifactsAssumption
  <2> QED
    BY <2>1
    DEF UploadStep, Begin, Put, BodyFails, PutAnswerLost, Mismatch, Check, Commit, CommitFails,
        DropDuplicate, Undo, Abandon, Unlocked
<1> QED
  BY <1>1, <1>2, <1>3, <1>4, <1>5, <1>6

\* An upload's own step, stage by stage.
LEMMA OwnStep ==
    ASSUME Sound, \A a \in Ids : Owned(a) /\ Fits(a) /\ Holding(a) /\ Kept(a) /\ Answers(a),
           NoStrayBytes, NEW a \in Ids, UploadStep(a)
    PROVE  /\ Owned(a)' /\ Fits(a)' /\ Holding(a)' /\ Kept(a)' /\ Answers(a)'
           /\ blobs'[a] # None /\ rows'[a] = None =>
                  a \in strays' \/ uploads'[a].stage \in {"stored", "checked", "drops", "undoes"}
<1> USE DEF Sound, ArtifactsTypeOK
<1>a. rows[a] # None => uploads[a].stage \in {"undoes", "answered", "failed"}
  BY DEF Owned
<1>b. uploads[a].stage # "none" =>
         /\ uploads[a].content \in Contents /\ uploads[a].content # None
         /\ uploads[a].content \in Bytes /\ Len(uploads[a].content) \in Nat
  BY ContentIsBytes DEF Owned
<1>1. CASE Begin(a)
  <2>1. /\ uploads'[a].stage = "streams" /\ uploads'[a].content \in Contents
        /\ blobs'[a] = None /\ rows'[a] = None
    BY <1>1 DEF Begin, Owned, Upload
  <2> QED
    BY <2>1 DEF Owned, Fits, Holding, Kept, Answers
<1>2. CASE Put(a)
  <2>1. uploads'[a].stage = "stored" /\ uploads'[a].content = uploads[a].content
    BY <1>2, Moved DEF Put
  <2>2. blobs'[a] = uploads[a].content /\ rows'[a] = None
    BY <1>2, <1>a DEF Put
  <2> QED
    BY <1>2, <1>b, <2>1, <2>2 DEF Put, Owned, Fits, Holding, Kept, Answers
<1>3. CASE BodyFails(a)
  <2>1. uploads'[a].stage = "failed" /\ uploads'[a].content = uploads[a].content
    BY <1>3, Moved DEF BodyFails
  <2>2. blobs'[a] = None /\ rows'[a] = None
    BY <1>3 DEF BodyFails, Owned
  <2> QED
    BY <1>3, <1>b, <2>1, <2>2 DEF BodyFails, Owned, Fits, Holding, Kept, Answers
<1>4. CASE PutAnswerLost(a)
  <2>1. uploads'[a].stage = "failed" /\ uploads'[a].content = uploads[a].content
    BY <1>4, Moved DEF PutAnswerLost
  <2>2. blobs'[a] = uploads[a].content /\ rows'[a] = None /\ a \in strays'
    BY <1>4, <1>a DEF PutAnswerLost
  <2> QED
    BY <1>4, <1>b, <2>1, <2>2 DEF PutAnswerLost, Owned, Fits, Holding, Kept, Answers
<1>5. CASE Mismatch(a)
  <2>1. uploads'[a].stage = "undoes" /\ uploads'[a].content = uploads[a].content
    BY <1>5, Moved DEF Mismatch
  <2>2. blobs'[a] = blobs[a] /\ rows'[a] = None
    BY <1>5, <1>a DEF Mismatch
  <2> QED
    BY <1>5, <1>b, <2>1, <2>2 DEF Mismatch, Owned, Fits, Holding, Kept, Answers
<1>6. CASE Check(a)
  <2>1. /\ uploads'[a].content = uploads[a].content
        /\ \/ uploads'[a].stage = "checked" /\ phase' = "open"
           \/ uploads'[a].stage = "undoes"
    BY <1>6, Moved DEF Check
  <2>2. blobs'[a] = blobs[a] /\ blobs[a] # None /\ rows'[a] = None /\ lock' = a
    BY <1>6, <1>a DEF Check, Owned
  <2> QED
    BY <1>6, <1>b, <2>1, <2>2 DEF Check, Owned, Fits, Holding, Kept, Answers
<1>7. CASE Commit(a)
  <2>0. /\ blobs'[a] = blobs[a] /\ blobs[a] # None /\ rows[a] = None
        /\ uploads[a].content \in Contents /\ phase' = phase
    BY <1>7, <1>a, <1>b DEF Commit, Owned
  <2>1. CASE Stored(a) = {}
    <3>1. uploads'[a].stage = "answered" /\ uploads'[a].content = uploads[a].content
          /\ uploads'[a].ref = a
      BY <1>7, <2>1 DEF Commit, Upload
    <3>2. rows'[a] # None /\ rows'[a].content = uploads[a].content
      BY <1>7, <2>0, <2>1, AddedRows DEF Commit
    <3> QED
      BY <2>0, <3>1, <3>2 DEF Owned, Fits, Holding, Kept, Answers
  <2>2. CASE Stored(a) # {}
    <3>1. PICK b \in Stored(a) : uploads'[a].ref = b
      BY <1>7, <2>2 DEF Commit, Upload
    <3>2. uploads'[a].stage = "drops" /\ uploads'[a].content = uploads[a].content
      BY <1>7, <2>2 DEF Commit, Upload
    <3>3. rows' = rows
      BY <1>7, <2>2 DEF Commit, WithRow
    <3>4. b \in Ids /\ rows[b] # None /\ rows[b].content = uploads[a].content
      BY <3>1 DEF Stored
    <3> QED
      BY <2>0, <3>1, <3>2, <3>3, <3>4 DEF Owned, Fits, Holding, Kept, Answers
  <2> QED
    BY <2>1, <2>2
<1>8. CASE CommitFails(a)
  <2>0. /\ blobs'[a] = blobs[a] /\ rows[a] = None
        /\ uploads[a].content \in Contents
    BY <1>8, <1>a, <1>b DEF CommitFails, Owned
  <2>1. uploads'[a].stage = "undoes" /\ uploads'[a].content = uploads[a].content
    BY <1>8, Moved DEF CommitFails
  <2>2. rows'[a] # None => rows'[a].content = uploads[a].content /\ a \in doubted'
    BY <1>8, <2>0, AddedRows DEF CommitFails
  <2> QED
    BY <2>0, <2>1, <2>2 DEF Owned, Fits, Holding, Kept, Answers
<1>9. CASE DropDuplicate(a)
  <2>1. uploads'[a].stage = "answered" /\ uploads'[a].content = uploads[a].content
        /\ uploads'[a].ref = uploads[a].ref
    BY <1>9, Moved DEF DropDuplicate
  <2>2. blobs'[a] = None /\ rows' = rows /\ rows[a] = None /\ phase' = phase
    BY <1>9, <1>a DEF DropDuplicate, Deleted
  <2> QED
    BY <1>9, <1>b, <2>1, <2>2 DEF DropDuplicate, Owned, Fits, Holding, Kept, Answers
<1>10. CASE Undo(a)
  <2>1. uploads'[a].stage = "failed" /\ uploads'[a].content = uploads[a].content
    BY <1>10, Moved DEF Undo
  <2>2. blobs'[a] = None /\ rows' = rows /\ phase' = phase /\ doubted' = doubted
    BY <1>10 DEF Undo, Deleted
  <2> QED
    BY <1>10, <1>b, <2>1, <2>2 DEF Undo, Owned, Fits, Holding, Kept, Answers
<1>11. CASE Abandon(a)
  <2>1. uploads'[a].stage = "failed" /\ uploads'[a].content = uploads[a].content
    BY <1>11, Moved DEF Abandon
  <2>2. blobs' = blobs /\ rows' = rows /\ phase' = phase /\ doubted' = doubted /\ a \in strays'
    BY <1>11 DEF Abandon
  <2> QED
    BY <1>11, <1>b, <2>1, <2>2 DEF Abandon, Owned, Fits, Holding, Kept, Answers
<1> QED
  BY <1>1, <1>2, <1>3, <1>4, <1>5, <1>6, <1>7, <1>8, <1>9, <1>10, <1>11 DEF UploadStep

\* No step of an upload takes a record away, or touches one of a run that is not open.
LEMMA RecordsStay ==
    ASSUME Sound, \A a \in Ids : Owned(a) /\ Holding(a), NEW a \in Ids, UploadStep(a)
    PROVE  /\ phase' = phase
           /\ \A b \in Ids : rows[b] # None => rows'[b] = rows[b]
           /\ phase # "open" => rows' = rows
           /\ purges' = purges /\ download' = download
<1>1. CASE rows' = rows
  BY <1>1
  DEF UploadStep, Begin, Put, BodyFails, PutAnswerLost, Mismatch, Check, Commit, CommitFails,
      DropDuplicate, Undo, Abandon
<1>2. CASE Commit(a) \/ CommitFails(a)
  <2>1. uploads[a].stage = "checked" /\ phase = "open" /\ rows[a] = None
    BY <1>2 DEF Commit, CommitFails, Holding, Owned
  <2>2. \A b \in Ids : b # a => rows'[b] = rows[b]
    BY OthersLeft
  <2> QED
    BY <1>2, <2>1, <2>2 DEF Commit, CommitFails
<1> QED
  BY <1>1, <1>2
  DEF UploadStep, Begin, Put, BodyFails, PutAnswerLost, Mismatch, Check, DropDuplicate, Undo,
      Abandon

\* An upload that is done with stays so, and its bytes do not come back.
LEMMA DoneStays ==
    ASSUME Sound, NEW a \in Ids, UploadStep(a),
           uploads[a].stage \in {"undoes", "answered", "failed"}
    PROVE  /\ uploads'[a].stage \in {"undoes", "answered", "failed"}
           /\ blobs[a] = None => blobs'[a] = None
<1>1. CASE Undo(a) \/ Abandon(a)
  <2>1. uploads'[a].stage = "failed"
    BY <1>1, Moved DEF Undo, Abandon, Sound, ArtifactsTypeOK
  <2> QED
    BY <1>1, <2>1 DEF Undo, Abandon, Deleted, Sound
<1> QED
  BY <1>1
  DEF UploadStep, Begin, Put, BodyFails, PutAnswerLost, Mismatch, Check, Commit, CommitFails,
      DropDuplicate

------------------------------------------------------------------------------
(***************************************************************************)
(* The inductive invariant.                                                *)
(***************************************************************************)

Inv ==
    /\ Sound /\ Serving /\ NoStrayBytes /\ AllExpire
    /\ \A a \in Ids : Owned(a) /\ Fits(a) /\ Holding(a) /\ Kept(a) /\ Answers(a)
    /\ \A k \in Purgers : Purging(k)

LEMMA InvInit == ArtifactsInit => Inv
<1> SUFFICES ASSUME ArtifactsInit PROVE Inv
  OBVIOUS
<1>1. Sound
  <2>1. uploads \in [Ids -> Upload]
    BY DEF ArtifactsInit, Upload, Maybe
  <2> QED
    BY <2>1, ArtifactsAssumption DEF ArtifactsInit, Sound, ArtifactsTypeOK, Maybe
<1>2. Serving /\ NoStrayBytes /\ AllExpire
  BY DEF ArtifactsInit, Serving, NoStrayBytes, AllExpire
<1>3. \A a \in Ids : Owned(a) /\ Fits(a) /\ Holding(a) /\ Kept(a) /\ Answers(a)
  BY DEF ArtifactsInit, Owned, Fits, Holding, Kept, Answers
<1>4. \A k \in Purgers : Purging(k)
  BY DEF ArtifactsInit, Purging
<1> QED
  BY <1>1, <1>2, <1>3, <1>4 DEF Inv

LEMMA UploadKeeps ==
    ASSUME Inv, Sound', NEW a \in Ids, UploadStep(a)
    PROVE  Inv'
<1>1. /\ phase' = phase /\ purges' = purges /\ download' = download
      /\ \A b \in Ids : rows[b] # None => rows'[b] = rows[b]
      /\ phase # "open" => rows' = rows
  BY RecordsStay DEF Inv
<1>2. /\ Owned(a)' /\ Fits(a)' /\ Holding(a)' /\ Kept(a)' /\ Answers(a)'
      /\ blobs'[a] # None /\ rows'[a] = None =>
             a \in strays' \/ uploads'[a].stage \in {"stored", "checked", "drops", "undoes"}
  BY OwnStep DEF Inv
<1>3. ASSUME NEW b \in Ids, b # a
      PROVE  /\ uploads'[b] = uploads[b] /\ rows'[b] = rows[b] /\ blobs'[b] = blobs[b]
             /\ b \in doubted => b \in doubted'
             /\ b \in strays => b \in strays'
             /\ lock = b => lock' = b
  BY <1>3, OthersLeft DEF Inv
<1>4. ASSUME NEW b \in Ids, b # a
      PROVE  Owned(b)' /\ Fits(b)' /\ Holding(b)' /\ Kept(b)'
  <2>1. Owned(b) /\ Fits(b) /\ Holding(b) /\ Kept(b)
    BY DEF Inv
  <2>2. Owned(b)' /\ Fits(b)'
    BY <1>3, <1>4, <2>1 DEF Owned, Fits
  <2>3. Holding(b)' /\ Kept(b)'
    BY <1>1, <1>3, <1>4, <2>1 DEF Holding, Kept
  <2> QED
    BY <2>2, <2>3
<1>5. ASSUME NEW b \in Ids, b # a
      PROVE  Answers(b)'
  BY <1>1, <1>3, <1>5 DEF Inv, Answers
<1>6. NoStrayBytes'
  BY <1>2, <1>3 DEF Inv, NoStrayBytes
<1>7. AllExpire'
  BY <1>1 DEF Inv, AllExpire
<1>8. Serving'
  BY <1>1 DEF Inv, Serving
<1>9. ASSUME NEW k \in Purgers PROVE Purging(k)'
  <2>1. ASSUME purges[k] # None PROVE purges[k].todo \cup purges[k].gone \subseteq Ids
    BY <2>1, TickTyped DEF Inv, Sound, ArtifactsTypeOK
  <2>2. ASSUME NEW b \in Ids, uploads[b].stage \in {"undoes", "answered", "failed"}
        PROVE  /\ uploads'[b].stage \in {"undoes", "answered", "failed"}
               /\ blobs[b] = None => blobs'[b] = None
    BY <2>2, <1>3, DoneStays DEF Inv
  <2> QED
    BY <1>1, <2>1, <2>2 DEF Inv, Purging
<1> QED
  BY <1>2, <1>4, <1>5, <1>6, <1>7, <1>8, <1>9 DEF Inv

LEMMA PurgeKeeps ==
    ASSUME Inv, Sound', NEW k \in Purgers, Purge(k)
    PROVE  Inv'
<1>1. /\ UNCHANGED <<phase, lock, uploads, download, doubted, strays>>
      /\ phase = "over"
  BY DEF Purge, Expired, RemoveRows, PurgeFails, DeleteBlob, DeleteFails, Inv, Purging
<1>2. ASSUME NEW a \in Ids
      PROVE  blobs'[a] = blobs[a] \/ /\ blobs'[a] = None
                                     /\ uploads[a].stage \in {"undoes", "answered", "failed"}
  <2>1. CASE blobs' = blobs
    BY <2>1
  <2>2. ASSUME NEW b \in Ids, purges[k] # None, b \in purges[k].todo, blobs' = Deleted(b)
        PROVE  blobs'[a] = blobs[a] \/ /\ blobs'[a] = None
                                       /\ uploads[a].stage \in {"undoes", "answered", "failed"}
    BY <2>2 DEF Deleted, Inv, Sound, Purging
  <2> QED
    BY <2>1, <2>2 DEF Purge, Expired, RemoveRows, PurgeFails, DeleteBlob, DeleteFails
<1>3. ASSUME NEW a \in Ids
      PROVE  \/ rows'[a] = rows[a]
             \/ rows'[a] = None /\ blobs'[a] = None
  <2>1. CASE rows' = rows
    BY <2>1
  <2>2. CASE RemoveRows(k)
    BY <2>2 DEF RemoveRows, Inv, Purging
  <2> QED
    BY <2>1, <2>2 DEF Purge, Expired, PurgeFails, DeleteBlob, DeleteFails
<1>4. ASSUME NEW a \in Ids
      PROVE  Owned(a)' /\ Fits(a)' /\ Holding(a)' /\ Kept(a)' /\ Answers(a)'
  <2>1. Owned(a) /\ Fits(a) /\ Holding(a) /\ Kept(a) /\ Answers(a)
    BY DEF Inv
  <2>2. Owned(a)'
    BY <1>1, <1>2, <1>3, <2>1 DEF Owned
  <2>3. Fits(a)'
    BY <1>1, <1>2, <2>1 DEF Fits
  <2>4. Holding(a)' /\ Kept(a)' /\ Answers(a)'
    BY <1>1, <2>1 DEF Holding, Kept, Answers
  <2> QED
    BY <2>2, <2>3, <2>4
<1>5. NoStrayBytes'
  BY <1>1, <1>2, <1>3 DEF Inv, NoStrayBytes
<1>6. AllExpire'
  BY <1>1, <1>3 DEF Inv, AllExpire
<1>7. Serving'
  BY <1>1 DEF Inv, Serving
<1>8. ASSUME NEW j \in Purgers PROVE Purging(j)'
  <2>0. purges \in [Purgers -> Maybe(PurgeTick)]
    BY DEF Inv, Sound, ArtifactsTypeOK
  <2>1. CASE j # k
    <3>1. purges'[j] = purges[j]
      BY <2>0, <2>1 DEF Purge, Expired, RemoveRows, PurgeFails, DeleteBlob, DeleteFails
    <3>2. purges[j] # None => purges[j].todo \cup purges[j].gone \subseteq Ids
      BY <2>0, TickTyped
    <3> QED
      BY <1>1, <1>2, <3>1, <3>2 DEF Inv, Purging
  <2>2. CASE j = k /\ Expired(k)
    <3>1. /\ purges'[k].gone = {}
          /\ \A a \in purges'[k].todo : a \in Ids /\ rows[a] # None
      BY <2>0, <2>2 DEF Expired
    <3> QED
      BY <1>1, <2>2, <3>1 DEF Inv, Purging, Owned
  <2>3. CASE j = k /\ (RemoveRows(k) \/ PurgeFails(k))
    BY <2>0, <2>3 DEF RemoveRows, PurgeFails, Purging
  <2>4. ASSUME NEW a \in Ids, j = k, DeleteBlob(k, a)  PROVE Purging(j)'
    <3>1. purges[k] \in PurgeTick
      BY <2>0, <2>4, MaybeIn DEF DeleteBlob
    <3>2. purges'[k].todo = purges[k].todo \ {a} /\ purges'[k].gone = purges[k].gone \cup {a}
      BY <2>0, <2>4, <3>1 DEF DeleteBlob, PurgeTick
    <3>3. blobs'[a] = None /\ a \in purges[k].todo /\ purges[k] # None
      BY <2>4 DEF DeleteBlob, Deleted, Inv, Sound
    <3>4. purges[k].todo \subseteq Ids /\ purges[k].gone \subseteq Ids
      BY <3>1 DEF PurgeTick
    <3> QED
      BY <1>1, <1>2, <2>4, <3>2, <3>3, <3>4 DEF Inv, Purging
  <2>5. ASSUME NEW a \in Ids, j = k, DeleteFails(k, a)  PROVE Purging(j)'
    <3>1. purges[k] \in PurgeTick
      BY <2>0, <2>5, MaybeIn DEF DeleteFails
    <3>2. purges'[k].todo = purges[k].todo \ {a} /\ purges'[k].gone = purges[k].gone
      BY <2>0, <2>5, <3>1 DEF DeleteFails, PurgeTick
    <3>3. purges[k] # None
      BY <2>5 DEF DeleteFails
    <3>4. purges[k].todo \subseteq Ids /\ purges[k].gone \subseteq Ids
      BY <3>1 DEF PurgeTick
    <3> QED
      BY <1>1, <1>2, <2>5, <3>2, <3>3, <3>4 DEF Inv, Purging
  <2> QED
    BY <2>1, <2>2, <2>3, <2>4, <2>5 DEF Purge
<1> QED
  BY <1>4, <1>5, <1>6, <1>7, <1>8 DEF Inv

LEMMA ReadKeeps ==
    ASSUME Inv, Sound', Read
    PROVE  Serving'
<1>1. download \in Reader
  BY MaybeIn DEF Read, Inv, Sound
<1>2. /\ download.bytes \in Bytes /\ download.expects \in Contents /\ download.seen \in Nat
      /\ Len(download.bytes) \in Nat /\ Len(download.expects) \in Nat
      /\ \A n \in 0..Len(download.bytes) : Len(SubSeq(download.bytes, 1, n)) = n
  BY <1>1, BytesAltered, ContentIsBytes DEF Reader
<1>3. Len(download.bytes) <= Len(download.expects) /\ download.seen <= Len(download.bytes)
  BY DEF Read, Inv, Serving
<1>4. CASE NextChunk(download)
  <2>1. /\ download'.expects = download.expects /\ download'.bytes = download.bytes
        /\ download'.seen = download.seen + 1 /\ download'.served = SubSeq(download.bytes, 1, download.seen)
    BY <1>1, <1>4 DEF NextChunk, Reader
  <2>2. download.seen < Len(download.bytes)
    BY <1>4 DEF NextChunk
  <2>3. Len(SubSeq(download.bytes, 1, download.seen)) = download.seen
    BY <1>2, <2>2
  <2>4. /\ Len(download'.bytes) <= Len(download'.expects) /\ download'.seen <= Len(download'.bytes)
        /\ Len(download'.served) < Len(download'.expects)
    BY <1>2, <1>3, <2>1, <2>2, <2>3
  <2> QED
    BY <2>4 DEF Serving
<1>5. CASE LastChunk(download)
  <2>1. /\ download'.expects = download.expects /\ download'.bytes = download.bytes
        /\ download'.seen = download.seen /\ download'.served = download.expects
    BY <1>1, <1>5 DEF LastChunk, Reader
  <2> QED
    BY <1>3, <2>1 DEF Serving
<1>6. CASE Close(download)
  BY <1>6 DEF Close, Serving
<1> QED
  BY <1>4, <1>5, <1>6 DEF Read

LEMMA InvNext ==
    ASSUME Inv, [ArtifactsNext]_artifactVars
    PROVE  Inv'
<1>1. CASE UNCHANGED artifactVars
  <2>1. Sound' /\ Serving' /\ NoStrayBytes' /\ AllExpire'
    BY <1>1 DEF artifactVars, Inv, Sound, ArtifactsTypeOK, Serving, NoStrayBytes, AllExpire
  <2>2. \A a \in Ids : Owned(a)' /\ Fits(a)' /\ Holding(a)' /\ Kept(a)' /\ Answers(a)'
    BY <1>1 DEF artifactVars, Inv, Owned, Fits, Holding, Kept, Answers
  <2>3. \A k \in Purgers : Purging(k)'
    BY <1>1 DEF artifactVars, Inv, Purging
  <2> QED
    BY <2>1, <2>2, <2>3 DEF Inv
<1>2. CASE ArtifactsNext
  <2>0. Sound'
    BY <1>2, SoundKept DEF Inv
  <2>1. ASSUME NEW a \in Ids, UploadStep(a)  PROVE Inv'
    BY <2>0, <2>1, UploadKeeps
  <2>2. ASSUME NEW k \in Purgers, Purge(k)  PROVE Inv'
    BY <2>0, <2>2, PurgeKeeps
  <2>3. ASSUME NEW a \in Ids, Download(a)  PROVE Inv'
    <3>1. UNCHANGED <<phase, lock, uploads, rows, blobs, purges, doubted, strays>>
      BY <2>3 DEF Download
    <3>2. NoStrayBytes' /\ AllExpire'
      BY <3>1 DEF Inv, NoStrayBytes, AllExpire
    <3>3. \A b \in Ids : Owned(b)' /\ Fits(b)' /\ Holding(b)' /\ Kept(b)' /\ Answers(b)'
      BY <3>1 DEF Inv, Owned, Fits, Holding, Kept, Answers
    <3>4. \A k \in Purgers : Purging(k)'
      BY <3>1 DEF Inv, Purging
    <3>5. Serving'
      <4>1. rows[a] \in Record /\ blobs[a] \in Bytes /\ rows[a].content = uploads[a].content
            /\ Len(blobs[a]) <= Len(uploads[a].content)
        BY <2>3, MaybeIn DEF Download, Inv, Sound, ArtifactsTypeOK, Owned, Fits
      <4>2. Len(rows[a].content) \in Nat \ {0} /\ Len(blobs[a]) \in Nat
        BY <4>1, BytesAltered, ContentIsBytes DEF Record
      <4>3. download' = [expects |-> rows[a].content, bytes |-> blobs[a], seen |-> 0, served |-> <<>>]
        BY <2>3 DEF Download
      <4>4. /\ Len(download'.bytes) <= Len(download'.expects) /\ download'.seen <= Len(download'.bytes)
            /\ Len(download'.served) < Len(download'.expects)
        BY <4>1, <4>2, <4>3
      <4> QED
        BY <4>4 DEF Serving
    <3> QED
      BY <2>0, <3>2, <3>3, <3>4, <3>5 DEF Inv
  <2>4. ASSUME NEW a \in Ids, Corrupt(a)  PROVE Inv'
    <3>1. UNCHANGED <<phase, lock, uploads, rows, purges, download, doubted, strays>>
      BY <2>4 DEF Corrupt
    <3>2. PICK b \in Bytes : Len(b) <= Len(blobs[a]) /\ blobs' = [blobs EXCEPT ![a] = b]
      BY <2>4, Corrupted DEF Inv, Sound
    <3>3. blobs[a] \in Bytes /\ Len(blobs[a]) \in Nat /\ Len(b) \in Nat /\ b # None
          /\ blobs[a] # None
      BY <2>4, MaybeIn, BytesAltered DEF Corrupt, Inv, Sound
    <3>4. \A c \in Ids : (blobs'[c] = None <=> blobs[c] = None) /\ (c # a => blobs'[c] = blobs[c])
          /\ blobs'[a] = b
      BY <3>2, <3>3 DEF Inv, Sound
    <3>5. NoStrayBytes'
      BY <3>1, <3>4 DEF Inv, NoStrayBytes
    <3>6. \A c \in Ids : Owned(c)'
      BY <3>1, <3>4 DEF Inv, Owned
    <3>7. \A c \in Ids : Holding(c)' /\ Kept(c)' /\ Answers(c)'
      BY <3>1, <3>4 DEF Inv, Holding, Kept, Answers
    <3>8. \A c \in Ids : Fits(c)'
      <4>1. ASSUME NEW c \in Ids, c # a  PROVE Fits(c)'
        BY <3>1, <3>4, <4>1 DEF Inv, Fits
      <4>2. Fits(a)'
        <5>1. uploads[a].content \in Contents
          BY <3>3 DEF Inv, Owned, Sound, ArtifactsTypeOK, Upload
        <5>2. Len(uploads[a].content) \in Nat /\ Len(blobs[a]) <= Len(uploads[a].content)
          BY <3>3, <5>1, ContentIsBytes DEF Inv, Fits
        <5> QED
          BY <3>1, <3>2, <3>3, <3>4, <5>2 DEF Fits
      <4> QED
        BY <4>1, <4>2
    <3>9. \A k \in Purgers : Purging(k)'
      <4>1. \A k \in Purgers : purges[k] # None => purges[k].gone \subseteq Ids
        BY TickTyped DEF Inv, Sound, ArtifactsTypeOK
      <4> QED
        BY <3>1, <3>4, <4>1 DEF Inv, Purging
    <3>10. Serving' /\ AllExpire'
      BY <3>1 DEF Inv, Serving, AllExpire
    <3> QED
      BY <2>0, <3>5, <3>6, <3>7, <3>8, <3>9, <3>10 DEF Inv
  <2>5. ASSUME EndRun  PROVE Inv'
    <3>1. UNCHANGED <<lock, uploads, blobs, purges, download, doubted, strays>>
          /\ phase = "open" /\ phase' = "ended" /\ lock = None
      BY <2>5 DEF EndRun
    <3>2. ASSUME NEW a \in Ids
          PROVE  /\ rows'[a] = None <=> rows[a] = None
                 /\ rows[a] # None => rows'[a].content = rows[a].content /\ rows'[a].expires
      <4>1. CASE rows[a] = None
        BY <2>5, <4>1 DEF EndRun
      <4>2. CASE rows[a] # None
        <5>1. rows[a] \in Record
          BY <4>2, MaybeIn DEF Inv, Sound, ArtifactsTypeOK
        <5> DEFINE r == [rows[a] EXCEPT !.expires = TRUE]
        <5>2. r \in Record /\ r.content = rows[a].content /\ r.expires
          BY <5>1 DEF Record
        <5>3. rows'[a] = r
          BY <2>5, <4>2 DEF EndRun
        <5> HIDE DEF r
        <5>4. r # None
          BY <5>2, ArtifactsAssumption
        <5> QED
          BY <4>2, <5>2, <5>3, <5>4
      <4> QED
        BY <4>1, <4>2
    <3>3. NoStrayBytes' /\ AllExpire' /\ Serving'
      BY <3>1, <3>2 DEF Inv, NoStrayBytes, AllExpire, Serving
    <3>4. ASSUME NEW a \in Ids PROVE Owned(a)' /\ Fits(a)'
      BY <3>1, <3>2 DEF Inv, Owned, Fits
    <3>5. ASSUME NEW a \in Ids PROVE Holding(a)' /\ Kept(a)' /\ Answers(a)'
      <4>1. uploads[a].stage # "checked"
        BY <3>1, ArtifactsAssumption DEF Inv, Holding
      <4> QED
        BY <3>1, <3>2, <4>1 DEF Inv, Holding, Kept, Answers
    <3>6. \A k \in Purgers : Purging(k)'
      BY <3>1 DEF Inv, Purging
    <3> QED
      BY <2>0, <3>3, <3>4, <3>5, <3>6 DEF Inv
  <2>6. ASSUME RetentionOver  PROVE Inv'
    <3>1. UNCHANGED <<lock, uploads, rows, blobs, purges, download, doubted, strays>>
          /\ phase = "ended" /\ phase' = "over"
      BY <2>6 DEF RetentionOver
    <3>2. NoStrayBytes' /\ AllExpire' /\ Serving'
      BY <3>1 DEF Inv, NoStrayBytes, AllExpire, Serving
    <3>3. \A a \in Ids : Owned(a)' /\ Fits(a)' /\ Holding(a)' /\ Kept(a)' /\ Answers(a)'
      BY <3>1 DEF Inv, Owned, Fits, Holding, Kept, Answers
    <3>4. \A k \in Purgers : Purging(k)'
      BY <3>1 DEF Inv, Purging
    <3> QED
      BY <2>0, <3>2, <3>3, <3>4 DEF Inv
  <2>7. ASSUME Read  PROVE Inv'
    <3>1. UNCHANGED <<phase, lock, uploads, rows, blobs, purges, doubted, strays>>
      BY <2>7 DEF Read
    <3>2. NoStrayBytes' /\ AllExpire'
      BY <3>1 DEF Inv, NoStrayBytes, AllExpire
    <3>3. \A b \in Ids : Owned(b)' /\ Fits(b)' /\ Holding(b)' /\ Kept(b)' /\ Answers(b)'
      BY <3>1 DEF Inv, Owned, Fits, Holding, Kept, Answers
    <3>4. \A k \in Purgers : Purging(k)'
      BY <3>1 DEF Inv, Purging
    <3> QED
      BY <2>0, <2>7, <3>2, <3>3, <3>4, ReadKeeps DEF Inv
  <2> QED
    BY <1>2, <2>1, <2>2, <2>3, <2>4, <2>5, <2>6, <2>7 DEF ArtifactsNext
<1> QED
  BY <1>1, <1>2

LEMMA InvAlways == ArtifactsSpec => []Inv
  BY InvInit, InvNext, PTL DEF ArtifactsSpec

------------------------------------------------------------------------------
\* Every state of an upload, a purge and a download is of its type, whatever failed before.
THEOREM ArtifactsTyped == ArtifactsSpec => []ArtifactsTypeOK
<1>1. Inv => ArtifactsTypeOK
  BY DEF Inv, Sound
<1> QED
  BY <1>1, InvAlways, PTL

\* A reference that upload answered resolves until the ended run's retention is over, and read
\* never serves altered bytes whole, for any number of uploads, faults and corruptions.
THEOREM ArtifactsRead == ArtifactsSpec => []ReadsSound
<1>1. Inv => ReferenceResolves
  BY DEF Inv, ReferenceResolves, Answers, Kept
<1>2. Inv => CorruptNeverWhole
  <2> SUFFICES ASSUME Inv, download # None, Len(download.served) = Len(download.expects)
               PROVE  download.served = download.expects
    BY DEF CorruptNeverWhole
  <2>1. Len(download.expects) \in Nat
    BY MaybeIn, ContentIsBytes DEF Inv, Sound, Reader
  <2> QED
    BY <2>1 DEF Inv, Serving
<1> QED
  BY <1>1, <1>2, InvAlways, PTL DEF ReadsSound

\* Bytes without a record are those of a failure or a death: upload and _purge_artifacts leave
\* none themselves, in whatever order their steps interleave.
THEOREM BytesAccountedFor == ArtifactsSpec => []NoStrayBytes
<1>1. Inv => NoStrayBytes
  BY DEF Inv
<1> QED
  BY <1>1, InvAlways, PTL

\* Every artifact of an ended run expires: check_artifact_writer's lock on the run's row keeps
\* the end of the run out between the check and the insert.
THEOREM ArtifactsExpire == ArtifactsSpec => []AllExpire
<1>1. Inv => AllExpire
  BY DEF Inv
<1> QED
  BY <1>1, InvAlways, PTL
==============================================================================

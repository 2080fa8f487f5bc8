------------------------------ MODULE Artifacts ------------------------------
(***************************************************************************)
(* The artifacts of one run: their records in the database and their bytes *)
(* in the blob store, which share no transaction (api/routers/artifacts.py,*)
(* store/artifacts.py, blob/, and the ticker's _purge_artifacts).          *)
(*                                                                         *)
(* An upload makes an id, stores the bytes under it and then the record; a *)
(* ticker deletes the bytes and then the record; a download reads the      *)
(* record and then the bytes.  Each step may fail, with or without taking  *)
(* effect, and any process may die between two of them.                    *)
(*                                                                         *)
(* The bytes are a sequence of chunks and stand for their own checksum.    *)
(*                                                                         *)
(* The specification is Artifacts..., EventLog has the plain names: TLC checks*)
(* the two, and WebhookOutbox, side by side.                               *)
(***************************************************************************)
EXTENDS Null, Integers, Sequences

CONSTANTS
    Ids,              \* an id for each upload
    Contents,         \* what is uploaded: sequences of chunks
    Bad,              \* a chunk that is not what was written
    Purgers,
    MaxFaults         \* bound: failures, deaths and corruptions

VARIABLES
    phase,            \* the run: open (RUNNING or PAUSED), ended, or
                      \* over (ended for ARTIFACT_RETENTION)
    lock,             \* the upload that holds the run's row
    uploads,
    rows,             \* run_artifacts
    blobs,            \* the blob store
    purges,           \* the purge each ticker is at: the rows it holds
    download,         \* a download
    doubted,          \* rows whose commit was reported to have failed
    strays,           \* ids whose bytes a failure or a death left behind
    faults

artifactVars == <<phase, lock, uploads, rows, blobs, purges, download, doubted, strays, faults>>

Bytes == UNION {Seq({c[i] : i \in DOMAIN c} \cup {Bad}) : c \in Contents}

Upload == [stage   : {"none", "streams", "stored", "checked", "drops", "undoes",
                      "answered", "failed"},
           content : Maybe(Contents),
           ref     : Maybe(Ids)]               \* the artifact answered

Record == [content : Contents, expires : BOOLEAN]

PurgeTick == [todo : SUBSET Ids, gone : SUBSET Ids]

Fault == faults < MaxFaults /\ faults' = faults + 1

\* delete: a key that is already gone is not an error.
Deleted(a) == [blobs EXCEPT ![a] = None]

Goes(a, stage) == uploads' = [uploads EXCEPT ![a].stage = stage]

Unlocked(a) == IF lock = a THEN None ELSE lock

------------------------------------------------------------------------------
(***************************************************************************)
(* upload.                                                                 *)
(***************************************************************************)

\* The first check, not locked: the run takes artifacts and this caller may add one.
Begin(a) ==
    /\ uploads[a].stage = "none" /\ phase = "open"
    /\ \E c \in Contents :
          uploads' = [uploads EXCEPT ![a].stage = "streams", ![a].content = c]
    /\ UNCHANGED <<phase, lock, rows, blobs, purges, download, doubted, strays, faults>>

Put(a) ==
    /\ uploads[a].stage = "streams"
    /\ blobs' = [blobs EXCEPT ![a] = uploads[a].content]
    /\ Goes(a, "stored")
    /\ UNCHANGED <<phase, lock, rows, purges, download, doubted, strays, faults>>

\* The body is empty, too long or cut off: nothing is left behind.
BodyFails(a) ==
    /\ uploads[a].stage = "streams"
    /\ Goes(a, "failed")
    /\ UNCHANGED <<phase, lock, rows, blobs, purges, download, doubted, strays, faults>>

\* The store took the bytes and its answer was lost.
PutAnswerLost(a) ==
    /\ uploads[a].stage = "streams" /\ Fault
    /\ blobs'  = [blobs EXCEPT ![a] = uploads[a].content]
    /\ strays' = strays \cup {a}
    /\ Goes(a, "failed")
    /\ UNCHANGED <<phase, lock, rows, purges, download, doubted>>

\* The bytes are not the ones the caller's checksum names.
Mismatch(a) ==
    /\ uploads[a].stage = "stored"
    /\ Goes(a, "undoes")
    /\ UNCHANGED <<phase, lock, rows, blobs, purges, download, doubted, strays, faults>>

WrongCheckUnlocked(a) ==
    /\ uploads[a].stage = "stored"
    /\ \/ phase = "open" /\ Goes(a, "checked")
       \/ Goes(a, "undoes")
    /\ UNCHANGED <<phase, lock, rows, blobs, purges, download, doubted, strays, faults>>

\* check_artifact_writer, holding the run's row: the run has ended, or this caller no longer
\* writes to it, or it goes on.
Check(a) ==
    /\ uploads[a].stage = "stored" /\ lock = None
    /\ lock' = a
    /\ \/ phase = "open" /\ Goes(a, "checked")
       \/ Goes(a, "undoes")
    /\ UNCHANGED <<phase, rows, blobs, purges, download, doubted, strays, faults>>

\* The artifact this run already has of these bytes (uq_run_artifacts_content).
Stored(a) == {b \in Ids : rows[b] # None /\ rows[b].content = uploads[a].content}

\* ArtifactStore.add: the row, unless the run has these bytes.
WithRow(a) ==
    IF Stored(a) = {}
    THEN [rows EXCEPT ![a] = [content |-> uploads[a].content, expires |-> FALSE]]
    ELSE rows

Commit(a) ==
    /\ uploads[a].stage = "checked"
    /\ rows'    = WithRow(a)
    /\ lock'    = Unlocked(a)
    /\ uploads' = [uploads EXCEPT
                      ![a].stage = IF Stored(a) = {} THEN "answered" ELSE "drops",
                      ![a].ref   = IF Stored(a) = {} THEN a ELSE CHOOSE b \in Stored(a) : TRUE]
    /\ UNCHANGED <<phase, blobs, purges, download, doubted, strays, faults>>

\* The transaction fails, or its commit was done and the answer lost.
CommitFails(a) ==
    /\ uploads[a].stage = "checked" /\ Fault
    /\ \/ UNCHANGED <<rows, doubted>>
       \/ rows' = WithRow(a) /\ doubted' = doubted \cup {a}
    /\ lock' = Unlocked(a)
    /\ Goes(a, "undoes")
    /\ UNCHANGED <<phase, blobs, purges, download, strays>>

WrongDropDuplicate(a) ==
    /\ uploads[a].stage = "drops"
    /\ blobs' = Deleted(uploads[a].ref)
    /\ Goes(a, "answered")
    /\ UNCHANGED <<phase, lock, rows, purges, download, doubted, strays, faults>>

\* A repeat: its own bytes go, and the first artifact is answered.
DropDuplicate(a) ==
    /\ uploads[a].stage = "drops"
    /\ blobs' = Deleted(a)
    /\ Goes(a, "answered")
    /\ UNCHANGED <<phase, lock, rows, purges, download, doubted, strays, faults>>

\* except BaseException: the bytes go, then the transaction is rolled back.
Undo(a) ==
    /\ uploads[a].stage = "undoes"
    /\ blobs' = Deleted(a)
    /\ lock'  = Unlocked(a)
    /\ Goes(a, "failed")
    /\ UNCHANGED <<phase, rows, purges, download, doubted, strays, faults>>

\* A delete fails, or the process dies; the database rolls back what was not committed.
Abandon(a) ==
    /\ uploads[a].stage \in {"streams", "stored", "checked", "drops", "undoes"} /\ Fault
    /\ strays' = strays \cup {a}
    /\ lock'   = Unlocked(a)
    /\ Goes(a, "failed")
    /\ UNCHANGED <<phase, rows, blobs, purges, download, doubted>>

------------------------------------------------------------------------------
(***************************************************************************)
(* The run's end, and the ticker's purge.                                  *)
(***************************************************************************)

\* RunStore._ended: expire_with, in the transaction that ends the run.
EndRun ==
    /\ phase = "open" /\ lock = None
    /\ phase' = "ended"
    /\ rows'  = [a \in Ids |-> IF rows[a] = None THEN None ELSE [rows[a] EXCEPT !.expires = TRUE]]
    /\ UNCHANGED <<lock, uploads, blobs, purges, download, doubted, strays, faults>>

RetentionOver ==
    /\ phase = "ended" /\ phase' = "over"
    /\ UNCHANGED <<lock, uploads, rows, blobs, purges, download, doubted, strays, faults>>

Expired(k) ==
    LET held == UNION {purges[j].todo \cup purges[j].gone : j \in {j \in Purgers : purges[j] # None}}
        due  == {a \in Ids : rows[a] # None /\ rows[a].expires} \ held
    IN  /\ purges[k] = None /\ phase = "over" /\ due # {}
        /\ purges' = [purges EXCEPT ![k] = [todo |-> due, gone |-> {}]]
        /\ UNCHANGED <<phase, lock, uploads, rows, blobs, download, doubted, strays, faults>>

WrongDeleteBlob(k, a) ==
    /\ purges[k] # None /\ a \in purges[k].todo
    /\ blobs' = Deleted(a)
    /\ purges' = [purges EXCEPT ![k].todo = @ \ {a},
                                ![k].gone = IF blobs[a] = None THEN @ ELSE @ \cup {a}]
    /\ UNCHANGED <<phase, lock, uploads, rows, download, doubted, strays, faults>>

DeleteBlob(k, a) ==
    /\ purges[k] # None /\ a \in purges[k].todo
    /\ blobs' = Deleted(a)
    /\ purges' = [purges EXCEPT ![k].todo = @ \ {a}, ![k].gone = @ \cup {a}]
    /\ UNCHANGED <<phase, lock, uploads, rows, download, doubted, strays, faults>>

WrongDeleteFails(k, a) ==
    /\ purges[k] # None /\ a \in purges[k].todo /\ Fault
    /\ blobs' \in {blobs, Deleted(a)}
    /\ purges' = [purges EXCEPT ![k].todo = @ \ {a}, ![k].gone = @ \cup {a}]
    /\ UNCHANGED <<phase, lock, uploads, rows, download, doubted, strays>>

\* The store refuses, or its answer is lost: the row is left for a later tick.
DeleteFails(k, a) ==
    /\ purges[k] # None /\ a \in purges[k].todo /\ Fault
    /\ blobs' \in {blobs, Deleted(a)}
    /\ purges' = [purges EXCEPT ![k].todo = @ \ {a}]
    /\ UNCHANGED <<phase, lock, uploads, rows, download, doubted, strays>>

RemoveRows(k) ==
    /\ purges[k] # None /\ purges[k].todo = {}
    /\ rows'  = [a \in Ids |-> IF a \in purges[k].gone THEN None ELSE rows[a]]
    /\ purges' = [purges EXCEPT ![k] = None]
    /\ UNCHANGED <<phase, lock, uploads, blobs, download, doubted, strays, faults>>

\* The ticker dies, or its transaction fails: its rows are let go.
PurgeFails(k) ==
    /\ purges[k] # None /\ Fault
    /\ purges' = [purges EXCEPT ![k] = None]
    /\ UNCHANGED <<phase, lock, uploads, rows, blobs, download, doubted, strays>>

------------------------------------------------------------------------------
(***************************************************************************)
(* download, and read of the blob port.                                    *)
(***************************************************************************)

\* The row, then the object's bytes: one without bytes is 404.
Download(a) ==
    /\ download = None /\ rows[a] # None /\ blobs[a] # None
    /\ download' = [expects |-> rows[a].content, bytes |-> blobs[a], seen |-> 0, served |-> <<>>]
    /\ UNCHANGED <<phase, lock, uploads, rows, blobs, purges, doubted, strays, faults>>

WrongNextChunk(r) ==
    /\ r.seen < Len(r.bytes)
    /\ download' = [r EXCEPT !.seen = @ + 1, !.served = SubSeq(r.bytes, 1, r.seen + 1)]

\* The chunk before is served; this one is held back.
NextChunk(r) ==
    /\ r.seen < Len(r.bytes)
    /\ download' = [r EXCEPT !.seen = @ + 1, !.served = SubSeq(r.bytes, 1, r.seen)]

LastChunk(r) ==
    /\ r.seen = Len(r.bytes) /\ r.bytes = r.expects
    /\ download' = [r EXCEPT !.served = r.bytes]

\* Served whole, or cut short: corrupt, deleted meanwhile, or the caller left.
Close(r) == download' = None

Read ==
    /\ download # None
    /\ NextChunk(download) \/ LastChunk(download) \/ Close(download)
    /\ UNCHANGED <<phase, lock, uploads, rows, blobs, purges, doubted, strays, faults>>

\* Stored bytes are altered or cut off.
Corrupt(a) ==
    /\ blobs[a] # None /\ Fault
    /\ \/ \E i \in DOMAIN blobs[a] : blobs' = [blobs EXCEPT ![a][i] = Bad]
       \/ \E n \in 0..(Len(blobs[a]) - 1) : blobs' = [blobs EXCEPT ![a] = SubSeq(@, 1, n)]
    /\ UNCHANGED <<phase, lock, uploads, rows, purges, download, doubted, strays>>

------------------------------------------------------------------------------
ArtifactsInit ==
    /\ phase    = "open"
    /\ lock     = None
    /\ uploads  = [a \in Ids |-> [stage |-> "none", content |-> None, ref |-> None]]
    /\ rows     = [a \in Ids |-> None]
    /\ blobs    = [a \in Ids |-> None]
    /\ purges   = [k \in Purgers |-> None]
    /\ download = None
    /\ doubted  = {}
    /\ strays   = {}
    /\ faults   = 0

UploadStep(a) ==
    \/ Begin(a) \/ Put(a) \/ BodyFails(a) \/ PutAnswerLost(a) \/ Mismatch(a) \/ Check(a)
    \/ Commit(a) \/ CommitFails(a) \/ DropDuplicate(a) \/ Undo(a) \/ Abandon(a)

Purge(k) ==
    \/ Expired(k) \/ RemoveRows(k) \/ PurgeFails(k)
    \/ \E a \in Ids : DeleteBlob(k, a) \/ DeleteFails(k, a)

ArtifactsNext ==
    \/ \E a \in Ids : UploadStep(a) \/ Download(a) \/ Corrupt(a)
    \/ \E k \in Purgers : Purge(k)
    \/ EndRun \/ RetentionOver \/ Read

ArtifactsSpec == ArtifactsInit /\ [][ArtifactsNext]_artifactVars

\* A ticker keeps ticking, and a purge begun goes on.
FairArtifactsSpec ==
    /\ ArtifactsSpec
    /\ \A k \in Purgers : /\ WF_artifactVars(Expired(k)) /\ WF_artifactVars(RemoveRows(k))
                          /\ WF_artifactVars(\E a \in Ids : DeleteBlob(k, a))

------------------------------------------------------------------------------
ArtifactsTypeOK ==
    /\ phase \in {"open", "ended", "over"} /\ lock \in Maybe(Ids)
    /\ uploads \in [Ids -> Upload]
    /\ rows \in [Ids -> Maybe(Record)]
    /\ \A a \in Ids : blobs[a] = None \/ blobs[a] \in Bytes
    /\ purges \in [Purgers -> Maybe(PurgeTick)]
    /\ download # None => download.expects \in Contents /\ download.seen \in 0..Len(download.bytes)
    /\ doubted \subseteq Ids /\ strays \subseteq Ids /\ faults \in 0..MaxFaults

\* The reference an upload was answered, its own or the first of the same bytes, can be read
\* until the retention of the ended run is over: its row is there, and so are its bytes,
\* unless the upload that made it was told that its commit had failed (upload deletes the
\* bytes and the row stays).
ReferenceResolves ==
    \A a \in Ids : uploads[a].stage = "answered" /\ phase # "over" =>
        LET ref == uploads[a].ref
        IN  /\ rows[ref] # None /\ rows[ref].content = uploads[a].content
            /\ ref \notin doubted => blobs[ref] # None

\* Nothing but a failure or a death leaves bytes without a record: those of a refused upload
\* and of a repeat go, and a record goes only after its bytes (_purge_artifacts).
NoStrayBytes ==
    \A a \in Ids : blobs[a] # None /\ rows[a] = None =>
        a \in strays \/ uploads[a].stage \in {"stored", "checked", "drops", "undoes"}

\* An upload that races the end of its run leaves no artifact that never goes
\* (check_artifact_writer: "so the run cannot end between this check and the artifact's
\* insert").
AllExpire == phase # "open" => \A a \in Ids : rows[a] # None => rows[a].expires

\* Altered or truncated bytes never reach a caller complete (read).
CorruptNeverWhole ==
    download # None /\ Len(download.served) = Len(download.expects)
        => download.served = download.expects

\* An artifact that was answered can be read, and nothing else is ever read in its place.
ReadsSound == ReferenceResolves /\ CorruptNeverWhole

\* Once their retention is over every record goes, and its bytes before it (NoStrayBytes),
\* also when a delete failed or took effect unanswered, or a ticker died halfway
\* (_purge_artifacts).
ExpiredGo == phase = "over" ~> \A a \in Ids : rows[a] = None

------------------------------------------------------------------------------
ASSUME ArtifactsAssumption ==
    /\ None \notin Ids /\ None \notin Contents /\ None \notin Record /\ None \notin Bytes
    /\ \A c \in Contents : c \in Seq({c[i] : i \in DOMAIN c}) /\ c # <<>>
    /\ MaxFaults \in Nat
==============================================================================

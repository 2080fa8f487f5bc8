------------------------------- MODULE EventLog -------------------------------
(***************************************************************************)
(* The event log of one run: append_events and events of store/runs.py,    *)
(* the stream of api/routers/runs.py that follows the log, and a caller of *)
(* the SDK (client.py over _transport.py) that reads it, by pages first    *)
(* and then by the stream, opened again whenever it breaks.                *)
(*                                                                         *)
(* The run lives as RunLifecycle says, which RunStore implements; each of  *)
(* its changes takes the run's row lock, and so does an append, from the   *)
(* read of the last position to the commit.  Reads take no lock, and each  *)
(* statement sees what is committed when it runs.                          *)
(*                                                                         *)
(* Anyone may append anything, again and late; the fence decides.  A       *)
(* connection may break at any time, with what it carried.                 *)
(***************************************************************************)
EXTENDS Null, Integers, Sequences, SequencesExt

CONSTANTS
    Workers,
    Batches,          \* the appends callers send: sequences of [attempt, sequence]
    MAX_PAGE,         \* config/constants.py: the entries of one read of the stream
    PAGE_LIMIT,       \* _transport.py: the entries of one page
    max_retries,      \* Transport.max_retries
    MaxAttempts       \* bound: the attempts of the run

ASSUME EventLogAssumption ==
    /\ MAX_PAGE \in Nat \ {0} /\ PAGE_LIMIT \in Nat \ {0}
    /\ max_retries \in Nat /\ MaxAttempts \in Nat \ {0}
    /\ None \notin Workers /\ Batches \subseteq Seq([attempt : Nat, sequence : Nat])

VARIABLES
    run,              \* the run's row, as RunLifecycle sees it
    log,              \* run_events: the event at each position
    appending,        \* the events of the append whose transaction is open, or None
    conn,             \* the stream the service serves to the reader (_follow)
    wire,             \* what it sent and the reader has not taken yet
    reader,           \* the caller: stream_events, or the pages before it
    got               \* history: the entries the caller was given

server == <<run, log, appending>>
vars   == <<run, log, appending, conn, wire, reader, got>>

Life == INSTANCE RunLifecycle WITH RunIds <- {1}, life <- <<run>>

Gone  == run.status = "ABSENT"
Final == run.status \in Life!Ends

Event == UNION {ToSet(batch) : batch \in Batches}

\* An entry of the log on its way, and the stream's last event.
Entry == [position : Nat \ {0}, event : Event]
End   == [position |-> 0]

Conn == [stage : {"closed", "status", "rows", "send", "broken"},
         after : Nat, final : BOOLEAN, full : BOOLEAN, page : Seq(Entry)]

NoConn == [stage |-> "closed", after |-> 0, final |-> FALSE, full |-> FALSE, page |-> <<>>]

Reader == [stage : {"pages", "connect", "reading", "done", "raised"},
           after : Nat, failures : 0..max_retries]

------------------------------------------------------------------------------
(***************************************************************************)
(* The store.                                                              *)
(***************************************************************************)

\* _locked: the run's row lock is taken.
Locked == appending # None

WrongAddedWithinBatch(batch) ==
    SelectSeq(batch, LAMBDA e : \A i \in DOMAIN log : log[i] # e)

\* An event already in the log, or earlier in the append, is skipped: added[i] is what the
\* first i events of the batch come to.
Added(batch) ==
    LET added[i \in 0..Len(batch)] ==
            IF i = 0 THEN <<>>
            ELSE IF Contains(log, batch[i]) \/ Contains(added[i - 1], batch[i])
            THEN added[i - 1]
            ELSE Append(added[i - 1], batch[i])
    IN  added[Len(batch)]

\* append_events, from the lock: fenced as a heartbeat is ...
AppendEvents(w, batch) ==
    /\ ~Locked
    /\ run.status = "RUNNING" /\ run.worker = w
    /\ appending' = Added(batch)
    /\ UNCHANGED <<run, log, conn, wire, reader, got>>

\* ... to the commit of the rows at the next positions, or to its rollback.
AppendCommitted ==
    /\ Locked
    /\ log' = log \o appending
    /\ appending' = None
    /\ UNCHANGED <<run, conn, wire, reader, got>>

AppendFailed ==
    /\ Locked
    /\ appending' = None
    /\ UNCHANGED <<run, log, conn, wire, reader, got>>

WrongRunMovesUnlocked ==
    /\ ~Gone
    /\ Life!Step(run, run') /\ run'.attempt <= MaxAttempts
    /\ log' = IF run'.status = "ABSENT" THEN <<>> ELSE log
    /\ UNCHANGED <<appending, conn, wire, reader, got>>

\* Everything else that changes the run, under its row lock; a purge deletes the log with
\* the run.  The id of a purged run is not used again.
RunMoves ==
    /\ ~Locked /\ ~Gone
    /\ Life!Step(run, run') /\ run'.attempt <= MaxAttempts
    /\ log' = IF run'.status = "ABSENT" THEN <<>> ELSE log
    /\ UNCHANGED <<appending, conn, wire, reader, got>>

\* The entries past a position, at most limit of them.
EventsAfter(after, limit) ==
    [i \in 1..Min({limit, Max({Len(log) - after, 0})}) |->
        [position |-> after + i, event |-> log[after + i]]]

------------------------------------------------------------------------------
(***************************************************************************)
(* The stream, _follow: each turn reads the status, then the entries, then *)
(* sends them.                                                             *)
(***************************************************************************)
FollowStatus ==
    /\ conn.stage = "status"
    /\ conn' = IF Gone THEN [conn EXCEPT !.stage = "broken"]     \* NotFound, mid-stream
               ELSE [conn EXCEPT !.stage = "rows", !.final = Final]
    /\ wire' = IF Gone THEN <<>> ELSE wire
    /\ UNCHANGED <<run, log, appending, reader, got>>

FollowRows ==
    /\ conn.stage = "rows"
    /\ LET page == EventsAfter(conn.after, MAX_PAGE)
       IN  conn' = [conn EXCEPT !.stage = "send", !.page = page, !.full = Len(page) = MAX_PAGE]
    /\ UNCHANGED <<run, log, appending, wire, reader, got>>

FollowSend ==
    /\ conn.stage = "send" /\ conn.page # <<>>
    /\ wire' = Append(wire, Head(conn.page))
    /\ conn' = [conn EXCEPT !.after = Head(conn.page).position, !.page = Tail(@)]
    /\ UNCHANGED <<run, log, appending, reader, got>>

\* A full page: the next at once.  Else the end, when the run had ended before the read; or
\* after a while the next turn; or the stream has lasted long enough and closes without end.
FollowOn ==
    /\ conn.stage = "send" /\ conn.page = <<>>
    /\ \/ /\ conn.full
          /\ conn' = [conn EXCEPT !.stage = "status"]
          /\ UNCHANGED wire
       \/ /\ ~conn.full /\ conn.final
          /\ conn' = [conn EXCEPT !.stage = "closed"]
          /\ wire' = Append(wire, End)
       \/ /\ ~conn.full /\ ~conn.final
          /\ \E stage \in {"status", "closed"} : conn' = [conn EXCEPT !.stage = stage]
          /\ UNCHANGED wire
    /\ UNCHANGED <<run, log, appending, reader, got>>

\* The replica dies, the network fails, the stream is silent too long.
Breaks ==
    /\ reader.stage = "reading" /\ conn.stage # "broken"
    /\ conn' = [NoConn EXCEPT !.stage = "broken"]
    /\ wire' = <<>>
    /\ UNCHANGED <<run, log, appending, reader, got>>

Follow == FollowStatus \/ FollowRows \/ FollowSend \/ FollowOn

------------------------------------------------------------------------------
(***************************************************************************)
(* The reader.                                                             *)
(***************************************************************************)

\* events: a page past the position seen; the caller keeps the last position it was given.
ReadPage ==
    /\ reader.stage = "pages"
    /\ LET page == EventsAfter(reader.after, PAGE_LIMIT)
       IN  /\ got' = got \o page
           /\ reader' = IF Gone THEN [reader EXCEPT !.stage = "raised"]
                        ELSE [reader EXCEPT !.after = @ + Len(page)]
    /\ UNCHANGED <<run, log, appending, conn, wire>>

\* stream_events opens the stream: 404 for a run that is gone, before it starts.
OpenStream ==
    /\ reader.stage \in {"pages", "connect"}
    /\ IF Gone
       THEN /\ reader' = [reader EXCEPT !.stage = "raised"]
            /\ UNCHANGED conn
       ELSE /\ reader' = [reader EXCEPT !.stage = "reading"]
            /\ conn' = [NoConn EXCEPT !.stage = "status", !.after = reader.after]
    /\ UNCHANGED <<run, log, appending, wire, got>>

\* Transport.events: an answer that refuses the stream (429, 503, ...) is raised, not tried
\* again.
StreamRefused ==
    /\ reader.stage = "connect"
    /\ reader' = [reader EXCEPT !.stage = "raised"]
    /\ UNCHANGED <<run, log, appending, conn, wire, got>>

WrongTakeKeepsAfter ==
    /\ reader.stage = "reading" /\ wire # <<>>
    /\ wire' = Tail(wire)
    /\ IF Head(wire) = End
       THEN reader' = [reader EXCEPT !.stage = "done"] /\ UNCHANGED got
       ELSE /\ reader' = [reader EXCEPT !.failures = 0]
            /\ got' = Append(got, Head(wire))
    /\ UNCHANGED <<run, log, appending, conn>>

Take ==
    /\ reader.stage = "reading" /\ wire # <<>>
    /\ wire' = Tail(wire)
    /\ IF Head(wire) = End
       THEN reader' = [reader EXCEPT !.stage = "done"] /\ UNCHANGED got
       ELSE /\ reader' = [reader EXCEPT !.after = Head(wire).position, !.failures = 0]
            /\ got' = Append(got, Head(wire))
    /\ UNCHANGED <<run, log, appending, conn>>

\* The service closed the stream without end: opened again, as often as it takes.
OpenAgain ==
    /\ reader.stage = "reading" /\ wire = <<>> /\ conn.stage = "closed"
    /\ reader' = [reader EXCEPT !.stage = "connect"]
    /\ UNCHANGED <<run, log, appending, conn, wire, got>>

WrongFailedUncounted(r) ==
    [r EXCEPT !.stage = "connect"]

\* A TransportError: raised once there were max_retries of them without an entry between.
Failed(r) ==
    IF r.failures >= max_retries THEN [r EXCEPT !.stage = "raised"]
    ELSE [r EXCEPT !.stage = "connect", !.failures = @ + 1]

StreamBroken ==
    /\ reader.stage = "reading" /\ conn.stage = "broken"
    /\ reader' = Failed(reader)
    /\ conn' = NoConn
    /\ UNCHANGED <<run, log, appending, wire, got>>

Reads == OpenStream \/ Take \/ OpenAgain \/ StreamBroken

------------------------------------------------------------------------------
Init ==
    /\ run \in {Life!At("QUEUED", 1, None), Life!At("RUNNING", 1, None)}
    /\ log = <<>> /\ appending = None
    /\ conn = NoConn /\ wire = <<>>
    /\ reader = [stage |-> "pages", after |-> 0, failures |-> 0]
    /\ got = <<>>

Next ==
    \/ \E w \in Workers \cup {None}, batch \in Batches : AppendEvents(w, batch)
    \/ AppendCommitted \/ AppendFailed
    \/ RunMoves
    \/ Follow \/ Breaks
    \/ ReadPage \/ StreamRefused \/ Reads

Spec == Init /\ [][Next]_vars

\* The service turns its loop and the reader reads on; a page between is not owed, nor does
\* a run ever have to end, and nothing limits how often a connection breaks.
FairSpec == Spec /\ WF_vars(Follow) /\ WF_vars(Reads)

------------------------------------------------------------------------------
(***************************************************************************)
(* Properties.                                                             *)
(***************************************************************************)

TypeOK ==
    /\ log \in Seq(Event) /\ appending \in {None} \cup Seq(Event)
    /\ conn \in Conn /\ wire \in Seq(Entry \cup {End})
    /\ reader \in Reader /\ got \in Seq(Entry)

\* An event is in the log once, however often and late its append is repeated
\* (append_events skips what is logged, under the row lock).
LoggedOnce == \A i, j \in DOMAIN log : log[i] = log[j] => i = j

\* What the caller was given is the log from its first event on, nothing twice, nothing left
\* out, in order, whatever pages, streams and breaks it took (stream_events opens the stream
\* again from the last position yielded).
ReadsInOrder ==
    ~Gone => \A i \in DOMAIN got : /\ i <= Len(log)
                                   /\ got[i] = [position |-> i, event |-> log[i]]

\* A stream that came to its "end" gave every event there will ever be: the run has ended,
\* no append is under way, and none is missing (events reads the status before the rows, an
\* append holds the row lock, a full page is never the last).
EndIsLast ==
    reader.stage = "done" /\ ~Gone =>
        Final /\ appending = None /\ Len(got) = Len(log)

\* A caller that follows a run that ended comes to an end itself, or is told it cannot: it
\* never waits for events of a run that has none left, or is gone.
FollowerEnds == (Final \/ Gone) ~> reader.stage \in {"done", "raised"}
=============================================================================

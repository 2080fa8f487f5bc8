------------------------------- MODULE Paging -------------------------------
(***************************************************************************)
(* The listings, a page at a time: the stores' keyset pages                *)
(* (store/paging.py and every list of the stores), the cursor and the Link *)
(* that carry a position to the client and back (api/pagination.py), and   *)
(* the client that reads page after page (RunsClient.iterate) over a       *)
(* transport that sends a failed call again (Transport.send).              *)
(*                                                                         *)
(* Between two pages rows are written, with a time that is older than the  *)
(* present (the clock is read when the request or the sweep begins), enter *)
(* and leave the listing's filter, and are removed.  An id is used once.   *)
(*                                                                         *)
(* The specification is Paging..., WorkerLoop has the plain names: they    *)
(* share a module of proofs.                                               *)
(***************************************************************************)
EXTENDS Problems, Sequences, SequencesExt

CONSTANTS
    Ids,                  \* ids as the database orders them: numbers
    Listings,             \* [of, limit, max_pages]: pages of a listing, all or the first few
    max_retries,
    MaxDelay,             \* how old a row's time may be when it is written
    MaxTime,              \* bound on the clock
    Failures              \* how a call may fail that was sent

\* No answer came, or none that can be read.
NoAnswer   == [status |-> 0, code |-> "DEPENDENCY_UNAVAILABLE", retryable |-> TRUE]
Unreadable == [status |-> 0, code |-> "INTERNAL", retryable |-> FALSE]

\* What a read may meet on its way, or be answered by a proxy or the service.
ReadFailures ==
    {NoAnswer, Unreadable} \cup {Proxied(status) : status \in {500, 502}}
    \cup {Problem(kind) : kind \in {"Unauthorized", "RateLimited", "Unavailable", "Fault"}}

\* The service's listings: newest or oldest first, the columns of a position, whether what a
\* caller asks for can change, and whether a row can be removed.
Runs        == [newest |-> TRUE, columns |-> {"created_at", "run_id"},
                filtered |-> TRUE, removed |-> TRUE]
Resolutions == [newest |-> FALSE, columns |-> {"recorded_at", "resolution_id"},
                filtered |-> FALSE, removed |-> FALSE]
Schedules   == [newest |-> TRUE, columns |-> {"created_at", "schedule_id"},
                filtered |-> TRUE, removed |-> TRUE]
Webhooks    == [newest |-> FALSE, columns |-> {"created_at", "webhook_id"},
                filtered |-> FALSE, removed |-> TRUE]
Deliveries  == [newest |-> TRUE, columns |-> {"created_at", "delivery_id"},
                filtered |-> TRUE, removed |-> TRUE]

ASSUME PagingAssumption ==
    /\ None \notin Nat /\ None \notin BOOLEAN /\ None \notin DOMAIN BY_CODE
    /\ None \notin [at : Nat, id : Nat]
    /\ Ids \subseteq Nat /\ {max_retries, MaxDelay, MaxTime} \subseteq Nat
    /\ \A l \in Listings : /\ l.of \in {Runs, Resolutions, Schedules, Webhooks, Deliveries}
                           /\ l.limit \in Nat \ {0}
                           /\ l.max_pages \in (Nat \ {0}) \cup {None}
                           /\ None \notin [columns : {l.of.columns}, position : [at : Nat, id : Nat]]
    /\ Failures \subseteq ReadFailures

VARIABLES
    now,
    rows,                 \* the table: [at, id], and whether it fits the filter
    free,                 \* the ids not used yet
    listing,              \* the one that is read
    reader,
    \* history
    read,                 \* the rows the reader was given, in order
    steady,               \* those that fitted all the while
    failed                \* how often the call under way has failed, max_retries + 1 at most

pagingVars == <<now, rows, free, listing, reader, read, steady, failed>>

Position(row) == [at |-> row.at, id |-> row.id]

\* The columns a listing is ordered by, which no write changes.
Precedes(p, q) == p.at < q.at \/ (p.at = q.at /\ p.id < q.id)

\* The order the listing is read in.
Before(p, q) == IF listing.of.newest THEN Precedes(q, p) ELSE Precedes(p, q)

Fitting == {Position(row) : row \in {r \in rows : r.fits}}

------------------------------------------------------------------------------
(***************************************************************************)
(* The service: list, resolutions and deliveries of the stores.            *)
(***************************************************************************)

WrongPastInclusive(after, p) == after = None \/ ~Before(p, after)

\* The listing's condition on the keyset: all of it compares, so a time two rows share
\* neither hides one nor shows it twice.
Past(after, p) == after = None \/ Before(after, p)

\* ORDER BY.
Ordered(S) ==
    CHOOSE s \in [1..Cardinality(S) -> S] :
        \A i, j \in 1..Cardinality(S) : i < j => Before(s[i], s[j])

\* The first limit + 1 rows past the cursor, in the order of the listing.
Fetched(after) ==
    LET all == Ordered({p \in Fitting : Past(after, p)})
    IN  SubSeq(all, 1, IF Len(all) > listing.limit THEN listing.limit + 1 ELSE Len(all))

WrongPageOfLastFetched(fetched) ==
    LET more == Len(fetched) > listing.limit
        kept == IF more THEN SubSeq(fetched, 1, listing.limit) ELSE fetched
    IN  [items |-> kept, after |-> IF more THEN Last(fetched) ELSE None]

\* page_of: a row too many says that there is a next page, which starts past the last kept.
PageOf(fetched) ==
    LET more == Len(fetched) > listing.limit
        kept == IF more THEN SubSeq(fetched, 1, listing.limit) ELSE fetched
    IN  [items |-> kept, after |-> IF more THEN Last(kept) ELSE None]

\* encode_cursor, link_next, next_cursor: the position goes to the client, with the names of
\* its columns, in the Link of the answer, and comes back in the next request as it was (times
\* are written in full).
Cursor(of, position) == [columns |-> of.columns, position |-> position]

\* decode_cursor: the columns named are this listing's; the first page has no cursor.
Issued(cursor)  == cursor # None => cursor.columns = listing.of.columns
Decoded(cursor) == IF cursor = None THEN None ELSE cursor.position

\* The route: one statement reads the page.
List ==
    /\ reader.stage = "sent"
    /\ reader' =
         IF Issued(reader.cursor)
         THEN [reader EXCEPT !.stage = "answered", !.answer = PageOf(Fetched(Decoded(reader.cursor)))]
         ELSE [reader EXCEPT !.stage = "failing", !.answer = Problem("Unprocessable")]
    /\ UNCHANGED <<now, rows, free, listing, read, steady, failed>>

------------------------------------------------------------------------------
(***************************************************************************)
(* The client: RunsClient.iterate, list and Transport.send.                *)
(***************************************************************************)
Elsewhere == Cursor(IF listing.of = Runs THEN Schedules ELSE Runs, [at |-> 0, id |-> 0])

Idle == [stage |-> "idle", cursor |-> None, retry |-> 0, pages |-> 0, answer |-> None]

\* A caller begins: from the first page, or with a cursor of another listing.
Begin(cursor) ==
    /\ reader.stage = "idle"
    /\ reader' = [reader EXCEPT !.stage = "sent", !.cursor = cursor]
    /\ steady' = Fitting
    /\ UNCHANGED <<now, rows, free, listing, read, failed>>

\* The call fails: before the service read anything, or after it, when the answer is lost.
Fails ==
    /\ reader.stage \in {"sent", "answered"}
    /\ \E f \in Failures :
         /\ reader.stage = "answered" => f \in {NoAnswer, Unreadable, Proxied(502)}
         /\ reader' = [reader EXCEPT !.stage = "failing", !.answer = f]
    /\ UNCHANGED <<now, rows, free, listing, read, steady, failed>>

\* An attempt without an answer is repeated, whatever became of it.
SentAgain(answer) == answer = NoAnswer \/ Again(answer)

WrongRetriesUncounted(retry) == retry

Retries(retry) == retry + 1

\* send: after a wait, the call is sent again; or its error is raised to the caller.
SendAgain ==
    /\ reader.stage = "failing"
    /\ reader' =
         IF SentAgain(reader.answer) /\ reader.retry < max_retries
         THEN [reader EXCEPT !.stage = "sent", !.retry = Retries(@), !.answer = None]
         ELSE [reader EXCEPT !.stage = "raised"]
    /\ failed' = IF failed <= max_retries THEN failed + 1 ELSE failed
    /\ UNCHANGED <<now, rows, free, listing, read, steady>>

WrongNextCallRetriesLeft(page) ==
    [reader EXCEPT !.stage = "sent", !.cursor = Cursor(listing.of, page.after), !.pages = @ + 1,
                   !.answer = None]

\* The next page's call, with all its retries.
NextCall(page) ==
    [reader EXCEPT !.stage = "sent", !.cursor = Cursor(listing.of, page.after), !.pages = @ + 1,
                   !.answer = None, !.retry = 0]

\* The page comes: its items are yielded, and the next one is asked for when there is one.
PageComes ==
    /\ reader.stage = "answered"
    /\ LET page  == reader.answer
           pages == reader.pages + 1
       IN  /\ reader' = IF page.after = None \/ pages = listing.max_pages
                        THEN [reader EXCEPT !.stage = "ended", !.pages = pages]
                        ELSE NextCall(page)
           /\ read' = read \o page.items
    /\ failed' = 0
    /\ UNCHANGED <<now, rows, free, listing, steady>>

------------------------------------------------------------------------------
(***************************************************************************)
(* The table.                                                              *)
(***************************************************************************)
Write(id, at, fits) ==
    /\ listing.of.filtered \/ fits
    /\ id \in free /\ at \in {t \in 0..now : t >= now - MaxDelay}
    /\ rows' = rows \cup {[at |-> at, id |-> id, fits |-> fits]}
    /\ free' = free \ {id}
    /\ UNCHANGED <<now, listing, reader, read, steady, failed>>

\* A row changes its status, assignee or whatever else the listing asks for.
Change(row) ==
    /\ listing.of.filtered
    /\ rows' = (rows \ {row}) \cup {[row EXCEPT !.fits = ~@]}
    /\ steady' = steady \ {Position(row)}
    /\ UNCHANGED <<now, free, listing, reader, read, failed>>

\* A row is purged or deleted; a run's answered questions go with the run only, which stays
\* here while they are read.
Drop(row) ==
    /\ listing.of.removed
    /\ rows' = rows \ {row}
    /\ steady' = steady \ {Position(row)}
    /\ UNCHANGED <<now, free, listing, reader, read, failed>>

Passes ==
    /\ now < MaxTime
    /\ now' = now + 1
    /\ UNCHANGED <<rows, free, listing, reader, read, steady, failed>>

PagingInit ==
    /\ now = 0
    /\ rows = {} /\ free = Ids
    /\ listing \in Listings
    /\ reader = Idle
    /\ read = <<>> /\ steady = {} /\ failed = 0

Reads == List \/ SendAgain \/ PageComes

PagingNext ==
    \/ \E cursor \in {None, Elsewhere} : Begin(cursor)
    \/ Reads \/ Fails
    \/ \E id \in Ids, at \in 0..MaxTime, fits \in BOOLEAN : Write(id, at, fits)
    \/ \E row \in rows : Change(row) \/ Drop(row)
    \/ Passes

PagingSpec == PagingInit /\ [][PagingNext]_pagingVars

\* The service answers or the attempt times out, and the client's loop goes on.
FairPagingSpec == PagingSpec /\ WF_pagingVars(Reads)

------------------------------------------------------------------------------
(***************************************************************************)
(* Properties.                                                             *)
(***************************************************************************)
PagingTypeOK ==
    /\ now \in 0..MaxTime /\ free \subseteq Ids
    /\ rows \subseteq [at : 0..MaxTime, id : Ids, fits : BOOLEAN]
    /\ reader.stage \in {"idle", "sent", "answered", "failing", "ended", "raised"}
    /\ reader.retry \in 0..max_retries
    /\ ToSet(read) \subseteq [at : 0..MaxTime, id : Ids]

\* Whatever is written, changed and removed between the pages, and however often a page is
\* read again, the reader is given the rows in the listing's order and none of them twice
\* (page_of, the keyset of list, iterate).
InOrder == \A i \in 1..Len(read) - 1 : Before(read[i], read[i + 1])

\* A reader that came to the last page was given every row that was there, and fitted, all
\* the while (store/paging.py: the position is of immutable columns).
NoneMissed ==
    reader.stage = "ended" /\ (listing.max_pages = None \/ reader.pages < listing.max_pages)
        => steady \subseteq ToSet(read)

\* A reader is given each row once, and leaves none out.
EachOnce == InOrder /\ NoneMissed

\* An error reaches the caller when another attempt is not worth it or the call has failed
\* max_retries + 1 times, whichever page it is, and no answer that says "try again" is raised
\* sooner (send, _again; api/errors.py's retryable).
RaisedInTurn ==
    reader.stage = "raised" =>
        \/ failed = max_retries + 1
        \/ ErrorClass(reader.answer)
               \notin {"RateLimitedError", "DependencyUnavailableError"}

\* Reading comes to an end, however many calls fail (max_retries), and however many rows are
\* written in the meantime (their ids and times are limited here).
ReadingEnds == (reader.stage # "idle") ~> (reader.stage \in {"ended", "raised"})
=============================================================================

------------------------------ MODULE MCPaging ------------------------------
(***************************************************************************)
(* Paging for TLC: each listing of the service, in pages of one or of two  *)
(* rows, and a reader that stops after two pages.                          *)
(***************************************************************************)
EXTENDS Paging

All(of, limit) == [of |-> of, limit |-> limit, max_pages |-> None]

Pages ==
    {All(Runs, 2), All(Resolutions, 2), All(Schedules, 1), All(Webhooks, 1), All(Deliveries, 1),
     [of |-> Runs, limit |-> 1, max_pages |-> 2]}

AnyFailure == ReadFailures
=============================================================================

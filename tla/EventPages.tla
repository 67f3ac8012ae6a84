---------------------------- MODULE EventPages ----------------------------
(***************************************************************************)
(* GET /v1/anomaly_events (crates/gateway/src/routes/events.rs): a client  *)
(* walks the feed page by page with the cursor of the page before, while   *)
(* rows are inserted.  A request without a cursor starts the walk again.   *)
(***************************************************************************)
EXTENDS AnomalyEvents

CONSTANT Limit  \* the page size after the clamp

ASSUME LimitAssumption == Limit \in Nat \ {0}

VARIABLES
  walked,   \* the rows of the pages received so far, in order
  cursor,   \* next_cursor of the last page, NoCursor when it was null
  atStart,  \* history: the rows the table had when the walk began
  over      \* the last page had no next_cursor (or no walk has begun)

vars == <<events, walked, cursor, atStart, over>>

Init ==
  /\ events = {} /\ walked = <<>> /\ cursor = NoCursor
  /\ atStart = {} /\ over = TRUE

Insert ==
  /\ \E oat \in 1..MaxTime, token \in Tokens : InsertEvent(oat, token)
  /\ UNCHANGED <<walked, cursor, atStart, over>>

\* One row more than the page is fetched to learn whether there is a next.
Serve(before, sofar) ==
  LET found == Fetch(0, before, Limit + 1)
      more  == Len(found) > Limit
      page  == IF more THEN SubSeq(found, 1, Limit) ELSE found
  IN /\ walked' = sofar \o page
     /\ cursor' = IF more THEN page[Limit] ELSE NoCursor
     /\ over' = ~more

FirstPage ==
  /\ Serve(NoCursor, <<>>)
  /\ atStart' = events
  /\ UNCHANGED events

NextPage ==
  /\ ~over
  /\ Serve(cursor, walked)
  /\ UNCHANGED <<events, atStart>>

Next == Insert \/ FirstPage \/ NextPage

Spec == Init /\ [][Next]_vars

\* However inserts fall between the pages, the walk goes strictly from newer
\* to older rows and skips none that was there when it began (events.rs:8 "a
\* stable keyset cursor that does not degrade under concurrent inserts").
WalkExact ==
  /\ \A i \in 1..Len(walked) - 1 : Later(walked[i], walked[i + 1])
  /\ \A r \in atStart :
       (\E i \in 1..Len(walked) : walked[i] = r) \/ (~over /\ Later(cursor, r))
=============================================================================

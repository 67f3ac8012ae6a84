--------------------------- MODULE AnomalyEvents ---------------------------
(***************************************************************************)
(* The anomaly_events table and the one query its readers share,           *)
(* PgStore::fetch_anomaly_events_paginated (crates/storage/src/pg.rs).     *)
(* A row is its id (assigned in insertion order), its observed_at (set by  *)
(* the detector, so later ids may be observed earlier) and its token.  The *)
(* upper bound of every query is the present, later than any observed_at.  *)
(***************************************************************************)
EXTENDS Naturals, Sequences, FiniteSets, SequencesExt

CONSTANTS
  MaxEvents,  \* bound: how many rows are ever inserted
  MaxTime,    \* bound: observed_at is in 1..MaxTime
  Tokens      \* the tokens events are about

ASSUME EventsAssumption == MaxEvents \in Nat /\ MaxTime \in Nat \ {0}

VARIABLE events

Id  == 1..MaxEvents
Row == [id : Id, oat : 1..MaxTime, token : Tokens]

\* A keyset cursor; a NULL cursor time is 0.
NoCursor == [oat |-> 0, id |-> 0]

\* ORDER BY observed_at DESC, id DESC
Later(a, b) == a.oat > b.oat \/ (a.oat = b.oat /\ a.id > b.id)

\* Altered BeforeCursor: the comparison forgets the id.
BeforeCursorByTime(r, cursor) == cursor.oat = 0 \/ r.oat < cursor.oat

\* $7 IS NULL OR (observed_at, id) < ($7, $8): without a cursor time the
\* cursor id is not looked at.
BeforeCursor(r, cursor) == cursor.oat = 0 \/ Later(cursor, r)

\* At most n rows observed at `from' or later, below the cursor, newest first:
\* the k-th has k - 1 newer ones before it.
Fetch(from, cursor, n) ==
  LET hits == {r \in events : r.oat >= from /\ BeforeCursor(r, cursor)}
      Newer(r) == {h \in hits : Later(h, r)}
      size == IF n < Cardinality(hits) THEN n ELSE Cardinality(hits)
  IN [k \in 1..size |-> CHOOSE r \in hits : Cardinality(Newer(r)) = k - 1]

\* insert_anomaly_events commits one row: a plain INSERT.
InsertEvent(oat, token) ==
  /\ Cardinality(events) < MaxEvents
  /\ events' = events \union
       {[id |-> Cardinality(events) + 1, oat |-> oat, token |-> token]}
=============================================================================

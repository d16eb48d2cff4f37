---------------------------- MODULE AuditLogPage ----------------------------
(***************************************************************************)
(* The administrator's log page (public/audit-log.js) and the queries      *)
(* behind it (auditLogController.js, auditLogService.js), while            *)
(* recordAuditLog goes on inserting rows.                                  *)
(*                                                                         *)
(* A query counts the matching rows in one statement and selects a page of *)
(* them in the next; rows are inserted in between, and the answers of      *)
(* overlapping queries reach the page in any order.  A row is its position *)
(* in the table, which is its id and the order of its timestamp; of its    *)
(* other columns only the action is kept.                                  *)
(***************************************************************************)
EXTENDS Naturals, Sequences, FiniteSets, Bags, FiniteSetsExt

CONSTANTS NoFilter,         \* the select's empty value
          Actions,          \* actions that are recorded
          PageLimit,        \* rows to a page: 20
          MaxAllowedLimit,  \* cap of the list: 500
          ExportLimit,      \* rows of an export: 5000
          MaxRows,          \* bound: rows in the table
          MaxPage,          \* bound: pages asked for
          MaxFetches        \* bound: requests under way at a time

ASSUME AuditLogAssumption ==
    /\ NoFilter \notin Actions
    /\ {PageLimit, MaxAllowedLimit, ExportLimit, MaxRows, MaxPage, MaxFetches} \subseteq Nat \ {0}
    /\ PageLimit <= MaxAllowedLimit

VARIABLES rows,     \* table audit_logs: the action of each row
          state,    \* page and sortDir of the page
          link,     \* the filter of the last list, which the export links have too
          fetches,  \* bag of requests under way
          reading   \* history: what a patient reader has seen; empty if there is none

logPage == <<state, link>>
logVars == <<rows, logPage, fetches, reading>>

Idle == fetches = EmptyBag

(***************************************************************************)
(* Queries.                                                                *)
(***************************************************************************)
Matching(filter) == {i \in DOMAIN rows : filter \in {NoFilter, rows[i]}}

\* The cap applied to exports too.
SafeLimit_AlwaysCapped(kind, limit) == Min({limit, MaxAllowedLimit})

SafeLimit(kind, limit) ==
    Min({limit, IF kind = "export" THEN ExportLimit ELSE MaxAllowedLimit})

Offset(page, limit) == (page - 1) * limit

\* What ORDER BY timestamp, LIMIT and OFFSET cut out of the matching rows.
Selection(f) ==
    LET found       == Matching(f.filter)
        limit       == SafeLimit(f.kind, f.limit)
        first       == Offset(f.page, limit)
        Position(i) == Cardinality(IF f.sortDir = "ASC" THEN {j \in found : j <= i}
                                                        ELSE {j \in found : j >= i})
    IN  {i \in found : first < Position(i) /\ Position(i) <= first + limit}

(***************************************************************************)
(* The page.                                                               *)
(***************************************************************************)
Sends(fetch) ==
    /\ BagCardinality(fetches) < MaxFetches
    /\ fetches' = fetches (+) SetToBag({fetch})

ListFetch(filter, next) ==
    [kind |-> "list", phase |-> "sent", filter |-> filter, page |-> next.page,
     sortDir |-> next.sortDir, limit |-> PageLimit, present |-> {},
     total |-> 0]

\* The form is read when a request is sent, whatever has been chosen in it since
\* the last one.  A patient reader starts on page 1, turns the page when it has
\* come, and leaves the form alone.
FetchLogs(filter, next, restart) ==
    /\ state' = next
    /\ link' = filter
    /\ Sends(ListFetch(filter, next))
    /\ reading' = IF Idle /\ restart
                  THEN {[filter |-> filter, present |-> Matching(filter), seen |-> {},
                         ended |-> FALSE]}
                  ELSE {[r EXCEPT !.ended = FALSE] :
                          r \in {r \in reading : Idle /\ ~restart /\ r.filter = filter}}
    /\ UNCHANGED rows

\* Without a filter it is resetFilters.
ReloadLogs(filter) == FetchLogs(filter, [state EXCEPT !.page = 1], TRUE)

PrevPage(filter) ==
    /\ state.page > 1
    /\ FetchLogs(filter, [state EXCEPT !.page = @ - 1], FALSE)

NextPage(filter) ==
    /\ state.page < MaxPage
    /\ FetchLogs(filter, [state EXCEPT !.page = @ + 1], FALSE)

\* A click on the head of the column of times.
SortClicked(filter) ==
    LET dir == IF state.sortDir = "ASC" THEN "DESC" ELSE "ASC"
    IN  FetchLogs(filter, [page |-> 1, sortDir |-> dir], TRUE)

\* A click on a link to a PDF or Excel file.
Export ==
    /\ Sends([kind |-> "export", phase |-> "sent", filter |-> link, page |-> 1,
              sortDir |-> "DESC", limit |-> ExportLimit,
              present |-> Matching(link), total |-> 0])
    /\ reading' = {}
    /\ UNCHANGED <<rows, logPage>>

(***************************************************************************)
(* The server.                                                             *)
(***************************************************************************)
RecordAuditLog(action) ==
    /\ Len(rows) < MaxRows
    /\ rows' = Append(rows, action)
    /\ UNCHANGED <<logPage, fetches, reading>>

Becomes(f, next) == fetches' = (fetches (-) SetToBag({f})) (+) SetToBag({next})

Count(f) ==
    /\ f.phase = "sent"
    /\ Becomes(f, [f EXCEPT !.phase = "counted", !.total = Cardinality(Matching(f.filter))])
    /\ UNCHANGED <<rows, logPage, reading>>

\* What the answer does not tell is kept for the properties: whether a row
\* came between the two statements, and the rows there were to export.
Select(f) ==
    /\ f.phase = "counted"
    /\ Becomes(f, [kind |-> f.kind, phase |-> "answered", rows |-> Selection(f),
                   total |-> f.total, present |-> f.present,
                   overtaken |-> f.total # Cardinality(Matching(f.filter))])
    /\ UNCHANGED <<rows, logPage, reading>>

\* Either statement fails, or the request is lost.  The table says so, and the
\* label keeps the page it had.
Fails(f) ==
    /\ fetches' = fetches (-) SetToBag({f})
    /\ reading' = {}
    /\ UNCHANGED <<rows, logPage>>

\* Rounded down.
TotalPages_Floor(total) == Max({total \div PageLimit, 1})

TotalPages(total) == Max({(total + PageLimit - 1) \div PageLimit, 1})

\* The label says `Halaman p dari n` with the page's own number, not the
\* answer's.
OnLastPage(f) == state.page >= TotalPages(f.total)

Show(f) ==
    /\ f.kind = "list"
    /\ reading' = {[r EXCEPT !.seen  = @ \cup f.rows,
                            !.ended = OnLastPage(f) /\ ~f.overtaken] : r \in reading}

Download(f) == f.kind = "export" /\ UNCHANGED reading

Receive(f) ==
    /\ f.phase = "answered"
    /\ Show(f) \/ Download(f)
    /\ fetches' = fetches (-) SetToBag({f})
    /\ UNCHANGED <<rows, logPage>>

\* DOMContentLoaded: the first page is asked for.
LogInit ==
    /\ rows = <<>>
    /\ state = [page |-> 1, sortDir |-> "DESC"]
    /\ link = NoFilter
    /\ fetches = SetToBag({ListFetch(link, state)})
    /\ reading = {}

LogNext ==
    \/ \E filter \in Actions \cup {NoFilter} :
          ReloadLogs(filter) \/ PrevPage(filter) \/ NextPage(filter) \/ SortClicked(filter)
    \/ Export
    \/ \E action \in Actions : RecordAuditLog(action)
    \/ \E f \in DOMAIN fetches : Count(f) \/ Select(f) \/ Fails(f) \/ Receive(f)

LogSpec == LogInit /\ [][LogNext]_logVars

(***************************************************************************)
(* Properties.                                                             *)
(***************************************************************************)
\* COUNT and SELECT are two statements and OFFSET counts from a moving start,
\* yet a reader who starts on page 1, waits for every page and turns to the
\* next until the label says it is the last has seen every row that matched in
\* the beginning, in either order of time, though rows kept coming.  It takes
\* that none came between the two statements for the last page.
PagesShowEveryRow ==
    \A r \in reading : r.ended => r.present \subseteq r.seen

\* An export has every matching row there was when it was asked for; when the
\* limit of the export leaves some out they are the oldest.
ExportIsWhole ==
    \A f \in DOMAIN fetches :
        f.kind = "export" /\ f.phase = "answered" =>
            \A i \in f.present \ f.rows :
                Cardinality(f.rows) = ExportLimit /\ \A j \in f.rows : i < j
=============================================================================

------------------------------ MODULE Listing ------------------------------
(***************************************************************************)
(* The paged lists of accounts, events and API keys. A request is two      *)
(* statements, COUNT and SELECT ... LIMIT OFFSET, with no transaction      *)
(* around them; the admin panel walks through a list by a request a page.  *)
(* Meanwhile rows come and go, and an update moves a row within the order  *)
(* of the column it changes.                                               *)
(*                                                                         *)
(* Which rows a filter matches is data: table holds those that match now.  *)
(* An ascending and a descending order of a column are two columns here.   *)
(* Definitions named X_Y are definition X with the slip Y, which some      *)
(* property must detect.                                                   *)
(***************************************************************************)
EXTENDS Integers, FiniteSets

CONSTANTS
  Rows,         \* whatever may be listed
  InitialPlace, \* per column, the place of each row in its order at first
  Places,       \* the places an update may move a row to
  MaxLimit,     \* maxLimit: 100
  DefaultLimit, \* defaultLimit: 20
  PageSizes,    \* the page sizes the panel asks for
  Fields,       \* the columns clients ask to sort by
  Bounds,       \* the values of _start and _end other clients ask for
  Absent,       \* no such parameter
  MaxInserts,   \* bound: rows that come during one walk
  MaxMoves,     \* bound: listed rows that move during one walk
  BreaksOff     \* may the database's answer end before its last row?

Columns == {"id", "created_at", "email", "role", "active", "username", "name"}

ASSUME ListingAssumption ==
  /\ IsFiniteSet(Rows)
  /\ InitialPlace \in [Columns -> [Rows -> Nat]]
  /\ \A c \in {"id", "email"} : \A x, y \in Rows :
       InitialPlace[c][x] = InitialPlace[c][y] => x = y
  /\ Places \subseteq Nat
  /\ MaxLimit \in Nat \ {0} /\ DefaultLimit \in 1..MaxLimit
  /\ PageSizes \subseteq Nat \ {0} /\ Fields \subseteq Columns
  /\ Bounds \subseteq Int /\ Absent \notin Int
  /\ MaxInserts \in Nat /\ MaxMoves \in Nat
  /\ BreaksOff \in BOOLEAN

VARIABLES
  list,    \* the resource that is listed
  table,   \* the rows that match the filter
  place,   \* per column, the place of each row in its order
  pc,      \* the statement the request runs next, or what became of it
  request, \* its offset, limit and column
  total,   \* the answer of its COUNT: X-Total-Count
  rows,    \* the rows of the last response
  page,    \* the page the panel is at; 0 when the request is no walk's
  perPage,
  start,   \* history: the rows there when the walk began, and since
  seen,    \* history: how often the walk showed each row
  inserts, \* history: the rows that came since the walk began
  moves,   \* history: the listed rows that moved in its column since then
  deleted, \* history: did a row go since the walk began?
  quiet,   \* history: no row came or went since the COUNT
  cut      \* history: a page of the walk was cut short by the database

walk == <<page, perPage, start, seen>>
changes == <<inserts, moves, deleted, quiet, cut>>
data == <<list, table, place>>
vars == <<data, pc, request, total, rows, walk, changes>>

Smaller(m, n) == IF m < n THEN m ELSE n

(* Type correctness of the state. *)
TypeOK ==
  /\ list \in {"accounts", "events", "api-keys"}
  /\ table \subseteq Rows
  /\ place \in [Columns -> [Rows -> Nat]]
  /\ pc \in {"idle", "count", "select", "shown", "failed"}
  /\ request \in [offset : Nat, limit : 1..MaxLimit, column : Columns]
  /\ total \in Nat
  /\ rows \subseteq Rows /\ Cardinality(rows) <= request.limit
  /\ page \in Nat /\ perPage \in Nat
  /\ start \subseteq table
  /\ seen \in [Rows -> Nat]
  /\ inserts \in Nat /\ moves \in Nat /\ deleted \in BOOLEAN /\ quiet \in BOOLEAN
  /\ cut \in BOOLEAN /\ (cut => list # "accounts")

Init ==
  /\ list \in {"accounts", "events", "api-keys"}
  /\ table \in SUBSET Rows
  /\ place = InitialPlace
  /\ pc = "idle"
  /\ request = [offset |-> 0, limit |-> DefaultLimit, column |-> "id"]
  /\ total = 0 /\ rows = {}
  /\ page = 0 /\ perPage = 0 /\ start = {} /\ seen = [x \in Rows |-> 0]
  /\ inserts = 0 /\ moves = 0 /\ deleted = FALSE /\ quiet = FALSE /\ cut = FALSE

-----------------------------------------------------------------------------
(* The parameters of a request, and the columns a list can be sorted by:    *)
(* whatever else is asked for, created_at is used.                          *)
Valid(s, e) == Absent \notin {s, e} => 0 <= s /\ s < e

Parse_Unclamped(s, e) ==
  IF Absent \in {s, e}
  THEN [offset |-> 0, limit |-> DefaultLimit]
  ELSE [offset |-> s, limit |-> e - s]

Parse_ClampsTooEarly(s, e) ==
  IF Absent \in {s, e}
  THEN [offset |-> 0, limit |-> DefaultLimit]
  ELSE [offset |-> s, limit |-> IF e - s >= MaxLimit THEN DefaultLimit ELSE e - s]

Parse_KeepsEnd(s, e) ==
  IF Absent \in {s, e}
  THEN [offset |-> 0, limit |-> DefaultLimit]
  ELSE [offset |-> s, limit |-> Smaller(e, MaxLimit)]

Parse(s, e) ==
  IF Absent \in {s, e}
  THEN [offset |-> 0, limit |-> DefaultLimit]
  ELSE [offset |-> s, limit |-> Smaller(e - s, MaxLimit)]

AccountColumns == {"id", "email", "role", "active", "created_at"}
EventColumns == {"id", "created_at", "username", "name"}
KeyColumns == {"id", "created_at", "active"}

SortColumns ==
  CASE list = "accounts" -> AccountColumns
    [] list = "events" -> EventColumns
    [] list = "api-keys" -> KeyColumns

Column(f) == IF f \in SortColumns THEN f ELSE "created_at"

(* No ties, whatever is updated: role and active tell few rows apart.       *)
Unique(c) ==
  /\ c \notin {"role", "active"}
  /\ \A x, y \in Rows : place[c][x] = place[c][y] => x = y

Ask(s, e, c) ==
  LET p == Parse(s, e)
  IN  /\ Valid(s, e)
      /\ pc' = "count"
      /\ request' = [offset |-> p.offset, limit |-> p.limit, column |-> c]
      /\ rows' = {} /\ total' = 0 /\ quiet' = FALSE

(* The panel shows the first page of a list, sorted by column f.            *)
FirstPage(f, n) ==
  /\ pc \in {"idle", "shown", "failed"}
  /\ Ask(0, n, Column(f))
  /\ page' = 1 /\ perPage' = n /\ start' = table /\ seen' = [x \in Rows |-> 0]
  /\ inserts' = 0 /\ moves' = 0 /\ deleted' = FALSE /\ cut' = FALSE
  /\ UNCHANGED data

More == page * perPage < total

NextPage ==
  /\ pc = "shown" /\ page > 0 /\ More
  /\ Ask(page * perPage, (page + 1) * perPage, request.column)
  /\ page' = page + 1
  /\ UNCHANGED <<data, perPage, start, seen, inserts, moves, deleted, cut>>

(* After an error the panel shows nothing and asks for the page again.      *)
Retry ==
  /\ pc = "failed" /\ page > 0
  /\ pc' = "count"
  /\ UNCHANGED <<data, request, total, rows, walk, changes>>

(* Any other client: one request.                                           *)
Query(s, e, f) ==
  /\ pc \in {"idle", "shown", "failed"}
  /\ Ask(s, e, Column(f))
  /\ page' = 0 /\ perPage' = 0 /\ start' = {} /\ seen' = [x \in Rows |-> 0]
  /\ inserts' = 0 /\ moves' = 0 /\ deleted' = FALSE /\ cut' = FALSE
  /\ UNCHANGED data

-----------------------------------------------------------------------------
(* The two statements of a list.                                            *)
Count ==
  /\ pc = "count"
  /\ pc' = "select"
  /\ total' = Cardinality(table)
  /\ quiet' = TRUE
  /\ UNCHANGED <<data, request, rows, walk, inserts, moves, deleted, cut>>

CountFails ==
  /\ pc = "count"
  /\ pc' = "failed"
  /\ UNCHANGED <<data, request, total, rows, walk, changes>>

Before(x, y) == place[request.column][x] < place[request.column][y]

(* Nothing of S comes after something outside of it.                        *)
Initial(S, T) == \A x \in T, y \in S : Before(x, y) => x \in S

(* LIMIT OFFSET: rows the order does not tell apart come in any order, and  *)
(* in another one for the next statement.                                   *)
Page(P) ==
  \E skipped \in SUBSET (table \ P) :
    /\ Cardinality(skipped) = Smaller(request.offset, Cardinality(table))
    /\ Cardinality(P) = Smaller(request.limit, Cardinality(table) - Cardinality(skipped))
    /\ Initial(skipped, table) /\ Initial(skipped \cup P, table)

Answer(R) ==
  /\ pc' = "shown"
  /\ rows' = R
  /\ seen' = [x \in Rows |-> IF page > 0 /\ x \in R THEN seen[x] + 1 ELSE seen[x]]
  /\ UNCHANGED <<data, request, total, page, perPage, start, inserts, moves, deleted, quiet>>

Select ==
  /\ pc = "select"
  /\ \E P \in SUBSET table : Page(P) /\ Answer(P)
  /\ UNCHANGED cut

SelectFails ==
  /\ pc = "select"
  /\ pc' = "failed" /\ total' = 0 /\ quiet' = FALSE
  /\ UNCHANGED <<data, request, rows, walk, inserts, moves, deleted, cut>>

(* The connection is lost between two rows. Accounts.List asks rows.Err()   *)
(* and fails (SelectFails); the other two take what they have for the page. *)
SelectCut ==
  /\ BreaksOff
  /\ pc = "select"
  /\ list \in {"events", "api-keys"}
  /\ \E P \in SUBSET table : \E R \in SUBSET P :
       R # P /\ Page(P) /\ Initial(R, P) /\ Answer(R)
  /\ cut' = TRUE

(* Content-Range: the first and last place of the rows that follow.         *)
ContentRange_RequestedLimit ==
  IF total = 0 THEN [first |-> 0, last |-> -1]
  ELSE [first |-> request.offset, last |-> request.offset + request.limit - 1]

ContentRange ==
  IF total = 0 THEN [first |-> 0, last |-> -1]
  ELSE [first |-> request.offset,
        last  |-> Smaller(request.offset + request.limit - 1, total - 1)]

-----------------------------------------------------------------------------
(* A row is created, or changed so that the filter matches it; deleted, or  *)
(* changed so that it no longer does.                                       *)
Insert(x) ==
  /\ x \notin table /\ inserts < MaxInserts
  /\ table' = table \cup {x}
  /\ inserts' = inserts + 1 /\ quiet' = FALSE
  /\ UNCHANGED <<list, place, pc, request, total, rows, walk, moves, deleted, cut>>

Delete(x) ==
  /\ x \in table
  /\ table' = table \ {x}
  /\ start' = start \ {x}
  /\ deleted' = TRUE /\ quiet' = FALSE
  /\ UNCHANGED <<list, place, pc, request, total, rows, page, perPage, seen, inserts, moves, cut>>

Updated ==
  CASE list = "accounts" -> {"email", "role", "active"}
    [] list = "events" -> {}
    [] list = "api-keys" -> {"active"}

(* A column of a row is updated, also of a row the filter does not match.   *)
(* emails are UNIQUE. The UPDATE that also changes whether the filter       *)
(* matches the row is this action and Insert or Delete.                     *)
Update(x, c, n) ==
  LET listed == x \in table /\ c = request.column
  IN  /\ c \in Updated /\ place[c][x] # n
      /\ c = "email" => \A y \in Rows : place[c][y] # n
      /\ listed => moves < MaxMoves
      /\ place' = [place EXCEPT ![c][x] = n]
      /\ moves' = IF listed THEN moves + 1 ELSE moves
      /\ UNCHANGED <<list, table, pc, request, total, rows, walk, inserts, deleted, quiet, cut>>

Next ==
  \/ \E f \in Fields, n \in PageSizes : FirstPage(f, n)
  \/ NextPage
  \/ Retry
  \/ \E s, e \in Bounds \cup {Absent}, f \in Fields : Query(s, e, f)
  \/ Count \/ CountFails
  \/ Select \/ SelectFails \/ SelectCut
  \/ \E x \in Rows : Insert(x) \/ Delete(x)
  \/ \E x \in Rows, c \in Fields, n \in Places : Update(x, c, n)

Spec == Init /\ [][Next]_vars

-----------------------------------------------------------------------------
(* Content-Range names as many places as rows follow, unless the list       *)
(* changed between the two statements or the page was cut short.            *)
RangeTellsRows ==
  pc = "shown" /\ quiet /\ ~cut =>
    Cardinality(rows) = Cardinality(ContentRange.first .. ContentRange.last)

(* A walk that sorts by a column without ties, and meets no deletion and no *)
(* update of that column, shows every row that was there throughout,        *)
(* whatever comes meanwhile; only a row that comes between the last page's  *)
(* statements can hide one. (An update can: a row whose email changes to    *)
(* one on a page already shown is on none of the others.)                   *)
WalkShowsAll ==
  pc = "shown" /\ page > 0 /\ ~More /\ quiet /\ ~deleted /\ moves = 0 /\ ~cut
  /\ Unique(request.column) /\ perPage <= MaxLimit
  => \A x \in start : seen[x] > 0

(* Without ties, a walk shows a row again only as rows come that push it    *)
(* onto the next page, or as it or another row moves: once for each of them *)
(* at most.                                                                 *)
RepeatsNeedChanges ==
  page > 0 /\ Unique(request.column) =>
    \A x \in Rows : seen[x] <= 1 + inserts + moves

(* What the endpoints document: Content-Range is "start-end/total" of the   *)
(* list that follows, here while nobody changes it.                         *)
RangeIsOfResponse ==
  pc = "shown" /\ quiet =>
    Cardinality(rows) = Cardinality(ContentRange.first .. ContentRange.last)
=============================================================================

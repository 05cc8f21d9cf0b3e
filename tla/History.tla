------------------------------ MODULE History -------------------------------
(***************************************************************************)
(* GET /notifications (src/routes/notifications.ts): a client walks its    *)
(* history page by page, following nextCursor, while notifications are     *)
(* created, change status, and go with their user.                         *)
(***************************************************************************)
EXTENDS Integers, FiniteSets

CONSTANTS
    Rows,    \* the ids of the user's notifications
    Limits,  \* the page sizes the client asks for
    Any,     \* the filter of a walk without the parameter `status`
    MaxMs,   \* bound: the milliseconds in which rows are created
    None     \* no cursor

Statuses == {"QUEUED", "SENT"}  \* two of the five: a filter matches or not

ASSUME HistoryAssumption ==
    /\ Limits \subseteq Nat \ {0} /\ MaxMs \in Nat
    /\ Any \notin Statuses /\ None \notin Rows

VARIABLES
    user,      \* whether the row of the user exists
    created,   \* row -> its createdAt, 0 before the row is committed
    status,    \* row -> its status
    filter,    \* the status the walk asks for, or Any
    limit,     \* the page size it asks for
    cursor,    \* what the client sends next: nextCursor of the last page
    phase,     \* "new", "walking", or "done" when nextCursor was null
    page,      \* the items of the last page
    earlier,   \* history: the items of the pages before it
    ends,      \* history: the cursors handed out
    promised,  \* history: the rows that match ever since the first page
    strayed    \* history: a cursor's row had left the filter when it was used

rowVars == <<user, created, status>>
walkVars == <<filter, limit, cursor, phase, page, earlier, ends, strayed>>
vars == <<rowVars, walkVars, promised>>

TypeOK ==
    /\ user \in BOOLEAN
    /\ created \in [Rows -> 0 .. MaxMs]
    /\ status \in [Rows -> Statuses]
    /\ filter \in Statuses \cup {Any}
    /\ limit \in Limits
    /\ cursor \in Rows \cup {None}
    /\ phase \in {"new", "walking", "done"}
    /\ page \subseteq Rows /\ Cardinality(page) <= limit
    /\ earlier \subseteq Rows /\ ends \subseteq Rows /\ promised \subseteq Rows
    /\ strayed \in BOOLEAN

Init ==
    /\ user = TRUE
    /\ created = [r \in Rows |-> 0]
    /\ status = [r \in Rows |-> "QUEUED"]
    /\ filter \in Statuses \cup {Any}
    /\ limit \in Limits
    /\ cursor = None /\ phase = "new"
    /\ page = {} /\ earlier = {} /\ ends = {} /\ promised = {}
    /\ strayed = FALSE

-----------------------------------------------------------------------------
(***************************************************************************)
(* createNotification commits.  createdAt dates from the insert and from   *)
(* the clock of one replica: a row may appear with any createdAt, also the *)
(* one of another row.                                                     *)
(***************************************************************************)
create(r) ==
    /\ user /\ created[r] = 0
    /\ \E ms \in 1 .. MaxMs : created' = [created EXCEPT ![r] = ms]
    /\ UNCHANGED <<user, status, walkVars, promised>>

(***************************************************************************)
(* The workers, the failure handler or an admin.                           *)
(***************************************************************************)
changeStatus(r) ==
    /\ user /\ created[r] > 0
    /\ \E s \in Statuses \ {status[r]} : status' = [status EXCEPT ![r] = s]
    /\ promised' = IF filter = Any THEN promised ELSE promised \ {r}
    /\ UNCHANGED <<user, created, walkVars>>

deleteUser ==
    /\ user
    /\ user' = FALSE
    /\ promised' = {}
    /\ UNCHANGED <<created, status, walkVars>>

-----------------------------------------------------------------------------
(***************************************************************************)
(* findMany: the rows of the `where`, ordered by createdAt alone (rows of  *)
(* one millisecond in any order, another one each time).                   *)
(***************************************************************************)
found == {r \in Rows : user /\ created[r] > 0 /\ filter \in {Any, status[r]}}

AtMost(a, b) == IF a <= b THEN a ELSE b

newest(S, n) ==
    {P \in SUBSET S : /\ Cardinality(P) = AtMost(n, Cardinality(S))
                      /\ \A p \in P, q \in S \ P : created[p] >= created[q]}

withoutSkip ==  \* mutant: skip: 1 is forgotten
    IF cursor = None THEN {found} ELSE {{r \in found : created[r] <= created[cursor]}}

(***************************************************************************)
(* External, Prisma: the rows after the cursor's row; with a row that does *)
(* not match, as its status changed, what comes after it is anybody's      *)
(* guess.                                                                  *)
(***************************************************************************)
afterCursor ==
    IF cursor = None THEN {found}
    ELSE LET older == {r \in found : created[r] < created[cursor]}
             tied == {r \in found \ {cursor} : created[r] = created[cursor]}
         IN IF cursor \in found THEN {older \cup T : T \in SUBSET tied}
            ELSE SUBSET (older \cup tied)

takeLimit == limit  \* mutant: not one extra

take == limit + 1

fullPage(rows) == Cardinality(rows) >= limit  \* mutant: off by one

hasMore(rows) == Cardinality(rows) > limit

wholeRows(rows) == {rows}  \* mutant: the extra row is sent as well

items(rows) == newest(rows, limit)

(***************************************************************************)
(* One request: nextCursor is the last of the items, or null.              *)
(***************************************************************************)
nextPage ==
    /\ phase # "done"
    /\ \E after \in afterCursor : \E rows \in newest(after, take) :
         /\ page' \in items(rows)
         /\ IF hasMore(rows)
            THEN /\ cursor' \in {c \in page' : \A p \in page' : created[c] <= created[p]}
                 /\ phase' = "walking"
                 /\ ends' = ends \cup {cursor'}
            ELSE cursor' = None /\ phase' = "done" /\ ends' = ends
    /\ earlier' = earlier \cup page
    /\ promised' = IF phase = "new" THEN found ELSE promised
    /\ strayed' = (strayed \/ (phase = "walking" /\ cursor \notin found))
    /\ UNCHANGED <<rowVars, filter, limit>>

Next ==
    \/ \E r \in Rows : create(r) \/ changeStatus(r)
    \/ deleteUser
    \/ nextPage

Spec == Init /\ [][Next]_vars

(***************************************************************************)
(* The client keeps asking until nextCursor is null.                       *)
(***************************************************************************)
FairSpec == Spec /\ WF_vars(nextPage)

-----------------------------------------------------------------------------
Tied(r) == \E q \in Rows \ {r} : created[q] = created[r]

(***************************************************************************)
(* "without duplicates" (tests/integration/history.test.ts), newest first: *)
(* a page is strictly older than all before it, whatever was created or    *)
(* changed meanwhile, but for rows of one millisecond.                     *)
(***************************************************************************)
PagesAdvance ==
    \A p \in page, e \in earlier :
      created[p] < created[e] \/ (created[p] = created[e] /\ Tied(p))

(***************************************************************************)
(* "Together the two pages cover the full history" (ibid.): at the end     *)
(* every row that matched from the first page on has been sent.  The two   *)
(* exceptions: a row of the same millisecond as the end of a page, and a   *)
(* walk whose cursor's row left the status filter.                         *)
(***************************************************************************)
NothingMissed ==
    (phase = "done" /\ ~strayed) =>
      \A r \in promised :
        r \in earlier \cup page \/ \E c \in ends \ {r} : created[c] = created[r]

(***************************************************************************)
(* "Take one extra so we can tell the client whether there's another page  *)
(* without making them ask twice" (notifications.ts): without a filter, a  *)
(* cursor leads to a page with items.                                      *)
(***************************************************************************)
CursorLeadsOn ==
    (earlier # {} /\ page = {}) =>
      filter # Any \/ ~user \/ \E c \in ends : Tied(c)

(***************************************************************************)
(* The walk ends although notifications keep coming, unless rows of one    *)
(* millisecond hand the cursor back and forth.                             *)
(***************************************************************************)
WalkEnds ==
    [](\A r \in Rows : created[r] > 0 => ~Tied(r))
      => (phase = "walking" ~> phase = "done")

=============================================================================

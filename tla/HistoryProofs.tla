--------------------------- MODULE HistoryProofs ---------------------------
(***************************************************************************)
(* What a client that follows nextCursor gets from GET /notifications, for *)
(* any rows, page sizes and clock.  The inductive invariant relates the    *)
(* cursor to the pages sent before it and to the rows still owed.          *)
(***************************************************************************)
EXTENDS History, FiniteSetTheorems, TLAPS

Committed == {r \in Rows : created[r] > 0}

(***************************************************************************)
(* Of the database, a page sees committed rows, and these are finitely     *)
(* many however many there may ever be.                                    *)
(***************************************************************************)
CommittedOnly ==
    /\ IsFiniteSet(Committed)
    /\ page \cup earlier \cup ends \subseteq Committed
    /\ promised \subseteq found

(***************************************************************************)
(* A cursor is the last of the items of its page.                          *)
(***************************************************************************)
CursorEndsPage ==
    /\ phase = "walking" <=> cursor # None
    /\ phase = "new" => page = {} /\ earlier = {} /\ ends = {}
    /\ cursor # None =>
         /\ cursor \in page \cap ends
         /\ \A p \in page : created[cursor] <= created[p]

(***************************************************************************)
(* The extra row: a cursor is only handed out when one more row is there.  *)
(***************************************************************************)
ExtraRow ==
    cursor # None => \E x \in Committed \ {cursor} : created[x] <= created[cursor]

SameTimeAsEnd(r) == \E c \in ends \ {r} : created[c] = created[r]

(***************************************************************************)
(* What a walk still owes is older than its cursor.                        *)
(***************************************************************************)
OwedIsOlder ==
    (phase = "walking" /\ ~strayed) =>
      \A r \in promised :
        \/ r \in earlier \cup page
        \/ SameTimeAsEnd(r)
        \/ created[r] < created[cursor]

HistoryInvariant ==
    /\ TypeOK
    /\ CommittedOnly
    /\ CursorEndsPage
    /\ ExtraRow
    /\ OwedIsOlder
    /\ PagesAdvance
    /\ NothingMissed
    /\ CursorLeadsOn

-----------------------------------------------------------------------------
(***************************************************************************)
(* The newest n rows of a finite set: a row left out is not newer than any *)
(* of them, and is only left out when there are n of them.                 *)
(***************************************************************************)
LEMMA NewestRows ==
  ASSUME NEW S, IsFiniteSet(S), NEW n \in Nat, NEW P \in newest(S, n)
  PROVE  /\ P \subseteq S /\ IsFiniteSet(P)
         /\ Cardinality(P) \in Nat /\ Cardinality(P) <= n
         /\ \A q \in S \ P : Cardinality(P) = n /\ \A p \in P : created[p] >= created[q]
         /\ P = {} /\ n > 0 => S = {}
         /\ Cardinality(S) > n => Cardinality(P) = n /\ S \ P # {}
<1>1. P \subseteq S /\ Cardinality(P) = AtMost(n, Cardinality(S))
  BY DEF newest
<1>2. /\ Cardinality(S) \in Nat /\ IsFiniteSet(P) /\ Cardinality(P) \in Nat
      /\ Cardinality(S) = Cardinality(P) => S = P
      /\ Cardinality(P) = 0 <=> P = {}
      /\ Cardinality(S) = 0 <=> S = {}
  BY <1>1, FS_Subset, FS_CardinalityType, FS_EmptySet
<1>3. Cardinality(P) <= n /\ (Cardinality(P) = n \/ S = P)
  BY <1>1, <1>2 DEF AtMost
<1>4. P = {} /\ n > 0 => S = {}
  BY <1>2, <1>3
<1>5. Cardinality(S) > n => Cardinality(P) = n /\ S \ P # {}
  BY <1>1, <1>2 DEF AtMost
<1>6. \A q \in S \ P : Cardinality(P) = n /\ \A p \in P : created[p] >= created[q]
  BY <1>1, <1>3 DEF newest
<1> QED BY <1>1, <1>2, <1>3, <1>4, <1>5, <1>6

(***************************************************************************)
(* A row keeps its createdAt, so what is found stays among the committed   *)
(* rows and their order does not change.                                   *)
(***************************************************************************)
LEMMA FoundCommitted == ASSUME TypeOK PROVE found \subseteq Committed
  BY DEF found, Committed

LEMMA AfterFound ==
  ASSUME NEW after \in afterCursor
  PROVE  after \subseteq found
  BY DEF afterCursor

(***************************************************************************)
(* What one request sends: rows after the cursor, all of them unless there *)
(* are more, and then none that is older than a row it leaves.             *)
(***************************************************************************)
LEMMA ServedPage ==
  ASSUME HistoryAssumption, TypeOK, CommittedOnly,
         NEW after \in afterCursor, NEW rows \in newest(after, take),
         NEW P \in items(rows)
  PROVE  /\ P \subseteq rows /\ rows \subseteq after /\ after \subseteq Committed
         /\ Cardinality(P) <= limit
         /\ P = {} => after = {}
         /\ ~hasMore(rows) => P = after
         /\ \A r \in after \ P, p \in P : created[r] <= created[p]
         /\ hasMore(rows) => P # {} /\ \E x \in Committed \ P : \A p \in P : created[x] <= created[p]
<1>1. limit \in Nat \ {0} /\ take \in Nat /\ take = limit + 1
  BY DEF HistoryAssumption, TypeOK, take
<1>2. after \subseteq Committed /\ IsFiniteSet(after)
  BY AfterFound, FoundCommitted, FS_Subset DEF CommittedOnly
<1>3. /\ rows \subseteq after /\ IsFiniteSet(rows)
      /\ Cardinality(rows) \in Nat /\ Cardinality(rows) <= take
      /\ \A q \in after \ rows :
           Cardinality(rows) = take /\ \A p \in rows : created[p] >= created[q]
      /\ rows = {} => after = {}
  BY <1>1, <1>2, NewestRows
<1>4. P \in newest(rows, limit)
  BY DEF items
<1>5. /\ P \subseteq rows /\ IsFiniteSet(P)
      /\ Cardinality(P) \in Nat /\ Cardinality(P) <= limit
      /\ \A q \in rows \ P :
           Cardinality(P) = limit /\ \A p \in P : created[p] >= created[q]
      /\ P = {} => rows = {}
      /\ hasMore(rows) => Cardinality(P) = limit /\ rows \ P # {}
  BY <1>1, <1>3, <1>4, NewestRows DEF hasMore
<1>6. \A r \in Committed : created[r] \in Nat
  BY DEF TypeOK, Committed, HistoryAssumption
<1>7. \A r \in after \ P, p \in P : created[r] <= created[p]
  <2>1. SUFFICES ASSUME NEW r \in after \ P, NEW p \in P
                 PROVE  created[p] >= created[r]
    BY <1>2, <1>3, <1>5, <1>6
  <2> QED BY <1>3, <1>5, <2>1
<1>8. ~hasMore(rows) => P = after
  <2>1. SUFFICES ASSUME ~hasMore(rows) PROVE P = after
    OBVIOUS
  <2>2. Cardinality(rows) <= limit
    BY <1>1, <1>3, <2>1 DEF hasMore
  <2>3. rows = after
    <3>1. Cardinality(rows) # take
      BY <1>1, <1>3, <2>2
    <3> QED BY <1>3, <3>1
  <2>4. P = rows
    <3>1. Cardinality(P) = Cardinality(rows)
      BY <1>1, <1>3, <1>4, <2>2 DEF newest, AtMost
    <3>2. P \in SUBSET rows
      BY <1>5
    <3> QED BY <1>3, <3>1, <3>2, FS_Subset
  <2> QED BY <2>3, <2>4
<1>9. hasMore(rows) => P # {} /\ \E x \in Committed \ P : \A p \in P : created[x] <= created[p]
  <2>1. SUFFICES ASSUME hasMore(rows)
                 PROVE  P # {} /\ \E x \in Committed \ P : \A p \in P : created[x] <= created[p]
    OBVIOUS
  <2>2. P # {}
    BY <1>1, <1>5, <2>1, FS_EmptySet
  <2>3. PICK x \in rows \ P : TRUE
    BY <1>5, <2>1
  <2> QED BY <1>2, <1>3, <1>7, <2>2, <2>3
<1> QED BY <1>2, <1>3, <1>5, <1>7, <1>8, <1>9

-----------------------------------------------------------------------------
LEMMA InitHistory == ASSUME HistoryAssumption PROVE Init => HistoryInvariant
<1> SUFFICES ASSUME Init PROVE HistoryInvariant
  OBVIOUS
<1>1. Cardinality({}) = 0 /\ IsFiniteSet({})
  BY FS_EmptySet
<1>2. Committed = {}
  BY DEF Committed, Init
<1>3. limit \in Nat
  BY DEF HistoryAssumption, Init
<1>4. created \in [Rows -> 0 .. MaxMs] /\ 0 <= limit
  BY <1>3 DEF HistoryAssumption, Init
<1>5. TypeOK
  BY <1>1, <1>4 DEF Init, TypeOK, Statuses
<1>6. CommittedOnly
  BY <1>1, <1>2 DEF Init, CommittedOnly
<1> QED BY <1>5, <1>6 DEF HistoryAssumption, Init, HistoryInvariant, CursorEndsPage,
           ExtraRow, OwedIsOlder, PagesAdvance, NothingMissed, CursorLeadsOn

(***************************************************************************)
(* The steps of others: the walk does not move, the rows seen keep their   *)
(* createdAt, and nothing more is owed.                                    *)
(***************************************************************************)
LEMMA OthersStep ==
  ASSUME HistoryInvariant, UNCHANGED walkVars,
         TypeOK', IsFiniteSet(Committed'),
         \A r \in Committed : created'[r] = created[r] /\ r \in Committed',
         promised' \subseteq promised, promised' \subseteq found',
         filter = Any /\ user' => user
  PROVE  HistoryInvariant'
<1> USE DEF HistoryInvariant, CommittedOnly, walkVars
<1>1. /\ page \cup earlier \cup ends \subseteq Committed
      /\ promised \subseteq Committed
      /\ Committed \subseteq Rows
  BY FoundCommitted DEF Committed
<1>2. \A r \in Committed : Tied(r) => Tied(r)'
  BY <1>1 DEF Tied, Committed, TypeOK
<1>3. CommittedOnly'
  BY <1>1
<1>4. CursorEndsPage'
  BY <1>1 DEF CursorEndsPage
<1>5. ExtraRow'
  BY <1>1 DEF ExtraRow, CursorEndsPage
<1>6. OwedIsOlder'
  BY <1>1 DEF OwedIsOlder, SameTimeAsEnd, CursorEndsPage
<1>7. PagesAdvance'
  BY <1>1, <1>2 DEF PagesAdvance
<1>8. NothingMissed'
  BY <1>1 DEF NothingMissed
<1>9. CursorLeadsOn'
  BY <1>1, <1>2 DEF CursorLeadsOn
<1> QED BY <1>3, <1>4, <1>5, <1>6, <1>7, <1>8, <1>9

LEMMA CreateHistory ==
  ASSUME HistoryAssumption, HistoryInvariant, NEW n \in Rows, create(n)
  PROVE  HistoryInvariant'
<1> USE DEF create
<1>1. PICK ms \in 1 .. MaxMs : created' = [created EXCEPT ![n] = ms]
  OBVIOUS
<1>2. created \in [Rows -> 0 .. MaxMs] /\ MaxMs \in Nat
  BY DEF HistoryInvariant, TypeOK, HistoryAssumption
<1>3. TypeOK'
  BY <1>1, <1>2 DEF HistoryInvariant, TypeOK, walkVars
<1>4. Committed' = Committed \cup {n}
  BY <1>1, <1>2 DEF Committed
<1>5. IsFiniteSet(Committed')
  BY <1>4, FS_AddElement DEF HistoryInvariant, CommittedOnly
<1>6. \A r \in Committed : created'[r] = created[r] /\ r \in Committed'
  BY <1>1, <1>2, <1>4 DEF Committed
<1>7. promised' \subseteq found'
  BY <1>1, <1>2 DEF HistoryInvariant, CommittedOnly, found, walkVars
<1> QED BY <1>3, <1>5, <1>6, <1>7, OthersStep

LEMMA ChangeStatusHistory ==
  ASSUME HistoryAssumption, HistoryInvariant, NEW n \in Rows, changeStatus(n)
  PROVE  HistoryInvariant'
<1> USE DEF changeStatus, HistoryInvariant, TypeOK
<1>1. PICK s \in Statuses : status' = [status EXCEPT ![n] = s]
  OBVIOUS
<1>2. TypeOK' /\ Committed' = Committed
  BY <1>1 DEF walkVars, Committed
<1>3. promised' \subseteq promised /\ promised' \subseteq found'
  BY <1>1 DEF CommittedOnly, found, walkVars
<1> QED BY <1>2, <1>3, OthersStep DEF CommittedOnly, walkVars

LEMMA DeleteUserHistory ==
  ASSUME HistoryAssumption, HistoryInvariant, deleteUser
  PROVE  HistoryInvariant'
<1> USE DEF deleteUser, HistoryInvariant
<1>1. TypeOK' /\ Committed' = Committed
  BY DEF TypeOK, walkVars, Committed
<1> QED BY <1>1, OthersStep DEF CommittedOnly, walkVars

-----------------------------------------------------------------------------
(***************************************************************************)
(* The step of the walk, conjunct by conjunct.                             *)
(***************************************************************************)
LEMMA NextPageHistory ==
  ASSUME HistoryAssumption, HistoryInvariant, nextPage
  PROVE  HistoryInvariant'
<1>1. /\ TypeOK /\ CommittedOnly /\ CursorEndsPage /\ ExtraRow /\ OwedIsOlder
      /\ PagesAdvance /\ NothingMissed /\ CursorLeadsOn
  BY DEF HistoryInvariant
<1>2. /\ UNCHANGED <<user, created, status, filter, limit>>
      /\ phase \in {"new", "walking"}
      /\ earlier' = earlier \cup page
      /\ promised' = IF phase = "new" THEN found ELSE promised
      /\ strayed' = (strayed \/ (phase = "walking" /\ cursor \notin found))
  BY <1>1 DEF nextPage, rowVars, TypeOK
<1>0. PICK after \in afterCursor : \E rows \in newest(after, take) :
        /\ page' \in items(rows)
        /\ IF hasMore(rows)
           THEN /\ cursor' \in {c \in page' : \A p \in page' : created[c] <= created[p]}
                /\ phase' = "walking"
                /\ ends' = ends \cup {cursor'}
           ELSE cursor' = None /\ phase' = "done" /\ ends' = ends
  BY DEF nextPage
<1>3. PICK rows \in newest(after, take) :
        /\ page' \in items(rows)
        /\ IF hasMore(rows)
           THEN /\ cursor' \in {c \in page' : \A p \in page' : created[c] <= created[p]}
                /\ phase' = "walking"
                /\ ends' = ends \cup {cursor'}
           ELSE cursor' = None /\ phase' = "done" /\ ends' = ends
  BY <1>0
<1>4. /\ page' \subseteq after /\ after \subseteq Committed
      /\ Cardinality(page') <= limit
      /\ page' = {} => after = {}
      /\ ~hasMore(rows) => page' = after
      /\ \A r \in after \ page', p \in page' : created[r] <= created[p]
      /\ hasMore(rows) =>
           page' # {} /\ \E x \in Committed \ page' : \A p \in page' : created[x] <= created[p]
  BY <1>1, <1>3, ServedPage
<1>5. Committed' = Committed /\ found' = found /\ found \subseteq Committed
  BY <1>1, <1>2, FoundCommitted DEF Committed, found
<1>6. Committed \subseteq Rows /\ \A r \in Rows : created[r] \in Int
  BY <1>1 DEF Committed, TypeOK, HistoryAssumption
<1>7. phase = "walking" => cursor \in page /\ cursor \in ends /\ cursor # None
  BY <1>1 DEF CursorEndsPage
<1>8. phase = "new" => cursor = None /\ after = found /\ page = {} /\ earlier = {}
  BY <1>1 DEF CursorEndsPage, afterCursor
<1>9. phase = "walking" =>
        \A p \in page' : p # cursor /\ created[p] <= created[cursor]
  <2>1. SUFFICES ASSUME phase = "walking", NEW p \in after
                 PROVE  p # cursor /\ created[p] <= created[cursor]
    BY <1>4
  <2>2. \/ p \in found /\ created[p] < created[cursor]
        \/ p \in found \ {cursor} /\ created[p] = created[cursor]
    BY <1>7, <2>1 DEF afterCursor
  <2>3. p \in Rows /\ cursor \in Rows
    BY <1>1, <1>5, <1>6, <1>7, <2>1, <2>2 DEF TypeOK
  <2> QED BY <1>6, <2>2, <2>3
<1>10. phase = "walking" /\ cursor \in found =>
        \A r \in found : created[r] < created[cursor] => r \in after
  BY <1>3, <1>7 DEF afterCursor
<1>11. TypeOK'
  <2>1. page' \subseteq Rows /\ earlier' \subseteq Rows /\ promised' \subseteq Rows
    BY <1>1, <1>2, <1>4, <1>5, <1>6 DEF TypeOK
  <2>2. cursor' \in Rows \cup {None} /\ ends' \subseteq Rows /\ phase' \in {"new", "walking", "done"}
    BY <1>1, <1>3, <2>1 DEF TypeOK
  <2>3. strayed' \in BOOLEAN
    BY <1>1, <1>2 DEF TypeOK
  <2> QED BY <1>1, <1>2, <1>4, <2>1, <2>2, <2>3 DEF TypeOK
<1>12. CommittedOnly'
  BY <1>1, <1>2, <1>3, <1>4, <1>5 DEF CommittedOnly
<1>13. CursorEndsPage'
  BY <1>1, <1>2, <1>3, <1>4, <1>6 DEF CursorEndsPage, HistoryAssumption
<1>14. ExtraRow'
  BY <1>2, <1>3, <1>4, <1>5 DEF ExtraRow
<1>15. PagesAdvance'
  <2>1. SUFFICES ASSUME NEW p \in page', NEW e \in earlier'
                 PROVE  created[p] < created[e] \/ (created[p] = created[e] /\ Tied(p))
    BY <1>2 DEF PagesAdvance, Tied
  <2>2. phase = "walking"
    BY <1>2, <1>8, <2>1
  <2>3. p \in Rows /\ e \in Rows /\ cursor \in Rows
    BY <1>1, <1>2, <1>4, <1>6, <1>7, <2>1, <2>2 DEF TypeOK
  <2>4. created[cursor] <= created[e]
    <3>1. CASE e \in page
      BY <1>1, <1>7, <2>2, <3>1 DEF CursorEndsPage
    <3>2. CASE e \in earlier
      BY <1>1, <1>6, <1>7, <2>2, <2>3, <3>2 DEF PagesAdvance
    <3> QED BY <1>2, <3>1, <3>2
  <2>5. created[p] <= created[cursor] /\ p # cursor
    BY <1>9, <2>1, <2>2
  <2>6. created[p] = created[e] => created[cursor] = created[p]
    BY <1>6, <2>3, <2>4, <2>5
  <2>7. created[p] = created[e] => Tied(p)
    BY <2>3, <2>5, <2>6 DEF Tied
  <2> QED BY <1>6, <2>3, <2>4, <2>5, <2>7
<1>16. ASSUME ~strayed', NEW r \in promised', r \notin earlier' \cup page',
              \A c \in ends \ {r} : created[c] # created[r]
       PROVE  r \in after \ page'
  <2>1. r \in found
    BY <1>1, <1>2, <1>16 DEF CommittedOnly
  <2>2. CASE phase = "new"
    BY <1>8, <1>16, <2>1, <2>2
  <2>3. CASE phase = "walking"
    <3>1. r \in promised /\ cursor \in found /\ ~strayed
      BY <1>2, <1>16, <2>3
    <3>2. created[r] < created[cursor]
      BY <1>1, <1>2, <1>16, <2>3, <3>1 DEF OwedIsOlder, SameTimeAsEnd
    <3> QED BY <1>10, <1>16, <2>1, <2>3, <3>1, <3>2
  <2> QED BY <1>2, <2>2, <2>3
<1>17. OwedIsOlder'
  <2>1. SUFFICES ASSUME phase' = "walking", ~strayed', NEW r \in promised',
                        r \notin earlier' \cup page',
                        \A c \in ends' \ {r} : created[c] # created[r]
                 PROVE  created[r] < created[cursor']
    BY <1>2 DEF OwedIsOlder, SameTimeAsEnd
  <2>2. cursor' \in page' /\ ends' = ends \cup {cursor'}
    BY <1>3, <2>1
  <2>3. r \in after \ page'
    BY <1>16, <2>1, <2>2
  <2>4. created[r] <= created[cursor'] /\ created[cursor'] # created[r]
    BY <1>4, <2>1, <2>2, <2>3
  <2> QED BY <1>4, <1>6, <2>2, <2>3, <2>4
<1>18. NothingMissed'
  <2>1. SUFFICES ASSUME phase' = "done", ~strayed', NEW r \in promised',
                        r \notin earlier' \cup page',
                        \A c \in ends' \ {r} : created[c] # created[r]
                 PROVE  FALSE
    BY <1>2 DEF NothingMissed
  <2>2. page' = after /\ ends' = ends
    BY <1>3, <1>4, <2>1
  <2> QED BY <1>16, <2>1, <2>2
<1>19. CursorLeadsOn'
  <2>1. SUFFICES ASSUME earlier' # {}, page' = {}, filter = Any, user
                 PROVE  \E c \in ends' : Tied(c)
    BY <1>2 DEF CursorLeadsOn, Tied
  <2>2. phase = "walking" /\ after = {}
    BY <1>2, <1>4, <1>8, <2>1
  <2>3. found = Committed /\ cursor \in Committed
    BY <1>1, <1>7, <2>1, <2>2 DEF found, Committed, CommittedOnly
  <2>4. PICK x \in Committed \ {cursor} : created[x] <= created[cursor]
    BY <1>1, <1>7, <2>2 DEF ExtraRow
  <2>5. ~(created[x] < created[cursor])
    BY <1>10, <2>2, <2>3
  <2>6. created[x] = created[cursor] /\ x \in Rows /\ x # cursor
    BY <1>6, <2>3, <2>4, <2>5
  <2>7. Tied(cursor) /\ cursor \in ends'
    BY <1>3, <1>7, <2>2, <2>6 DEF Tied
  <2> QED BY <2>7
<1> QED BY <1>11, <1>12, <1>13, <1>14, <1>15, <1>17, <1>18, <1>19 DEF HistoryInvariant

-----------------------------------------------------------------------------
(***************************************************************************)
(* The relation between cursor, pages and owed rows survives every step.   *)
(***************************************************************************)
THEOREM WalkIsSound == Spec => []HistoryInvariant
<1>1. Init => HistoryInvariant
  BY HistoryAssumption, InitHistory
<1>2. HistoryInvariant /\ [Next]_vars => HistoryInvariant'
  <2> SUFFICES ASSUME HistoryInvariant, [Next]_vars PROVE HistoryInvariant'
    OBVIOUS
  <2>1. ASSUME NEW r \in Rows, create(r) PROVE HistoryInvariant'
    BY <2>1, HistoryAssumption, CreateHistory
  <2>2. ASSUME NEW r \in Rows, changeStatus(r) PROVE HistoryInvariant'
    BY <2>2, HistoryAssumption, ChangeStatusHistory
  <2>3. CASE deleteUser
    BY <2>3, HistoryAssumption, DeleteUserHistory
  <2>4. CASE nextPage
    BY <2>4, HistoryAssumption, NextPageHistory
  <2>5. CASE UNCHANGED vars
    <3>1. UNCHANGED <<user, created, status, promised, walkVars>>
      BY <2>5 DEF vars, rowVars
    <3>2. TypeOK' /\ Committed' = Committed /\ found' = found
      BY <3>1 DEF HistoryInvariant, TypeOK, walkVars, Committed, found
    <3> QED BY <3>1, <3>2, OthersStep DEF HistoryInvariant, CommittedOnly
  <2> QED BY <2>1, <2>2, <2>3, <2>4, <2>5 DEF Next
<1> QED BY <1>1, <1>2, PTL DEF Spec

(***************************************************************************)
(* The state of a walk is well formed; a page is never larger than the     *)
(* client asked.                                                           *)
(***************************************************************************)
THEOREM HistoryTypeCorrect == Spec => []TypeOK
<1>1. HistoryInvariant => TypeOK
  BY DEF HistoryInvariant
<1> QED BY <1>1, WalkIsSound, PTL

(***************************************************************************)
(* A page is older than all before it, however many rows are created and   *)
(* change between the requests, but for rows of one millisecond.           *)
(***************************************************************************)
THEOREM PagesNeverRepeat == Spec => []PagesAdvance
<1>1. HistoryInvariant => PagesAdvance
  BY DEF HistoryInvariant
<1> QED BY <1>1, WalkIsSound, PTL

(***************************************************************************)
(* A finished walk has sent every row that matched from its first page on, *)
(* with the two exceptions NothingMissed names.                            *)
(***************************************************************************)
THEOREM PagesCoverHistory == Spec => []NothingMissed
<1>1. HistoryInvariant => NothingMissed
  BY DEF HistoryInvariant
<1> QED BY <1>1, WalkIsSound, PTL

(***************************************************************************)
(* Without a filter a cursor promises a page with items, and the promise   *)
(* is kept as long as the user and the order of its rows are there.        *)
(***************************************************************************)
THEOREM NoEmptyLastPage == Spec => []CursorLeadsOn
<1>1. HistoryInvariant => CursorLeadsOn
  BY DEF HistoryInvariant
<1> QED BY <1>1, WalkIsSound, PTL

============================================================================

------------------------------ MODULE Listings ------------------------------
(***************************************************************************)
(* The paged lists of the services: a query filters the rows that are not  *)
(* removed, sorts them and answers one page of them with the number of the *)
(* next.  Texts are matched as a whole.                                    *)
(***************************************************************************)
EXTENDS Workforce, Functions

CONSTANTS
    Limits,     \* BOUND: page sizes asked for
    Places      \* BOUND: the places that the values of a column have in its order

\* A code stands for its place in the order of the texts.
ASSUME ListingsAssumption ==
    /\ Limits \subseteq Nat \ {0}
    /\ EmployeeCodes \subseteq Nat /\ Places \subseteq Int
    /\ Null \notin Nat

Matches(asked_, value) == asked_ \in {Undefined, value}

\* The filter by department stands for those by the other columns.
ListedEmployees(department) ==
    {u \in Users: Active(u) /\ Matches(department, employees[u].department)}

-----------------------------------------------------------------------------
TotalPages(limit, total) == (total + limit - 1) \div limit

\* FAULT: the page before the last names none.
NextPageButLast(limit, page, total) ==
    IF page + 1 < TotalPages(limit, total) THEN page + 1 ELSE Null

NextPage(limit, page, total) == IF page < TotalPages(limit, total) THEN page + 1 ELSE Null

\* skip and take.
Page(rows, limit, page) ==
    LET end == IF page * limit < Len(rows) THEN page * limit ELSE Len(rows)
    IN  SubSeq(rows, (page - 1) * limit + 1, end)

\* Who is on a page.
Shown(rows, limit, page) == Range(Page(rows, limit, page))

\* employeeCode, whose values are all different: ASC and DESC.
ByCode(S) == {[u \in S |-> employees[u].code], [u \in S |-> -employees[u].code]}

\* findAll sorts by the code, the name, or the date of creation or of joining.
\* The last three have no unique index, and one may not have joined yet: their
\* values are any, in either direction.
SortColumns(S) == ByCode(S) \cup [S -> Places]

\* Nothing orders the rows whose values are equal: every query may answer with
\* another of these lists.
Sorted(S, column) ==
    {rows \in Injection(1..Cardinality(S), S):
        \A i, j \in DOMAIN rows: i < j => column[rows[i]] <= column[rows[j]]}

\* The pages a client gets that starts at the first and follows nextPage.
Followed(limit, total) ==
    {page \in 1..total + 1:
        \A earlier \in 1..page - 1: NextPage(limit, earlier, total) = earlier + 1}

\* What the pages may show, for every list that a query may answer with.
Answers(S, column, limit) ==
    LET pages == Followed(limit, Cardinality(S))
    IN  {[page \in pages |-> Shown(rows, limit, page)]: rows \in Sorted(S, column)}

-----------------------------------------------------------------------------
\* Who follows nextPage through the employees sees everyone whose value of the
\* sorted column no other has exactly once, whatever order each query takes the
\* others in, and no empty page but the first; sorted by employeeCode that is
\* everyone.  Those who share a value may be seen twice or not at all (findAll,
\* pagination).
ShownOnce ==
    \A S \in {ListedEmployees(department): department \in Entries \cup {Undefined}}:
        \A column \in SortColumns(S), limit \in Limits:
            LET pages == Followed(limit, Cardinality(S))
                answers == Answers(S, column, limit)
                alone == {u \in S: \A v \in S \ {u}: column[v] # column[u]}
                certain == IF column \in ByCode(S) THEN S ELSE alone
            IN  /\ \A shown \in answers, page \in pages \ {1}: shown[page] # {}
                /\ \A u \in certain: \E page \in pages:
                     \A shown \in answers, other \in pages:
                         u \in shown[other] <=> other = page
=============================================================================

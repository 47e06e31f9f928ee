------------------------------- MODULE PageTree -------------------------------
(***************************************************************************)
(* findPageByNumber (sign/pdfvisualsignature.go) on a tree of pages. A     *)
(* node is its /Type and the sequence of its /Kids; a page is named by the *)
(* positions that lead to it. Pages are numbered from 1, which signPDFOnce *)
(* puts in the place of 0.                                                 *)
(***************************************************************************)
EXTENDS Integers, SequencesExt

CONSTANTS
  Nodes,   \* the nodes of all trees
  Height   \* of a node: more than that of its kids, since no node is below itself

ASSUME NodesAssumption ==
  \A node \in Nodes :
     /\ node.kids \in Seq(Nodes) /\ Height[node] \in Nat
     /\ \A k \in DOMAIN node.kids : Height[node.kids[k]] < Height[node]

PageNumbers == Nat \ {0}

NoPage == <<0>>

Found(page) == [page |-> page, remaining |-> 0, failed |-> FALSE]
Missed(remaining) == [page |-> NoPage, remaining |-> remaining, failed |-> FALSE]
NotFound(remaining) == [page |-> NoPage, remaining |-> remaining, failed |-> TRUE]

\* Mutant: no error is taken for success.
IsFoundWithoutError(search) == ~search.failed

IsFound(search) == ~search.failed /\ search.remaining = 0

\* The search among the kids in turn, each with the number that the one before left.
\* searchIn[kid] is the search below a kid, which knows nothing of the kid's own position.
SearchKids(kids, searchIn, number) ==
  LET after[k \in 0..Len(kids)] ==
        IF k = 0 THEN NotFound(number)
        ELSE IF IsFound(after[k - 1]) THEN after[k - 1]
        ELSE LET search == searchIn[kids[k]][after[k - 1].remaining]
             IN IF IsFound(search) THEN Found(<<k>> \o search.page)
                ELSE NotFound(search.remaining)
  IN after[Len(kids)]

FindPageByNumberRec[node \in Nodes] ==
  [number \in PageNumbers |->
     CASE node.type = "Pages" -> SearchKids(node.kids, FindPageByNumberRec, number)
       [] node.type = "Page" /\ number = 1 -> Found(<<>>)
       [] node.type = "Page" /\ number # 1 -> Missed(number - 1)
       [] OTHER -> NotFound(number)]

\* The page, or NoPage for an error.
FindPageByNumber(root, number) == FindPageByNumberRec[root][number].page
=============================================================================

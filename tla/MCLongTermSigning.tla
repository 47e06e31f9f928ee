--------------------------- MODULE MCLongTermSigning ---------------------------
(***************************************************************************)
(* LongTermSigning on the documents of MCSignContext, on one that has page *)
(* contents, and on one whose catalog an editor has rewritten.             *)
(***************************************************************************)
EXTENDS LongTermSigning, MCSignContext

LTRequests ==
  {Req("Approval", TRUE, "none", 1, FALSE)}

InvisibleRequests == {Req("Approval", FALSE, "none", 1, FALSE)}

\* A page that has contents.
ContentsFile(xref) ==
  [xref |-> xref,
   objs |-> << Obj(1, "Catalog", <<>>, {At("Pages", R(2))}),
               Obj(2, "Pages", <<R(3)>>, {}),
               Obj(3, "Page", <<>>, {At("Parent", R(2)), At("Contents", R(4))}),
               Obj(4, "Stream", <<>>, {}) >>,
   sections |-> << [entries |-> <<Free(0)>> \o [i \in 1..4 |-> InFile(i, i)],
                    size |-> 5, root |-> R(1)] >>]

LTFiles == {ContentsFile("table"), ContentsFile("stream")}

ContentsFiles == {ContentsFile("table")}

\* The documents of the passing run are among those that the theorems are about.
ASSUME LTFilesExtensible == \A f \in LTFiles : WellFormed(f) /\ Extensible(f)

\* An editor gave the document a form with a signed field, and rewrote its catalog.
RewrittenFile ==
  [ContentsFile("table") EXCEPT
     !.objs = @ \o << Obj(5, "Widget", <<>>, {At("V", R(6)), At("P", R(3))}),
                      Obj(6, "Sig", <<>>, {}),
                      Obj(1, "Catalog", <<R(5)>>, {At("Pages", R(2))}) >>,
     !.sections = Append(@, [entries |-> <<Free(0), InFile(1, 7), InFile(5, 5), InFile(6, 6)>>,
                             size |-> 7, root |-> R(1)])]

RewrittenFiles == {RewrittenFile}
=============================================================================

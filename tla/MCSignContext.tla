---------------------------- MODULE MCSignContext ----------------------------
(***************************************************************************)
(* SignContext on small documents: a form with an initials field, and a    *)
(* date field that has a widget of its own; a plain document of two pages  *)
(* in which an object was deleted. Both with a table and with a stream.    *)
(***************************************************************************)
EXTENDS SignContext

R(id) == [id |-> id, gen |-> 0]

Obj(id, kind, kids, refs) ==
  [Plain(kind) EXCEPT !.id = id, !.kids = kids, !.refs = refs]

InFile(id, pos) == [id |-> id, gen |-> 0, pos |-> pos]

Free(id) == [id |-> id, gen |-> 65535, pos |-> 0]

\* 4 is an initials field that is its own widget, 6 a date field with widget 5.
FormFile(xref) ==
  [xref |-> xref,
   objs |-> << Obj(1, "Catalog", <<R(4), R(6)>>, {At("Pages", R(2))}),
               Obj(2, "Pages", <<R(3)>>, {}),
               [Obj(3, "Page", <<R(4), R(5)>>, {At("Parent", R(2))}) EXCEPT !.keys = {3}],
               [Obj(4, "Initials", <<>>, {At("AP", R(7))}) EXCEPT !.keys = {4}],
               [Obj(5, "Text", <<>>, {At("Parent", R(6)), At("AP", R(7))}) EXCEPT !.keys = {5}],
               [Obj(6, "Date", <<R(5)>>, {}) EXCEPT !.keys = {6}],
               [Obj(7, "Appearance", <<>>, {}) EXCEPT !.keys = {7}] >>,
   sections |-> << [entries |-> <<Free(0)>> \o [i \in 1..7 |-> InFile(i, i)],
                    size |-> 8, root |-> R(1)] >>]

\* Object 6 was deleted by the second revision; a reader of a table still sees it.
EditedFile(xref) ==
  [xref |-> xref,
   objs |-> << Obj(1, "Catalog", <<>>, {At("Pages", R(2))}),
               Obj(2, "Pages", <<R(3), R(4)>>, {}),
               Obj(3, "Page", <<>>, {At("Parent", R(2))}),
               Obj(4, "Page", <<R(5)>>, {At("Parent", R(2))}),
               Obj(5, "Text", <<>>, {At("P", R(4))}),
               Obj(6, "Stream", <<>>, {}),
               Obj(4, "Page", <<>>, {At("Parent", R(2))}) >>,
   sections |-> << [entries |-> <<Free(0)>> \o [i \in 1..6 |-> InFile(i, i)],
                    size |-> 7, root |-> R(1)],
                   [entries |-> <<Free(0), Free(6), InFile(4, 7)>>,
                    size |-> 7, root |-> R(1)] >>]

Files == {FormFile(x) : x \in {"table", "stream"}}
           \union {EditedFile(x) : x \in {"table", "stream"}}

Req(certType, visible, image, page, fill) ==
  [certType |-> certType, visible |-> visible, image |-> image, page |-> page, fill |-> fill]

\* Visible and invisible, with each kind of image, on a page that exists or not,
\* filling fields or not, and a visible request that is refused.
SomeRequests ==
  { Req("Approval", TRUE, "none", 1, TRUE), Req("Approval", TRUE, "opaque", 1, FALSE),
    Req("Approval", TRUE, "alpha", 2, FALSE), Req("Approval", FALSE, "none", 1, TRUE),
    Req("TimeStamp", FALSE, "none", 1, FALSE), Req("Certification", TRUE, "none", 1, FALSE) }

\* The documents are among those that the theorems are about.
ASSUME FilesWellFormed == InputsWellFormed

\* For the run that questions a claim of the repository.
FormFiles == {FormFile("stream")}
=============================================================================

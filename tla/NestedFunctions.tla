--------------------------- MODULE NestedFunctions ---------------------------
(***************************************************************************)
(* The calls of PureFunctions, and that of the function that recurses over *)
(* nested values, those that are copied to an object written anew.         *)
(***************************************************************************)
EXTENDS PureFunctions, ValueCopy

CONSTANT
  CopiedDocuments \* objects that refer to each other, the catalog with a form among them

NestedArguments ==
  Arguments \union [call: {"serializeCatalogEntry"}, of: CopiedDocuments]

NestedInit == arguments \in NestedArguments /\ result = Pending

\* An object is copied to its new text: the catalog with its form, a page, a field.
CopyEntries ==
  Returns("serializeCatalogEntry",
          LET of == arguments.of
          IN [catalog |-> CatalogEntries(of, of.catalog),
              form |-> FormEntries(of, of.catalog),
              page |-> PageEntries(of, of.page),
              field |-> FieldEntries(of, of.field)])

NestedNext ==
  \/ Next
  \/ CopyEntries

NestedSpec == NestedInit /\ [][NestedNext]_vars

-----------------------------------------------------------------------------
(* What the results are for *)

CopyDepth == 4

HasDirectForm(of) == AtKey(of.objects[of.catalog], "AcroForm").kind # "ref"

SameCopy(of, copy, original, left) == SameEntries(of.objects, copy, original, left, CopyDepth)

SameForm(of, copy) ==
  LET form == FormAt(of.objects, of.catalog)
  IN SameCopy(of, copy, form.value, FormLeft(of.objects, form))

SameField(of, copy) == SameCopy(of, copy, of.objects[of.field], FieldLeft)

\* References and structure are kept: where names, numbers and strings need no escape and no
\* more than six places, and the object does not refer to itself, the entries of the catalog, of
\* a form that is a direct value of it, of a page and of a filled field are all there and still
\* say what they said, whether they are references or direct values with references and further
\* values in them. In an encrypted document the strings may be any, and the page is left out.
EntriesKept ==
  Returned("serializeCatalogEntry") =>
    LET of == arguments.of
    IN PlainlyWritten(of) =>
         /\ ~RefersToItself(of.objects, of.catalog) =>
              /\ SameCopy(of, result[1].catalog, of.objects[of.catalog], CatalogLeft)
              /\ (HasDirectForm(of) => SameForm(of, result[1].form))
         /\ (~of.encrypted => SameCopy(of, result[1].page, of.objects[of.page], PageLeft))
         /\ (~RefersToItself(of.objects, of.field) => SameField(of, result[1].field))

\* sign/pdfcatalog.go copies the other entries of the form "as-is", wherever the form was: so
\* they say what they said, at least in a document where nothing needs an escape and the catalog
\* does not refer to itself.
FormEntriesKept ==
  LET of == arguments.of
  IN /\ Returned("serializeCatalogEntry")
     /\ PlainlyWritten(of) /\ ~RefersToItself(of.objects, of.catalog)
     => SameForm(of, result[1].form)
=============================================================================

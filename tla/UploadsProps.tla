---------------------------- MODULE UploadsProps -----------------------------
(***************************************************************************)
(* What uploads promise: the rows and the disk fit together.                *)
(***************************************************************************)
EXTENDS Uploads

\* Nobody edits a row that another call works on.
EditsAlone ==
    \A b, c \in Calls :
        /\ b # c
        /\ ~At(b, "idle") /\ calls[b].file = NULL
        => calls[b].slot # calls[c].slot

\* Whatever uploads overlap, wherever the process dies and whichever save
\* fails, if edits do not overlap uploads of their row: the picture a row
\* names is on the disk, unless an edit named it or let go of it by hand
\* (saveLogo(), saveCategoryImage(), saveProductImage(), updateProduct()).
PictureExists ==
    \A s \in Pictures : rows[s].file \notin byHand \cup {NULL} => rows[s].file \in disk

\* The files no upload answers for.
Excused == blamed \cup byHand

\* If requests do not overlap: once nobody works, the disk holds exactly the
\* files that rows name, but for those of uploads that were turned down, died,
\* or could not save their document, and those of edits by hand (the catalog's
\* uploads, saveDocument()).
NoFileIsLost ==
    (\A c \in Calls : At(c, "idle")) => disk \ Excused = Named \ Excused

=============================================================================

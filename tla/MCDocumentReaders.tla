------------------------- MODULE MCDocumentReaders -------------------------
(* Small instances of DocumentReaders for TLC. *)
EXTENDS DocumentReaders, TLC
=============================================================================

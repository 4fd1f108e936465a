----------------------------- MODULE ReaderSyncMC -----------------------------
(***************************************************************************)
(* Instances of ReaderSync for TLC: a document with a highlight and a note *)
(* on each of them.                                                        *)
(***************************************************************************)
EXTENDS ReaderSync, TLC

CONSTANTS doc, quote, remark, comment

MCDocs == {doc}
MCSummarised == {doc}
MCHighlights == {quote}
MCNotes == {remark, comment}
MCParent == (quote :> doc) @@ (remark :> quote) @@ (comment :> doc)
=============================================================================

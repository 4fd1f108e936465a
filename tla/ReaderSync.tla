------------------------------ MODULE ReaderSync ------------------------------
(***************************************************************************)
(* The sync of Readwise Reader into the corpus files (reader.py,           *)
(* corpus.py): the listing of what changed after the watermark, the        *)
(* normalisation of a batch against the corpus, the upserts, and the       *)
(* watermark in state.json.                                                *)
(*                                                                         *)
(* A version of an item is the time of its last change (updated_at).  One  *)
(* action is a page of the listing (an await) or the replacement of one    *)
(* file; a sync may die between any two of them.  The tags backfill and    *)
(* .backfill are one mark, given when a document is saved; documents.jsonl *)
(* never holds a marked document, so the tests of a stored parent's tags   *)
(* find nothing and are left out.  raw/ is written but never read.  What   *)
(* cycles and manual runs take from the corpus as evidence (selection.py)  *)
(* is a function of the files: rows, and summaries of documents.           *)
(***************************************************************************)
EXTENDS Naturals, FiniteSets, FiniteSetsExt

CONSTANTS
    Docs, Highlights, Notes,  \* items of the three categories
    Parent,   \* parent_id: a highlight's document, a note's document or highlight
    Summarised,  \* the documents with a tag and a summary
    Syncs,    \* syncs that may be in progress at the same time
    MaxTime,  \* bound on the number of changes
    Faults    \* {"crash"} or {}: a sync dies or raises between two of its steps

Items == Docs \cup Highlights \cup Notes

ASSUME ReaderAssumption ==
    /\ IsFiniteSet(Items) /\ MaxTime \in Nat /\ Faults \subseteq {"crash"}
    /\ Docs \cap Highlights = {} /\ Docs \cap Notes = {} /\ Highlights \cap Notes = {}
    /\ Parent \in [Highlights \cup Notes -> Docs \cup Highlights]
    /\ \A h \in Highlights : Parent[h] \in Docs
    /\ Summarised \subseteq Docs
    \* Reader keeps one note on a highlight.
    /\ \A m, n \in Notes : Parent[m] = Parent[n] /\ Parent[m] \in Highlights => m = n

\* The rows of highlights.jsonl: highlights and notes on documents.
Evidence == Highlights \cup {n \in Notes : Parent[n] \in Docs}

VARIABLES
    now, reader,     \* Reader: the items, as [at, off]; at = 0 before there is one
    shifted,         \* items that changed while a listing was in progress
    documents,       \* documents.jsonl: version by document, 0 without a row
    evidence,        \* highlights.jsonl: versions of the row, its document fields, its note
    content,         \* documents/: version of the readable file
    watermark,       \* state.json: reader_updated_after
    pc,              \* next step of a sync
    began,           \* when its listing began
    since,           \* watermark it loaded
    got,             \* what it has been listed, as [at, off]
    export           \* the evidence rows normalize_rows has made of it

readerVars == <<now, reader, shifted>>
corpusVars == <<documents, evidence, content, watermark>>
syncVars == <<pc, began, since, got, export>>
vars == <<readerVars, corpusVars, syncVars>>

Times == 0..MaxTime

\* off: the document is tagged backfill, the note is empty.
State == [at : Times, off : BOOLEAN]
Absent == [at |-> 0, off |-> FALSE]

Row == [ver : Times, doc : Times, note : Times]
NoRow == [ver |-> 0, doc |-> 0, note |-> 0]

Nothing == [i \in Items |-> Absent]

TypeOK ==
    /\ now \in Times /\ reader \in [Items -> State] /\ shifted \subseteq Items
    /\ documents \in [Docs -> Times] /\ evidence \in [Evidence -> Row]
    /\ content \in [Docs -> Times] /\ watermark \in Times
    /\ pc \in [Syncs -> {"idle", "listing", "documents", "highlights", "files"}]
    /\ began \in [Syncs -> Times] /\ since \in [Syncs -> Times]
    /\ got \in [Syncs -> [Items -> State]] /\ export \in [Syncs -> [Evidence -> Row]]

Init ==
    /\ now = 0 /\ reader = Nothing /\ shifted = {}
    /\ documents = [d \in Docs |-> 0] /\ content = [d \in Docs |-> 0]
    /\ evidence = [e \in Evidence |-> NoRow]
    /\ watermark = 0
    /\ pc = [s \in Syncs |-> "idle"]
    /\ began = [s \in Syncs |-> 0] /\ since = [s \in Syncs |-> 0]
    /\ got = [s \in Syncs |-> Nothing]
    /\ export = [s \in Syncs |-> [e \in Evidence |-> NoRow]]

Goto(s, step) == pc' = [pc EXCEPT ![s] = step]

\* The sync has returned or is dead: what it had in memory is gone.
Forget(s) ==
    /\ Goto(s, "idle")
    /\ began' = [began EXCEPT ![s] = 0]
    /\ since' = [since EXCEPT ![s] = 0]
    /\ got' = [got EXCEPT ![s] = Nothing]
    /\ export' = [export EXCEPT ![s] = [e \in Evidence |-> NoRow]]

-----------------------------------------------------------------------------
(* Readwise Reader *)

\* The user saves, changes, tags, highlights or annotates: no two items change
\* at the same time, and a parent is there before its children.
Change(i) ==
    /\ now < MaxTime
    /\ i \notin Docs => reader[Parent[i]].at > 0
    /\ now' = now + 1
    /\ \E off \in BOOLEAN :
        /\ off => i \in Docs \cup Notes
        /\ i \in Docs /\ reader[i].at > 0 => off = reader[i].off
        /\ reader' = [reader EXCEPT ![i] = [at |-> now', off |-> off]]
    /\ shifted' = IF \E s \in Syncs : pc[s] = "listing" THEN shifted \cup {i} ELSE shifted
    /\ UNCHANGED <<corpusVars, syncVars>>

-----------------------------------------------------------------------------
(* normalize_rows *)

Listed(g) == {i \in Items : g[i].at > 0}

\* skipped_document_reader_ids
Skipped(g) == {d \in Docs \cap Listed(g) : g[d].off}

\* document_rows
Kept(g) == {d \in Docs \cap Listed(g) : ~g[d].off}

\* Variant: a parent is looked for in the batch only.
BatchVersion(g, d) == IF d \in Kept(g) THEN g[d].at ELSE 0

\* documents.get(key) or existing_documents.get(key)
DocumentVersion(g, d) == IF d \in Kept(g) THEN g[d].at ELSE documents[d]

\* notes_by_highlight: the version of the note the batch brings for h, or 0.
BatchNote(g, h) ==
    LET notes == {n \in Notes \cap Listed(g) : Parent[n] = h /\ ~g[n].off}
    IN  IF h \in Highlights /\ (h \in Listed(g) \/ evidence[h].ver > 0) /\ notes # {}
        THEN g[CHOOSE n \in notes : TRUE].at ELSE 0

\* Variant: a row is made of the batch alone.
NoteOfBatch(g, e) == BatchNote(g, e)

\* A highlight keeps its note when the batch brings none.
NoteOf(g, e) == IF BatchNote(g, e) > 0 THEN BatchNote(g, e) ELSE evidence[e].note

\* The highlights of the batch and its notes on documents that are known.
InBatch(g, e) ==
    /\ e \in Listed(g) /\ ~g[e].off
    /\ Parent[e] \notin Skipped(g)
    /\ e \in Notes => DocumentVersion(g, Parent[e]) > 0

\* _highlight_row and _document_note_row: what a row keeps of its item, and of
\* the document as it is known now.
RowOf(g, e) == [ver |-> g[e].at, doc |-> DocumentVersion(g, Parent[e]), note |-> NoteOf(g, e)]

\* highlight_rows; NoRow for what the export does not mention.
Normalized(g) ==
    [e \in Evidence |->
        IF InBatch(g, e) THEN RowOf(g, e)
        ELSE IF BatchNote(g, e) > 0 /\ evidence[e].ver > 0
        THEN [evidence[e] EXCEPT !.note = BatchNote(g, e)]
        ELSE IF evidence[e].ver > 0 /\ Parent[e] \in Kept(g)
        THEN [evidence[e] EXCEPT !.doc = g[Parent[e]].at]
        ELSE NoRow]

-----------------------------------------------------------------------------
(* sync_reader *)

Start(s) ==
    /\ pc[s] = "idle"
    /\ Goto(s, "listing")
    /\ began' = [began EXCEPT ![s] = now]
    /\ since' = [since EXCEPT ![s] = watermark]
    /\ UNCHANGED <<readerVars, corpusVars, got, export>>

\* What updatedAfter asks for.
Matching(s) == {i \in Items : reader[i].at > since[s]}

\* A page shows items as they are at its moment; an item is listed once.
ListPage(s) ==
    /\ pc[s] = "listing"
    /\ \E page \in SUBSET (Matching(s) \ Listed(got[s])) :
        /\ page # {}
        /\ got' = [got EXCEPT ![s] = [i \in Items |-> IF i \in page THEN reader[i] ELSE @[i]]]
    /\ UNCHANGED <<readerVars, corpusVars, pc, began, since, export>>

\* The listing ends when it has shown all items that did not change meanwhile
\* (a change may move an item across the cursor); the batch is normalised
\* and documents.jsonl is replaced.
UpsertDocuments(s) ==
    /\ pc[s] = "listing"
    /\ \A i \in Matching(s) : reader[i].at <= began[s] => i \in Listed(got[s])
    /\ export' = [export EXCEPT ![s] = Normalized(got[s])]
    /\ documents' = [d \in Docs |-> DocumentVersion(got[s], d)]
    /\ Goto(s, "documents")
    /\ UNCHANGED <<readerVars, evidence, content, watermark, began, since, got>>

UpsertHighlights(s) ==
    /\ pc[s] = "documents"
    /\ evidence' = [e \in Evidence |->
                       IF export[s][e].ver > 0 THEN export[s][e] ELSE evidence[e]]
    /\ Goto(s, "highlights")
    /\ UNCHANGED <<readerVars, documents, content, watermark, began, since, got, export>>

WriteContent(g, docs) == content' = [d \in Docs |-> IF d \in docs THEN g[d].at ELSE content[d]]

WriteFiles(s) ==
    /\ pc[s] = "highlights"
    /\ WriteContent(got[s], Kept(got[s]))
    /\ Goto(s, "files")
    /\ UNCHANGED <<readerVars, documents, evidence, watermark, began, since, got, export>>

\* The sync dies between two of these files.
DieWriting(s) ==
    /\ "crash" \in Faults
    /\ pc[s] = "highlights"
    /\ \E docs \in SUBSET Kept(got[s]) :
        /\ docs # {}
        /\ WriteContent(got[s], docs)
    /\ Forget(s)
    /\ UNCHANGED <<readerVars, documents, evidence, watermark>>

\* Variant: the watermark is the time of the save.
TimeOfSave(s) == now

\* newest updated_at of the fetched rows; the loaded watermark without rows.
Newest(s) == IF Listed(got[s]) = {} THEN since[s] ELSE Max({got[s][i].at : i \in Items})

Save(s) ==
    /\ pc[s] = "files"
    /\ watermark' = Newest(s)
    /\ Forget(s)
    /\ UNCHANGED <<readerVars, documents, evidence, content>>

\* The listing or a write raises, or the process dies.
Die(s) ==
    /\ "crash" \in Faults
    /\ pc[s] # "idle"
    /\ Forget(s)
    /\ UNCHANGED <<readerVars, corpusVars>>

-----------------------------------------------------------------------------
(* The corpus as evidence *)

\* Variant: every document with a tag and a summary.
AnySummary == {d \in Summarised : documents[d] > 0}

\* _select_document_summary_evidence: a document is evidence by itself as long as
\* no row at all names it.
SummaryEvidence ==
    {d \in Summarised : documents[d] > 0 /\ \A e \in Evidence : Parent[e] = d => evidence[e].ver = 0}

\* _corpus_evidence
CorpusEvidence == {e \in Evidence : evidence[e].ver > 0} \cup SummaryEvidence

-----------------------------------------------------------------------------

Next ==
    \/ \E i \in Items : Change(i)
    \/ \E s \in Syncs :
        \/ Start(s) \/ ListPage(s) \/ UpsertDocuments(s) \/ UpsertHighlights(s)
        \/ WriteFiles(s) \/ DieWriting(s) \/ Save(s) \/ Die(s)

Spec == Init /\ [][Next]_vars

-----------------------------------------------------------------------------
(* Properties *)

DocOf(i) ==
    IF i \in Docs THEN i ELSE IF Parent[i] \in Docs THEN Parent[i] ELSE Parent[Parent[i]]

\* Neither i nor what it hangs on changed during a listing.
Steady(i) ==
    ({i, DocOf(i)} \cup (IF i \in Docs THEN {} ELSE {Parent[i]})) \cap shifted = {}

\* The corpus holds i as it is in Reader.  A backfill document and what belongs
\* to it, and an empty note, need not be there.
Reflects(i) ==
    \/ reader[DocOf(i)].off \/ reader[i].off
    \/ /\ i \in Docs
       /\ documents[i] = reader[i].at /\ content[i] = reader[i].at
    \/ i \in Evidence /\ evidence[i].ver = reader[i].at
    \/ /\ i \in Notes \ Evidence
       /\ evidence[Parent[i]].ver > 0 /\ evidence[Parent[i]].note = reader[i].at

\* What the watermark says has been read is in the corpus, wherever a sync has
\* died before.  Only what changed during a listing may be missing.
ReflectedUpToWatermark ==
    \A i \in Items : reader[i].at \in 1..watermark /\ Steady(i) => Reflects(i)

\* No step puts an older version in place of a newer one, drops a row, or
\* takes the note from a highlight.
NothingIsTakenBack ==
    [][ /\ watermark <= watermark'
        /\ \A d \in Docs : documents[d] <= documents'[d] /\ content[d] <= content'[d]
        /\ \A e \in Evidence :
            /\ evidence[e].ver <= evidence'[e].ver
            /\ evidence[e].doc <= evidence'[e].doc
            /\ evidence[e].note <= evidence'[e].note ]_vars

\* What the corpus offers of a document has not been missed and is not offered
\* twice, wherever a sync has died: a document whose highlights and notes have
\* been read up to the watermark is no longer offered as its own summary, and one
\* that has none in Reader is.
RepresentedOnce ==
    /\ \A e \in Evidence :
        reader[e].at \in 1..watermark /\ Steady(e) /\ ~reader[e].off /\ ~reader[Parent[e]].off
            => /\ e \in CorpusEvidence
               /\ Parent[e] \notin CorpusEvidence
    /\ \A d \in Summarised :
        reader[d].at \in 1..watermark /\ Steady(d) /\ ~reader[d].off
            => \/ d \in CorpusEvidence
               \/ \E e \in Evidence : Parent[e] = d /\ reader[e].at > 0

-----------------------------------------------------------------------------
(* Liveness *)

\* The page without a nextPageCursor.
LastPage(s) == ListPage(s) /\ Matching(s) \subseteq Listed(got'[s])

\* Syncs are started again and again, by the weekly cycle and by the operator,
\* and do not die at the same step for ever.  Nothing is assumed of the user.
Fairness ==
    \A s \in Syncs :
        /\ WF_vars(Start(s))
        /\ SF_vars(LastPage(s)) /\ SF_vars(UpsertDocuments(s)) /\ SF_vars(UpsertHighlights(s))
        /\ SF_vars(WriteFiles(s)) /\ SF_vars(Save(s))

FairSpec == Spec /\ Fairness

\* Once the user makes no more changes, the corpus holds everything.
CorpusCatchesUp == <>[](\A i \in Items : reader[i].at > 0 /\ Steady(i) => Reflects(i))
=============================================================================

-------------------------- MODULE ReaderSync_proof --------------------------
(***************************************************************************)
(* Theorems about ReaderSync, for every corpus and every number of         *)
(* changes: its types, and for one sync at a time that nothing stored is   *)
(* taken back and what the watermark says has been read is in the corpus.  *)
(*                                                                         *)
(* That a step takes nothing back rests on what a sync holds in memory     *)
(* being newer than the corpus: what Reader lists is newer than the        *)
(* watermark and than every version the corpus has, and nobody else writes *)
(* the corpus before the batch is normalised and stored.  The documents of *)
(* evidence rows are never newer than documents.jsonl, so that a row whose *)
(* document is not in the batch keeps its document fields.                 *)
(*                                                                         *)
(* That the corpus follows the watermark rests on the listing of a sync    *)
(* showing every item that has not changed since it began.  Each step      *)
(* brings one more file to what was shown, and leaves what it had under    *)
(* the old watermark, since nothing that old is listed; saving the         *)
(* watermark then only says so.                                            *)
(***************************************************************************)
EXTENDS ReaderSync, WellFoundedInduction, TLAPS

-----------------------------------------------------------------------------
(* Sets of numbers *)

\* A set of numbers up to n that is not empty has a greatest element.
LEMMA GreatestExists ==
    ASSUME NEW n \in Nat, NEW S \in SUBSET (0..n), S # {}
    PROVE  \E m \in S : \A x \in S : x <= m
<1> DEFINE gaps == {n - x : x \in S}
           R == OpToRel(<, Nat)
<1>1. gaps \subseteq Nat
  <2> SUFFICES ASSUME NEW x \in S PROVE n - x \in Nat
    OBVIOUS
  <2>1. x \in 0..n
    OBVIOUS
  <2> QED BY <2>1
<1>2. gaps # {}
  OBVIOUS
<1>3. \A a, b \in Nat : a < b => <<a, b>> \in R
  BY SMT DEF OpToRel
<1>4. IsWellFoundedOn(R, Nat)
  BY NatLessThanWellFounded
<1>5. PICK gap \in gaps : \A g \in gaps : <<g, gap>> \notin R
  <2> HIDE DEF gaps, R
  <2> QED BY Zenon, <1>1, <1>2, <1>4, WFMin
<1>6. \A g \in gaps : ~(g < gap)
  <2> HIDE DEF gaps, R
  <2> QED BY Zenon, <1>1, <1>3, <1>5
<1>7. PICK x \in S : gap = n - x
  OBVIOUS
<1>8. \A y \in S : y <= x
  <2> SUFFICES ASSUME NEW y \in S PROVE y <= x
    OBVIOUS
  <2>1. ~(n - y < gap)
    BY <1>6
  <2> QED BY <1>7, <2>1
<1> QED BY <1>8

\* A set of numbers up to n that is not empty has a maximum.
LEMMA MaxIsGreatest ==
    ASSUME NEW n \in Nat, NEW S \in SUBSET (0..n), S # {}
    PROVE  Max(S) \in S /\ \A x \in S : x <= Max(S)
<1> DEFINE IsMax(m) == m \in S /\ \A y \in S : m >= y
<1>1. PICK x \in S : \A y \in S : y <= x
  BY GreatestExists
<1>2. IsMax(x)
  BY <1>1
<1>3. IsMax(CHOOSE m : IsMax(m))
  BY Zenon, <1>2
<1>4. Max(S) = CHOOSE m : IsMax(m)
  BY Zenon DEF Max
<1> QED BY <1>3, <1>4

-----------------------------------------------------------------------------
(* Types *)

\* What normalize_rows makes of a batch are rows.
LEMMA NormalizedType ==
    ASSUME TypeOK, NEW s \in Syncs
    PROVE  /\ Normalized(got[s]) \in [Evidence -> Row]
           /\ \A d \in Docs : DocumentVersion(got[s], d) \in Times
<1> DEFINE g == got[s]
<1> USE ReaderAssumption DEF TypeOK, Items, State
<1>1. g \in [Items -> State]
  OBVIOUS
<1>2. \A d \in Docs : DocumentVersion(g, d) \in Times
  BY <1>1 DEF DocumentVersion
<1>3. \A e \in Evidence : BatchNote(g, e) \in Times
  BY <1>1 DEF BatchNote, Listed, Times
<1>4. \A e \in Evidence : NoteOf(g, e) \in Times
  BY <1>3 DEF NoteOf, Row
<1>5. \A e \in Evidence : Parent[e] \in Docs /\ e \in Items
  BY DEF Evidence
<1>6. \A e \in Evidence : RowOf(g, e) \in Row
  BY <1>1, <1>2, <1>4, <1>5 DEF RowOf, Row
<1>7. \A e \in Evidence : Normalized(g)[e] \in Row
  <2> TAKE e \in Evidence
  <2>1. NoRow \in Row
    BY DEF NoRow, Row, Times
  <2>2. evidence[e] \in Row /\ BatchNote(g, e) \in Times /\ g[Parent[e]].at \in Times
    BY <1>1, <1>3, <1>5
  <2>3. \A r \in Row, t \in Times : [r EXCEPT !.note = t] \in Row /\ [r EXCEPT !.doc = t] \in Row
    BY DEF Row
  <2> QED BY <1>6, <2>1, <2>2, <2>3 DEF Normalized
<1> QED BY <1>2, <1>7 DEF Normalized

\* The watermark a sync saves is a time, and no older than the one it loaded when
\* everything it was listed is newer than that.
LEMMA NewestType ==
    ASSUME TypeOK, NEW s \in Syncs
    PROVE  /\ Newest(s) \in Times
           /\ (\A i \in Listed(got[s]) : since[s] < got[s][i].at) => since[s] <= Newest(s)
<1> USE ReaderAssumption DEF TypeOK, State, Times, Listed
<1>1. CASE Listed(got[s]) = {}
  BY <1>1 DEF Newest
<1>2. CASE Listed(got[s]) # {}
  <2> DEFINE S == {got[s][i].at : i \in Items}
  <2>1. PICK i \in Items : got[s][i].at > 0
    BY <1>2
  <2>2. S \in SUBSET (0..MaxTime) /\ got[s][i].at \in S
    OBVIOUS
  <2>3. Max(S) \in S /\ got[s][i].at <= Max(S)
    BY <2>2, MaxIsGreatest
  <2>4. Newest(s) = Max(S)
    BY <1>2 DEF Newest
  <2>5. i \in Listed(got[s]) /\ since[s] \in 0..MaxTime /\ got[s][i].at \in 0..MaxTime
    BY <2>1
  <2>6. Newest(s) \in 0..MaxTime /\ got[s][i].at <= Newest(s)
    BY <2>2, <2>3, <2>4
  <2> HIDE DEF Listed, S
  <2>7. since[s] < got[s][i].at => since[s] <= Newest(s)
    BY <2>5, <2>6
  <2> QED BY <2>5, <2>6, <2>7
<1> QED BY <1>1, <1>2

\* A batch never gives the files a value that is no version.
LEMMA ContentType ==
    ASSUME TypeOK, NEW s \in Syncs, NEW docs \in SUBSET Kept(got[s]),
           WriteContent(got[s], docs)
    PROVE  content' \in [Docs -> Times]
<1>1. got[s] \in [Items -> State]
  BY DEF TypeOK
<1>2. \A d \in Docs : got[s][d].at \in Times
  BY <1>1 DEF Items, State
<1>3. content \in [Docs -> Times]
  BY DEF TypeOK
<1> QED BY <1>2, <1>3 DEF WriteContent

\* What a sync forgets is of the type of what it had.
LEMMA ForgetType ==
    ASSUME TypeOK, NEW s \in Syncs, Forget(s)
    PROVE  /\ pc' \in [Syncs -> {"idle", "listing", "documents", "highlights", "files"}]
           /\ began' \in [Syncs -> Times] /\ since' \in [Syncs -> Times]
           /\ got' \in [Syncs -> [Items -> State]]
           /\ export' \in [Syncs -> [Evidence -> Row]]
<1>1. 0 \in Times
  BY ReaderAssumption DEF Times
<1>2. Nothing \in [Items -> State] /\ [e \in Evidence |-> NoRow] \in [Evidence -> Row]
  BY <1>1 DEF Nothing, Absent, State, NoRow, Row
<1> QED BY <1>1, <1>2 DEF TypeOK, Forget, Goto

\* The files, the watermark and the syncs are empty at first.
LEMMA InitType == Init => TypeOK
<1>1. 0 \in Times
  BY ReaderAssumption DEF Times
<1>2. Nothing \in [Items -> State] /\ NoRow \in Row
  BY <1>1 DEF Nothing, Absent, State, NoRow, Row
<1> QED BY <1>1, <1>2 DEF Init, TypeOK

\* A step keeps the types.
LEMMA TypeStep == TypeOK /\ [Next]_vars => TypeOK'
<1> SUFFICES ASSUME TypeOK, [Next]_vars PROVE TypeOK'
  OBVIOUS
<1> USE ReaderAssumption
<1> DEFINE Steps == {"idle", "listing", "documents", "highlights", "files"}
<1>1. ASSUME NEW i \in Items, Change(i) PROVE TypeOK'
  <2>1. now + 1 \in Times /\ now' = now + 1
    BY <1>1 DEF Change, TypeOK, Times
  <2>2. PICK off \in BOOLEAN : reader' = [reader EXCEPT ![i] = [at |-> now', off |-> off]]
    BY <1>1 DEF Change
  <2>3. [at |-> now', off |-> off] \in State
    BY <2>1 DEF State
  <2>4. reader' \in [Items -> State]
    BY <2>2, <2>3 DEF TypeOK
  <2>5. shifted' \subseteq Items
    BY <1>1 DEF Change, TypeOK
  <2> QED BY <1>1, <2>1, <2>4, <2>5 DEF Change, TypeOK, corpusVars, syncVars
<1>2. ASSUME NEW s \in Syncs, Start(s) PROVE TypeOK'
  BY <1>2 DEF Start, TypeOK, Goto, readerVars, corpusVars
<1>3. ASSUME NEW s \in Syncs, ListPage(s) PROVE TypeOK'
  <2>1. PICK page \in SUBSET (Matching(s) \ Listed(got[s])) :
           got' = [got EXCEPT ![s] = [i \in Items |-> IF i \in page THEN reader[i] ELSE @[i]]]
    BY <1>3 DEF ListPage
  <2>2. [i \in Items |-> IF i \in page THEN reader[i] ELSE got[s][i]] \in [Items -> State]
    BY DEF TypeOK
  <2>3. got' \in [Syncs -> [Items -> State]]
    BY <2>1, <2>2 DEF TypeOK
  <2> QED BY <1>3, <2>3 DEF ListPage, TypeOK, readerVars, corpusVars
<1>4. ASSUME NEW s \in Syncs, UpsertDocuments(s) PROVE TypeOK'
  <2>1. documents' \in [Docs -> Times]
    BY <1>4, NormalizedType DEF UpsertDocuments
  <2>2. export' \in [Syncs -> [Evidence -> Row]]
    BY <1>4, NormalizedType DEF UpsertDocuments, TypeOK
  <2> QED BY <1>4, <2>1, <2>2 DEF UpsertDocuments, TypeOK, Goto, readerVars
<1>5. ASSUME NEW s \in Syncs, UpsertHighlights(s) PROVE TypeOK'
  <2>1. evidence' \in [Evidence -> Row]
    BY <1>5 DEF UpsertHighlights, TypeOK
  <2> QED BY <1>5, <2>1 DEF UpsertHighlights, TypeOK, Goto, readerVars
<1>6. ASSUME NEW s \in Syncs, WriteFiles(s) PROVE TypeOK'
  <2>1. content' \in [Docs -> Times]
    BY <1>6, ContentType DEF WriteFiles
  <2> QED BY <1>6, <2>1 DEF WriteFiles, TypeOK, Goto, readerVars
<1>7. ASSUME NEW s \in Syncs, DieWriting(s) PROVE TypeOK'
  <2>1. content' \in [Docs -> Times]
    BY <1>7, ContentType DEF DieWriting
  <2> QED BY <1>7, <2>1, ForgetType DEF DieWriting, TypeOK, readerVars
<1>8. ASSUME NEW s \in Syncs, Save(s) PROVE TypeOK'
  <2>1. watermark' \in Times
    BY <1>8, NewestType DEF Save
  <2> QED BY <1>8, <2>1, ForgetType DEF Save, TypeOK, readerVars
<1>9. ASSUME NEW s \in Syncs, Die(s) PROVE TypeOK'
  BY <1>9, ForgetType DEF Die, TypeOK, readerVars, corpusVars
<1>10. CASE UNCHANGED vars
  BY <1>10 DEF TypeOK, vars, readerVars, corpusVars, syncVars
<1> QED BY <1>1, <1>2, <1>3, <1>4, <1>5, <1>6, <1>7, <1>8, <1>9, <1>10 DEF Next

\* In every reachable state the files, the watermark and what a sync holds are
\* versions of items, whichever syncs die and whatever the user changes.
THEOREM TypeCorrect == Spec => []TypeOK
<1> QED BY InitType, TypeStep, PTL DEF Spec

-----------------------------------------------------------------------------
(* Nothing is taken back *)

\* sync_reader runs alone: the operator does not start one while another runs.
OneSync == \A s, t \in Syncs : s = t

\* q replaces r without taking anything back.
NoOlder(r, q) == r.ver <= q.ver /\ r.doc <= q.doc /\ r.note <= q.note

\* What row r of e tells is in Reader, and in documents.jsonl of its document.
RowPast(r, e) ==
    /\ r.ver <= reader[e].at /\ r.doc <= documents[Parent[e]]
    /\ \A n \in Notes : Parent[n] = e => r.note <= reader[n].at

\* Reader is ahead of the corpus.
CorpusPast ==
    /\ \A i \in Items : reader[i].at <= now
    /\ \A d \in Docs : documents[d] <= reader[d].at /\ content[d] <= reader[d].at
    /\ \A e \in Evidence : RowPast(evidence[e], e)

\* What a sync was listed lies between the corpus and Reader.
BatchAhead(s) ==
    /\ pc[s] = "idle" => Listed(got[s]) = {}
    /\ pc[s] # "idle" => since[s] = watermark
    /\ \A i \in Listed(got[s]) :
        /\ since[s] < got[s][i].at /\ got[s][i].at <= reader[i].at
        /\ i \in Docs => content[i] <= got[s][i].at

\* Until the batch is normalised nothing stored is newer than what it brings.
ListingAhead(s) ==
    pc[s] = "listing" =>
        \A i \in Listed(got[s]) :
            /\ i \in Docs => documents[i] <= got[s][i].at
            /\ i \in Evidence => evidence[i].ver <= got[s][i].at
            /\ i \in Notes /\ Parent[i] \in Evidence => evidence[Parent[i]].note <= got[s][i].at

\* The rows about to be stored are no older than those they replace.
ExportAhead(s) ==
    pc[s] = "documents" =>
        \A e \in Evidence :
            export[s][e].ver > 0 => RowPast(export[s][e], e) /\ NoOlder(evidence[e], export[s][e])

AheadInv ==
    /\ TypeOK /\ CorpusPast
    /\ \A s \in Syncs : BatchAhead(s) /\ ListingAhead(s) /\ ExportAhead(s)

\* An item of the corpus and its parent are items of Reader.
LEMMA EvidenceItems ==
    \A e \in Evidence : e \in Items /\ Parent[e] \in Docs /\ Parent[e] \in Items
BY ReaderAssumption DEF Evidence, Items

\* The types of what the next proofs compare.
LEMMA Numbers ==
    ASSUME TypeOK
    PROVE  /\ now \in Nat /\ watermark \in Nat
           /\ \A i \in Items : reader[i].at \in Nat
           /\ \A d \in Docs : documents[d] \in Nat /\ content[d] \in Nat
           /\ \A e \in Evidence :
               evidence[e].ver \in Nat /\ evidence[e].doc \in Nat /\ evidence[e].note \in Nat
           /\ \A s \in Syncs :
               /\ since[s] \in Nat
               /\ \A i \in Items : got[s][i].at \in Nat
               /\ \A e \in Evidence : /\ export[s][e].ver \in Nat /\ export[s][e].doc \in Nat
                                      /\ export[s][e].note \in Nat
<1>1. Times \subseteq Nat
  BY ReaderAssumption DEF Times
<1>2. \A r \in Row : r.ver \in Nat /\ r.doc \in Nat /\ r.note \in Nat
  BY <1>1 DEF Row
<1>3. \A r \in State : r.at \in Nat
  BY <1>1 DEF State
<1> HIDE DEF Times, Row, State
<1> QED BY <1>1, <1>2, <1>3 DEF TypeOK, Items

\* What normalize_rows takes of a document lies between the corpus and Reader.
LEMMA DocumentsAhead ==
    ASSUME AheadInv, NEW s \in Syncs, pc[s] = "listing", NEW d \in Docs
    PROVE  /\ DocumentVersion(got[s], d) \in Nat
           /\ documents[d] <= DocumentVersion(got[s], d)
           /\ DocumentVersion(got[s], d) <= reader[d].at
<1>1. CASE d \in Kept(got[s])
  <2>1. d \in Listed(got[s]) /\ DocumentVersion(got[s], d) = got[s][d].at /\ d \in Items
    BY <1>1 DEF Kept, DocumentVersion, Items
  <2> QED BY <2>1, Numbers DEF AheadInv, BatchAhead, ListingAhead
<1>2. CASE d \notin Kept(got[s])
  <2>1. DocumentVersion(got[s], d) = documents[d]
    BY <1>2 DEF DocumentVersion
  <2> QED BY <2>1, Numbers DEF AheadInv, CorpusPast
<1> QED BY <1>1, <1>2

\* The note a batch brings for a row is a listed note of that row, the only one.
LEMMA NoteOfBatchIsListed ==
    ASSUME NEW g, NEW e \in Evidence, BatchNote(g, e) > 0
    PROVE  \E n \in Notes \cap Listed(g) :
               /\ Parent[n] = e /\ BatchNote(g, e) = g[n].at
               /\ \A m \in Notes : Parent[m] = e => m = n
<1> DEFINE notes == {n \in Notes \cap Listed(g) : Parent[n] = e /\ ~g[n].off}
<1>1. e \in Highlights /\ notes # {} /\ BatchNote(g, e) = g[CHOOSE n \in notes : TRUE].at
  BY DEF BatchNote
<1>2. (CHOOSE n \in notes : TRUE) \in notes
  BY <1>1
<1>3. PICK n \in notes : BatchNote(g, e) = g[n].at
  BY <1>1, <1>2
<1> QED BY <1>1, <1>3, ReaderAssumption

\* The notes normalize_rows gives a row lie between the corpus and Reader.
LEMMA NotesAhead ==
    ASSUME AheadInv, NEW s \in Syncs, pc[s] = "listing", NEW e \in Evidence
    PROVE  /\ BatchNote(got[s], e) \in Nat
           /\ BatchNote(got[s], e) > 0 =>
               /\ evidence[e].note <= BatchNote(got[s], e)
               /\ \A n \in Notes : Parent[n] = e => BatchNote(got[s], e) <= reader[n].at
<1>1. CASE BatchNote(got[s], e) > 0
  <2>1. PICK n \in Notes \cap Listed(got[s]) :
            /\ Parent[n] = e /\ BatchNote(got[s], e) = got[s][n].at
            /\ \A m \in Notes : Parent[m] = e => m = n
    BY <1>1, NoteOfBatchIsListed
  <2>2. n \in Items
    BY DEF Items
  <2>3. evidence[e].note <= got[s][n].at /\ got[s][n].at <= reader[n].at
    BY <2>1 DEF AheadInv, ListingAhead, BatchAhead
  <2> QED BY <2>1, <2>2, <2>3, Numbers DEF AheadInv
<1>2. CASE ~(BatchNote(got[s], e) > 0)
  <2>1. BatchNote(got[s], e) \in Times
    <3>1. got[s] \in [Items -> State]
      BY DEF AheadInv, TypeOK
    <3> QED BY <3>1, ReaderAssumption DEF BatchNote, Listed, Items, State, Times
  <2> QED BY <1>2, <2>1, ReaderAssumption DEF Times
<1> QED BY <1>1, <1>2

\* The rows of the export lie between the corpus and Reader.
LEMMA ExportRows ==
    ASSUME AheadInv, NEW s \in Syncs, pc[s] = "listing", NEW e \in Evidence,
           Normalized(got[s])[e].ver > 0
    PROVE  LET r == Normalized(got[s])[e]
           IN  /\ NoOlder(evidence[e], r)
               /\ r.ver <= reader[e].at /\ r.doc <= DocumentVersion(got[s], Parent[e])
               /\ \A n \in Notes : Parent[n] = e => r.note <= reader[n].at
<1> DEFINE g == got[s]
           doc == DocumentVersion(got[s], Parent[e])
           note == BatchNote(got[s], e)
<1>1. /\ doc \in Nat /\ documents[Parent[e]] <= doc
      /\ documents[Parent[e]] \in Nat /\ evidence[e].doc \in Nat
      /\ evidence[e].doc <= documents[Parent[e]]
  BY DocumentsAhead, EvidenceItems, Numbers DEF AheadInv, CorpusPast, RowPast
<1>2. evidence[e].doc <= doc
  BY <1>1
<1>3. /\ note \in Nat
      /\ note > 0 => /\ evidence[e].note <= note
                     /\ \A n \in Notes : Parent[n] = e => note <= reader[n].at
  BY NotesAhead
<1>4. /\ evidence[e].ver \in Nat /\ evidence[e].note \in Nat
      /\ evidence[e].ver <= reader[e].at
      /\ \A n \in Notes : Parent[n] = e => evidence[e].note <= reader[n].at
  BY Numbers DEF AheadInv, CorpusPast, RowPast
<1>5. evidence[e] \in Row
  BY DEF AheadInv, TypeOK
<1>6. CASE InBatch(g, e)
  <2>1. Normalized(g)[e] = RowOf(g, e)
    BY <1>6 DEF Normalized
  <2>2. e \in Listed(g) /\ e \in Items
    BY <1>6, EvidenceItems DEF InBatch
  <2>3. evidence[e].ver <= g[e].at /\ g[e].at <= reader[e].at
    BY <2>2 DEF AheadInv, ListingAhead, BatchAhead
  <2>4. /\ evidence[e].note <= NoteOf(g, e)
        /\ \A n \in Notes : Parent[n] = e => NoteOf(g, e) <= reader[n].at
    BY <1>3, <1>4 DEF NoteOf
  <2> QED BY <1>2, <2>1, <2>3, <2>4, <1>1 DEF RowOf, NoOlder
<1>7. CASE ~InBatch(g, e) /\ note > 0 /\ evidence[e].ver > 0
  <2>1. Normalized(g)[e] = [evidence[e] EXCEPT !.note = note]
    BY <1>7 DEF Normalized
  <2>2. /\ Normalized(g)[e].ver = evidence[e].ver /\ Normalized(g)[e].doc = evidence[e].doc
        /\ Normalized(g)[e].note = note
    BY <2>1, <1>5 DEF Row
  <2> QED BY <1>1, <1>2, <1>3, <1>4, <1>7, <2>2 DEF NoOlder
<1>8. CASE /\ ~InBatch(g, e) /\ ~(note > 0 /\ evidence[e].ver > 0)
           /\ evidence[e].ver > 0 /\ Parent[e] \in Kept(g)
  <2>1. Normalized(g)[e] = [evidence[e] EXCEPT !.doc = g[Parent[e]].at]
    BY <1>8 DEF Normalized
  <2>2. doc = g[Parent[e]].at
    BY <1>8 DEF DocumentVersion
  <2>3. /\ Normalized(g)[e].ver = evidence[e].ver /\ Normalized(g)[e].doc = doc
        /\ Normalized(g)[e].note = evidence[e].note
    BY <2>1, <2>2, <1>5 DEF Row
  <2> QED BY <1>1, <1>2, <1>4, <2>3 DEF NoOlder
<1>9. CASE /\ ~InBatch(g, e) /\ ~(note > 0 /\ evidence[e].ver > 0)
           /\ ~(evidence[e].ver > 0 /\ Parent[e] \in Kept(g))
  <2>1. Normalized(g)[e] = NoRow
    BY <1>9 DEF Normalized
  <2> QED BY <2>1 DEF NoRow
<1> QED BY <1>6, <1>7, <1>8, <1>9

\* A sync that is over holds nothing, and another one there is not.
LEMMA Forgotten ==
    ASSUME OneSync, AheadInv, NEW s \in Syncs, Forget(s)
    PROVE  \A t \in Syncs : BatchAhead(t)' /\ ListingAhead(t)' /\ ExportAhead(t)'
<1> TAKE t \in Syncs
<1>1. s = t
  BY DEF OneSync
<1>2. pc'[t] = "idle" /\ got'[t] = Nothing
  BY <1>1 DEF Forget, Goto, AheadInv, TypeOK
<1>3. \A i \in Items : ~(got'[t][i].at > 0)
  BY <1>2 DEF Nothing, Absent
<1>4. Listed(got[t])' = {}
  BY <1>3 DEF Listed
<1> QED BY <1>2, <1>4 DEF BatchAhead, ListingAhead, ExportAhead

\* A change in Reader leaves the corpus and the batches behind it.
LEMMA ChangeAhead ==
    ASSUME AheadInv, TypeOK', NEW i \in Items, Change(i)
    PROVE  AheadInv'
<1>1. PICK off \in BOOLEAN : reader' = [reader EXCEPT ![i] = [at |-> now', off |-> off]]
  BY DEF Change
<1>2. now' = now + 1 /\ now \in Nat
  BY Numbers DEF Change, AheadInv
<1>3. \A j \in Items : reader'[j].at = IF j = i THEN now' ELSE reader[j].at
  BY <1>1 DEF AheadInv, TypeOK
<1>4. \A j \in Items : reader[j].at \in Nat /\ reader[j].at <= now
  BY Numbers DEF AheadInv, CorpusPast
<1>5. \A j \in Items : reader[j].at <= reader'[j].at /\ reader'[j].at <= now' /\ reader'[j].at \in Nat
  BY <1>2, <1>3, <1>4
<1>6. UNCHANGED <<corpusVars, syncVars>>
  BY DEF Change
<1>7. CorpusPast'
  <2>1. \A d \in Docs : documents'[d] <= reader'[d].at /\ content'[d] <= reader'[d].at
    <3> TAKE d \in Docs
    <3>1. d \in Items /\ documents[d] <= reader[d].at /\ content[d] <= reader[d].at
      BY DEF AheadInv, CorpusPast, Items
    <3>2. documents[d] \in Nat /\ content[d] \in Nat
      BY Numbers DEF AheadInv
    <3> QED BY <3>1, <3>2, <1>4, <1>5, <1>6 DEF corpusVars
  <2>2. \A e \in Evidence : RowPast(evidence[e], e)'
    <3> TAKE e \in Evidence
    <3>1. RowPast(evidence[e], e) /\ e \in Items
      BY EvidenceItems DEF AheadInv, CorpusPast
    <3>2. evidence[e].ver \in Nat /\ evidence[e].note \in Nat
      BY Numbers DEF AheadInv
    <3>3. evidence' = evidence /\ documents' = documents
      BY <1>6 DEF corpusVars
    <3>4. \A n \in Notes : n \in Items
      BY DEF Items
    <3> QED BY <3>1, <3>2, <3>3, <3>4, <1>4, <1>5 DEF RowPast
  <2> QED BY <1>5, <2>1, <2>2 DEF CorpusPast
<1>8. ASSUME NEW t \in Syncs PROVE BatchAhead(t)' /\ ListingAhead(t)' /\ ExportAhead(t)'
  <2>1. BatchAhead(t) /\ ListingAhead(t) /\ ExportAhead(t)
    BY DEF AheadInv
  <2>2. UNCHANGED <<documents, evidence, content, watermark, pc, began, since, got, export>>
    BY <1>6 DEF corpusVars, syncVars
  <2>3. BatchAhead(t)'
    <3>1. \A j \in Listed(got[t]) : got[t][j].at <= reader'[j].at
      <4> TAKE j \in Listed(got[t])
      <4>1. j \in Items /\ got[t][j].at <= reader[j].at /\ got[t][j].at \in Nat
        BY <2>1, Numbers DEF BatchAhead, Listed, AheadInv
      <4> QED BY <4>1, <1>4, <1>5
    <3> QED BY <2>1, <2>2, <3>1 DEF BatchAhead, Listed
  <2>4. ListingAhead(t)'
    BY <2>1, <2>2 DEF ListingAhead, Listed
  <2>5. ExportAhead(t)'
    <3> SUFFICES ASSUME pc[t] = "documents", NEW e \in Evidence, export[t][e].ver > 0
                 PROVE  RowPast(export[t][e], e)' /\ NoOlder(evidence[e], export[t][e])'
      BY <2>2 DEF ExportAhead
    <3>1. RowPast(export[t][e], e) /\ NoOlder(evidence[e], export[t][e]) /\ e \in Items
      BY <2>1, EvidenceItems DEF ExportAhead
    <3>2. export[t][e].ver \in Nat /\ export[t][e].note \in Nat
      BY Numbers DEF AheadInv
    <3>3. \A n \in Notes : n \in Items
      BY DEF Items
    <3> QED BY <3>1, <3>2, <3>3, <2>2, <1>4, <1>5 DEF RowPast, NoOlder
  <2> QED BY <2>3, <2>4, <2>5
<1> QED BY <1>7, <1>8 DEF AheadInv

\* A page shows items that are newer than the watermark and than the corpus.
LEMMA ListAhead ==
    ASSUME OneSync, AheadInv, TypeOK', NEW s \in Syncs, ListPage(s)
    PROVE  AheadInv'
<1>1. PICK page \in SUBSET (Matching(s) \ Listed(got[s])) :
         got' = [got EXCEPT ![s] = [i \in Items |-> IF i \in page THEN reader[i] ELSE @[i]]]
  BY DEF ListPage
<1>2. UNCHANGED <<readerVars, corpusVars, pc, began, since, export>> /\ pc[s] = "listing"
  BY DEF ListPage
<1>3. got'[s] = [i \in Items |-> IF i \in page THEN reader[i] ELSE got[s][i]]
  BY <1>1 DEF AheadInv, TypeOK
<1>4. CorpusPast'
  BY <1>2 DEF AheadInv, CorpusPast, RowPast, readerVars, corpusVars
<1>5. ASSUME NEW i \in Listed(got[s])'
      PROVE  \/ i \in Matching(s) /\ got'[s][i] = reader[i]
             \/ i \in Listed(got[s]) /\ got'[s][i] = got[s][i]
  BY <1>3 DEF Listed
<1>6. BatchAhead(s)'
  <2>1. ASSUME NEW i \in Listed(got[s])'
        PROVE  /\ since[s] < got'[s][i].at /\ got'[s][i].at <= reader[i].at
               /\ i \in Docs => content[i] <= got'[s][i].at
    <3>1. CASE i \in Matching(s) /\ got'[s][i] = reader[i]
      <4>1. i \in Items /\ since[s] < reader[i].at /\ reader[i].at \in Nat
        BY <3>1, Numbers DEF Matching, AheadInv
      <4> QED BY <3>1, <4>1 DEF AheadInv, CorpusPast
    <3>2. CASE i \in Listed(got[s]) /\ got'[s][i] = got[s][i]
      BY <3>2 DEF AheadInv, BatchAhead
    <3> QED BY <1>5, <2>1, <3>1, <3>2
  <2>2. since[s] = watermark
    BY <1>2 DEF AheadInv, BatchAhead
  <2> QED BY <1>2, <2>1, <2>2 DEF BatchAhead, readerVars, corpusVars
<1>7. ListingAhead(s)'
  <2>1. ASSUME NEW i \in Listed(got[s])'
        PROVE  /\ i \in Docs => documents[i] <= got'[s][i].at
               /\ i \in Evidence => evidence[i].ver <= got'[s][i].at
               /\ i \in Notes /\ Parent[i] \in Evidence => evidence[Parent[i]].note <= got'[s][i].at
    <3>1. CASE i \in Matching(s) /\ got'[s][i] = reader[i]
      BY <3>1 DEF AheadInv, CorpusPast, RowPast
    <3>2. CASE i \in Listed(got[s]) /\ got'[s][i] = got[s][i]
      BY <1>2, <3>2 DEF AheadInv, ListingAhead
    <3> QED BY <1>5, <2>1, <3>1, <3>2
  <2> QED BY <1>2, <2>1 DEF ListingAhead, corpusVars
<1>8. ExportAhead(s)'
  BY <1>2 DEF ExportAhead
<1> QED BY <1>4, <1>6, <1>7, <1>8 DEF AheadInv, OneSync

\* Storing the documents of a batch keeps the rows of the export ahead.
LEMMA DocumentsStored ==
    ASSUME OneSync, AheadInv, TypeOK', NEW s \in Syncs, UpsertDocuments(s)
    PROVE  /\ AheadInv'
           /\ \A d \in Docs : documents[d] <= documents'[d]
<1>1. /\ pc[s] = "listing" /\ pc'[s] = "documents" /\ export'[s] = Normalized(got[s])
      /\ documents' = [d \in Docs |-> DocumentVersion(got[s], d)]
      /\ UNCHANGED <<readerVars, evidence, content, watermark, since, got>>
  BY DEF UpsertDocuments, Goto, AheadInv, TypeOK
<1>2. \A d \in Docs :
        /\ documents'[d] = DocumentVersion(got[s], d)
        /\ documents'[d] \in Nat /\ documents[d] \in Nat
        /\ documents[d] <= documents'[d] /\ documents'[d] <= reader[d].at
  BY <1>1, DocumentsAhead, Numbers DEF AheadInv
<1>3. CorpusPast'
  <2>1. \A e \in Evidence : RowPast(evidence[e], e)'
    <3> TAKE e \in Evidence
    <3>1. RowPast(evidence[e], e) /\ Parent[e] \in Docs /\ evidence[e].doc \in Nat
      BY EvidenceItems, Numbers DEF AheadInv, CorpusPast
    <3>2. evidence[e].doc <= documents'[Parent[e]]
      BY <1>2, <3>1 DEF RowPast
    <3> QED BY <1>1, <3>1, <3>2 DEF RowPast, readerVars
  <2> QED BY <1>1, <1>2, <2>1 DEF AheadInv, CorpusPast, readerVars
<1>4. BatchAhead(s)' /\ ListingAhead(s)'
  BY <1>1 DEF AheadInv, BatchAhead, ListingAhead, Listed, readerVars
<1>5. ExportAhead(s)'
  <2> SUFFICES ASSUME NEW e \in Evidence, export'[s][e].ver > 0
               PROVE  RowPast(export[s][e], e)' /\ NoOlder(evidence[e], export[s][e])'
    BY DEF ExportAhead
  <2>1. /\ NoOlder(evidence[e], export'[s][e])
        /\ export'[s][e].ver <= reader[e].at
        /\ export'[s][e].doc <= DocumentVersion(got[s], Parent[e])
        /\ \A n \in Notes : Parent[n] = e => export'[s][e].note <= reader[n].at
    BY <1>1, ExportRows
  <2>2. export'[s][e].doc <= documents'[Parent[e]]
    BY <1>2, <2>1, EvidenceItems
  <2> QED BY <1>1, <2>1, <2>2 DEF RowPast, NoOlder, readerVars
<1> QED BY <1>2, <1>3, <1>4, <1>5 DEF AheadInv, OneSync

\* Storing the rows of the export takes nothing back.
LEMMA HighlightsStored ==
    ASSUME OneSync, AheadInv, TypeOK', NEW s \in Syncs, UpsertHighlights(s)
    PROVE  AheadInv' /\ \A e \in Evidence : NoOlder(evidence[e], evidence'[e])
<1>1. /\ pc[s] = "documents" /\ pc'[s] = "highlights"
      /\ evidence' = [e \in Evidence |->
                        IF export[s][e].ver > 0 THEN export[s][e] ELSE evidence[e]]
      /\ UNCHANGED <<readerVars, documents, content, watermark, since, got>>
  BY DEF UpsertHighlights, Goto, AheadInv, TypeOK
<1>2. \A e \in Evidence : RowPast(evidence'[e], e) /\ NoOlder(evidence[e], evidence'[e])
  <2> TAKE e \in Evidence
  <2>1. CASE export[s][e].ver > 0
    BY <1>1, <2>1 DEF AheadInv, ExportAhead
  <2>2. CASE ~(export[s][e].ver > 0)
    <3>1. RowPast(evidence[e], e)
      BY DEF AheadInv, CorpusPast
    <3>2. evidence[e].ver \in Nat /\ evidence[e].doc \in Nat /\ evidence[e].note \in Nat
      BY Numbers DEF AheadInv
    <3> QED BY <1>1, <2>2, <3>1, <3>2 DEF NoOlder
  <2> QED BY <2>1, <2>2
<1>3. CorpusPast'
  BY <1>1, <1>2 DEF AheadInv, CorpusPast, RowPast, readerVars
<1>4. BatchAhead(s)' /\ ListingAhead(s)' /\ ExportAhead(s)'
  BY <1>1 DEF AheadInv, BatchAhead, ListingAhead, ExportAhead, Listed, readerVars
<1> QED BY <1>2, <1>3, <1>4 DEF AheadInv, OneSync

\* Writing readable files takes nothing back.
LEMMA ContentStored ==
    ASSUME AheadInv, NEW s \in Syncs, NEW docs \in SUBSET Kept(got[s]),
           WriteContent(got[s], docs)
    PROVE  \A d \in Docs :
             /\ content[d] <= content'[d] /\ content'[d] <= reader[d].at
             /\ d \in Listed(got[s]) => content'[d] <= got[s][d].at
<1> TAKE d \in Docs
<1>1. d \in Items /\ content[d] \in Nat /\ content[d] <= reader[d].at
  BY Numbers DEF AheadInv, CorpusPast, Items
<1>2. d \in Listed(got[s]) =>
        content[d] <= got[s][d].at /\ got[s][d].at <= reader[d].at /\ got[s][d].at \in Nat
  BY <1>1, Numbers DEF AheadInv, BatchAhead
<1>3. d \in docs => d \in Listed(got[s])
  BY DEF Kept
<1>4. content'[d] = IF d \in docs THEN got[s][d].at ELSE content[d]
  BY DEF WriteContent
<1> QED BY <1>1, <1>2, <1>3, <1>4

\* One step of NothingIsTakenBack.
TakesNothingBack ==
    /\ watermark <= watermark'
    /\ \A d \in Docs : documents[d] <= documents'[d] /\ content[d] <= content'[d]
    /\ \A e \in Evidence : NoOlder(evidence[e], evidence'[e])

\* A step that leaves the corpus alone takes nothing back.
LEMMA CorpusAlone == AheadInv /\ UNCHANGED corpusVars => TakesNothingBack
BY Numbers DEF AheadInv, corpusVars, TakesNothingBack, NoOlder

\* Every step keeps the corpus behind the batch and the batch behind Reader, and
\* takes nothing back.
LEMMA AheadStep ==
    ASSUME OneSync, AheadInv, [Next]_vars
    PROVE  AheadInv' /\ TakesNothingBack
<1>1. TypeOK'
  BY TypeStep DEF AheadInv
<1>2. \A d \in Docs : documents[d] <= documents[d] /\ content[d] <= content[d]
  BY Numbers DEF AheadInv
<1>3. \A e \in Evidence : NoOlder(evidence[e], evidence[e])
  BY Numbers DEF AheadInv, NoOlder
<1>4. watermark <= watermark
  BY Numbers DEF AheadInv
<1>5. CASE \E i \in Items : Change(i)
  <2>1. PICK i \in Items : Change(i)
    BY <1>5
  <2>2. UNCHANGED corpusVars
    BY <2>1 DEF Change
  <2> QED BY <1>1, <2>1, <2>2, ChangeAhead, CorpusAlone
<1>6. ASSUME NEW s \in Syncs, Start(s) PROVE AheadInv' /\ TakesNothingBack
  <2>1. /\ UNCHANGED <<readerVars, corpusVars, got, export>> /\ pc[s] = "idle"
        /\ pc'[s] = "listing" /\ since'[s] = watermark
    BY <1>6 DEF Start, Goto, AheadInv, TypeOK
  <2>2. Listed(got[s])' = {}
    BY <2>1 DEF AheadInv, BatchAhead, Listed
  <2>3. BatchAhead(s)' /\ ListingAhead(s)' /\ ExportAhead(s)'
    BY <2>1, <2>2 DEF BatchAhead, ListingAhead, ExportAhead, corpusVars
  <2>4. CorpusPast'
    BY <2>1 DEF AheadInv, CorpusPast, RowPast, readerVars, corpusVars
  <2> QED BY <1>1, <2>1, <2>3, <2>4, CorpusAlone DEF AheadInv, OneSync
<1>7. ASSUME NEW s \in Syncs, ListPage(s) PROVE AheadInv' /\ TakesNothingBack
  BY <1>1, <1>7, ListAhead, CorpusAlone DEF ListPage
<1>8. ASSUME NEW s \in Syncs, UpsertDocuments(s) PROVE AheadInv' /\ TakesNothingBack
  <2>1. UNCHANGED <<evidence, content, watermark>>
    BY <1>8 DEF UpsertDocuments
  <2>2. AheadInv' /\ \A d \in Docs : documents[d] <= documents'[d]
    BY <1>1, <1>8, DocumentsStored
  <2> QED BY <1>2, <1>3, <1>4, <2>1, <2>2 DEF TakesNothingBack
<1>9. ASSUME NEW s \in Syncs, UpsertHighlights(s) PROVE AheadInv' /\ TakesNothingBack
  <2>1. UNCHANGED <<documents, content, watermark>>
    BY <1>9 DEF UpsertHighlights
  <2>2. AheadInv' /\ \A e \in Evidence : NoOlder(evidence[e], evidence'[e])
    BY <1>1, <1>9, HighlightsStored
  <2> QED BY <1>2, <1>4, <2>1, <2>2 DEF TakesNothingBack
<1>10. ASSUME NEW s \in Syncs, WriteFiles(s) PROVE AheadInv' /\ TakesNothingBack
  <2>1. /\ UNCHANGED <<readerVars, documents, evidence, watermark, since, got, export>>
        /\ pc'[s] = "files" /\ pc[s] # "idle"
    BY <1>10 DEF WriteFiles, Goto, AheadInv, TypeOK
  <2>2. \A d \in Docs :
          /\ content[d] <= content'[d] /\ content'[d] <= reader[d].at
          /\ d \in Listed(got[s]) => content'[d] <= got[s][d].at
    BY <1>10, ContentStored DEF WriteFiles
  <2>3. CorpusPast'
    BY <2>1, <2>2 DEF AheadInv, CorpusPast, RowPast, readerVars
  <2>4. BatchAhead(s)' /\ ListingAhead(s)' /\ ExportAhead(s)'
    BY <2>1, <2>2 DEF AheadInv, BatchAhead, ListingAhead, ExportAhead, Listed, readerVars
  <2> QED BY <1>1, <1>2, <1>3, <1>4, <2>1, <2>2, <2>3, <2>4
          DEF AheadInv, OneSync, TakesNothingBack
<1>11. ASSUME NEW s \in Syncs, DieWriting(s) PROVE AheadInv' /\ TakesNothingBack
  <2>1. UNCHANGED <<readerVars, documents, evidence, watermark>> /\ Forget(s)
    BY <1>11 DEF DieWriting
  <2>2. \A d \in Docs : content[d] <= content'[d] /\ content'[d] <= reader[d].at
    BY <1>11, ContentStored DEF DieWriting
  <2>3. CorpusPast'
    BY <2>1, <2>2 DEF AheadInv, CorpusPast, RowPast, readerVars
  <2> QED BY <1>1, <1>2, <1>3, <1>4, <2>1, <2>2, <2>3, Forgotten
          DEF AheadInv, TakesNothingBack
<1>12. ASSUME NEW s \in Syncs, Save(s) PROVE AheadInv' /\ TakesNothingBack
  <2>1. /\ UNCHANGED <<readerVars, documents, evidence, content>> /\ Forget(s)
        /\ watermark' = Newest(s) /\ pc[s] # "idle"
    BY <1>12 DEF Save
  <2>2. watermark <= watermark'
    BY <2>1, NewestType DEF AheadInv, BatchAhead
  <2>3. CorpusPast'
    BY <2>1 DEF AheadInv, CorpusPast, RowPast, readerVars
  <2> QED BY <1>1, <1>2, <1>3, <2>1, <2>2, <2>3, Forgotten DEF AheadInv, TakesNothingBack
<1>13. ASSUME NEW s \in Syncs, Die(s) PROVE AheadInv' /\ TakesNothingBack
  <2>1. UNCHANGED <<readerVars, corpusVars>> /\ Forget(s)
    BY <1>13 DEF Die
  <2>2. CorpusPast'
    BY <2>1 DEF AheadInv, CorpusPast, RowPast, readerVars, corpusVars
  <2> QED BY <1>1, <2>1, <2>2, Forgotten, CorpusAlone DEF AheadInv
<1>14. CASE UNCHANGED vars
  <2>1. UNCHANGED <<readerVars, corpusVars, syncVars>>
    BY <1>14 DEF vars
  <2>2. CorpusPast'
    BY <2>1 DEF AheadInv, CorpusPast, RowPast, readerVars, corpusVars
  <2>3. \A t \in Syncs : BatchAhead(t)' /\ ListingAhead(t)' /\ ExportAhead(t)'
    BY <2>1 DEF AheadInv, BatchAhead, ListingAhead, ExportAhead, Listed, RowPast,
                readerVars, corpusVars, syncVars
  <2> QED BY <1>1, <2>1, <2>2, <2>3, CorpusAlone DEF AheadInv
<1> QED BY <1>5, <1>6, <1>7, <1>8, <1>9, <1>10, <1>11, <1>12, <1>13, <1>14 DEF Next

\* At first neither the corpus nor a sync holds anything.
LEMMA AheadInit == Init => AheadInv
<1> SUFFICES ASSUME Init PROVE AheadInv
  OBVIOUS
<1>1. TypeOK
  BY InitType
<1>2. \A s \in Syncs : pc[s] = "idle" /\ got[s] = Nothing
  BY DEF Init
<1>3. \A s \in Syncs : Listed(got[s]) = {}
  BY <1>2 DEF Listed, Nothing, Absent
<1>4. CorpusPast
  BY EvidenceItems DEF Init, Nothing, Absent, NoRow, CorpusPast, RowPast, Items
<1> QED BY <1>1, <1>2, <1>3, <1>4 DEF AheadInv, BatchAhead, ListingAhead, ExportAhead

\* While one sync runs at a time no step puts an older version in place of a
\* newer one, drops a row or takes the note from a highlight, wherever syncs die.
THEOREM NothingTakenBack == OneSync => (Spec => NothingIsTakenBack)
<1> SUFFICES ASSUME OneSync PROVE Spec => NothingIsTakenBack
  OBVIOUS
<1>1. Init => AheadInv
  BY AheadInit
<1>2. AheadInv /\ [Next]_vars => AheadInv' /\ TakesNothingBack
  BY AheadStep
<1>3. TakesNothingBack =>
        /\ watermark <= watermark'
        /\ \A d \in Docs : documents[d] <= documents'[d] /\ content[d] <= content'[d]
        /\ \A e \in Evidence :
            /\ evidence[e].ver <= evidence'[e].ver
            /\ evidence[e].doc <= evidence'[e].doc
            /\ evidence[e].note <= evidence'[e].note
  BY DEF TakesNothingBack, NoOlder
<1> QED BY <1>1, <1>2, <1>3, PTL DEF Spec, NothingIsTakenBack

-----------------------------------------------------------------------------
(* The corpus and the watermark *)

\* Neither changed during a listing nor left out by a backfill tag or an empty note.
Wanted(i) == Steady(i) /\ ~reader[i].off /\ ~reader[DocOf(i)].off

\* The parts of Reflects: the row of i or the note of its highlight, the row of a
\* document, and its readable file.
HeldRow(rows, i) ==
    /\ i \in Evidence => rows[i].ver = reader[i].at
    /\ i \in Notes \ Evidence =>
        rows[Parent[i]].ver > 0 /\ rows[Parent[i]].note = reader[i].at
HeldDocument(i) == i \in Docs => documents[i] = reader[i].at
HeldFile(i) == i \in Docs => content[i] = reader[i].at

ReaderInv ==
    /\ watermark <= now
    /\ \A i \in Items \ Docs : reader[i].at > 0 => reader[Parent[i]].at > 0
    /\ \A h \in Highlights : ~reader[h].off

\* What has not changed during the listing was shown as it is.
ListingInv(s) ==
    /\ \A d \in Docs : d \in Listed(got[s]) => got[s][d].off = reader[d].off
    /\ pc[s] = "listing" =>
        \A i \in Items \ shifted :
            reader[i].at <= began[s] /\ (i \in Listed(got[s]) => got[s][i] = reader[i])

\* The export leaves what was not listed.
OthersKept(s) ==
    pc[s] = "documents" =>
        \A e \in Evidence : export[s][e].ver > 0 =>
            /\ e \notin Listed(got[s]) => export[s][e].ver = evidence[e].ver
            /\ \A n \in Notes : Parent[n] = e /\ n \notin Listed(got[s])
                    => export[s][e].note = evidence[e].note

\* How far the corpus has followed what the watermark to be saved will say.
StageOf(s, i) ==
    /\ pc[s] \in {"documents", "highlights", "files"} =>
        got[s][i] = reader[i] /\ HeldDocument(i)
    /\ pc[s] = "documents" => HeldRow(export[s], i)
    /\ pc[s] \in {"highlights", "files"} => HeldRow(evidence, i)
    /\ pc[s] = "files" => HeldFile(i)

StageInv(s) ==
    \A i \in Items : since[s] < reader[i].at /\ reader[i].at <= Newest(s) /\ Wanted(i)
        => StageOf(s, i)

SyncInv(s) == ListingInv(s) /\ OthersKept(s) /\ StageInv(s)

ReflectInv ==
    /\ AheadInv /\ ReaderInv /\ ReflectedUpToWatermark
    /\ \A s \in Syncs : SyncInv(s)

-----------------------------------------------------------------------------
(* Items *)

\* An item, its parent and its document are items; what hangs on a steady item's
\* ancestors is no less steady.
LEMMA Ancestors ==
    ASSUME NEW i \in Items
    PROVE  /\ DocOf(i) \in Docs /\ DocOf(i) \in Items
           /\ i \in Docs => DocOf(i) = i
           /\ i \notin Docs => /\ Parent[i] \in Items /\ DocOf(i) = DocOf(Parent[i])
                               /\ Steady(i) => Steady(Parent[i])
           /\ Steady(i) => i \notin shifted /\ DocOf(i) \notin shifted /\ Steady(DocOf(i))
<1> DEFINE D == DocOf(i)
<1>1. CASE i \in Docs
  <2>1. D = i
    BY <1>1 DEF DocOf
  <2> QED BY <1>1, <2>1 DEF Items, Steady
<1>2. CASE i \notin Docs /\ Parent[i] \in Docs
  <2>1. D = Parent[i] /\ DocOf(Parent[i]) = Parent[i]
    BY <1>2 DEF DocOf
  <2> QED BY <1>2, <2>1 DEF Items, Steady
<1>3. CASE i \notin Docs /\ Parent[i] \notin Docs
  <2>1. Parent[i] \in Highlights /\ Parent[Parent[i]] \in Docs
    BY <1>3, ReaderAssumption DEF Items
  <2>2. D = Parent[Parent[i]] /\ DocOf(Parent[i]) = D /\ DocOf(D) = D
    BY <1>3, <2>1 DEF DocOf
  <2> QED BY <1>3, <2>1, <2>2 DEF Items, Steady
<1>4. i \notin Docs => Parent[i] \in Docs \cup Highlights
  BY ReaderAssumption DEF Items
<1> QED BY <1>1, <1>2, <1>3, <1>4

\* What Reflects says of an item that is wanted.
LEMMA ReflectsParts ==
    ASSUME NEW i \in Items, ~reader[i].off, ~reader[DocOf(i)].off
    PROVE  Reflects(i) <=> HeldRow(evidence, i) /\ HeldDocument(i) /\ HeldFile(i)
BY ReaderAssumption DEF Reflects, HeldRow, HeldDocument, HeldFile, Items, Evidence

\* The watermark to be saved is not older than what was listed and is no time to come.
LEMMA NewestBounds ==
    ASSUME AheadInv, ReaderInv, NEW s \in Syncs, pc[s] # "idle"
    PROVE  /\ Newest(s) \in Nat /\ Newest(s) <= now /\ since[s] <= Newest(s)
           /\ \A i \in Listed(got[s]) : got[s][i].at <= Newest(s)
<1>1. TypeOK /\ since[s] = watermark /\ now \in Nat /\ since[s] \in Nat
  BY Numbers DEF AheadInv, BatchAhead
<1>2. Newest(s) \in Nat /\ since[s] <= Newest(s)
  <2>1. Newest(s) \in Times
    BY <1>1, NewestType
  <2>2. Times \subseteq Nat
    BY ReaderAssumption DEF Times
  <2> QED BY <1>1, <2>1, <2>2, NewestType DEF AheadInv, BatchAhead
<1>3. CASE Listed(got[s]) = {}
  BY <1>1, <1>2, <1>3 DEF Newest, ReaderInv
<1>4. CASE Listed(got[s]) # {}
  <2> DEFINE S == {got[s][i].at : i \in Items}
  <2>1. S \in SUBSET (0..MaxTime) /\ S # {} /\ MaxTime \in Nat
    BY <1>1, <1>4, ReaderAssumption DEF TypeOK, State, Times, Listed
  <2>2. Max(S) \in S /\ \A x \in S : x <= Max(S)
    BY <2>1, MaxIsGreatest
  <2>3. Newest(s) = Max(S)
    BY <1>4 DEF Newest
  <2>4. \A i \in Items : got[s][i].at <= now
    <3> TAKE i \in Items
    <3>1. got[s][i].at \in Nat /\ reader[i].at \in Nat /\ reader[i].at <= now
      BY <1>1, Numbers DEF AheadInv, CorpusPast
    <3>2. i \in Listed(got[s]) => got[s][i].at <= reader[i].at
      BY DEF AheadInv, BatchAhead
    <3> QED BY <1>1, <3>1, <3>2 DEF Listed
  <2>5. Newest(s) <= now
    BY <2>2, <2>3, <2>4
  <2> QED BY <1>2, <2>2, <2>3, <2>5 DEF Listed
<1> QED BY <1>3, <1>4

-----------------------------------------------------------------------------
(* The user *)

\* An item that is no newer than the time of a change has not been touched by it,
\* and its document is no less wanted than before.
LEMMA ChangeKeeps ==
    ASSUME AheadInv, ReaderInv, NEW j \in Items, Change(j),
           NEW i \in Items, 0 < reader'[i].at, reader'[i].at <= now
    PROVE  /\ reader'[i] = reader[i] /\ reader'[DocOf(i)].off = reader[DocOf(i)].off
           /\ shifted \subseteq shifted'
<1>1. PICK off \in BOOLEAN :
        /\ j \in Docs /\ reader[j].at > 0 => off = reader[j].off
        /\ reader' = [reader EXCEPT ![j] = [at |-> now + 1, off |-> off]]
  BY DEF Change
<1>2. reader \in [Items -> State] /\ now \in Nat
  BY Numbers DEF AheadInv, TypeOK
<1>3. i # j /\ reader'[i] = reader[i]
  BY <1>1, <1>2
<1>4. reader[DocOf(i)].at > 0
  <2>1. \A k \in Items : k \notin Docs /\ reader[k].at > 0 => reader[Parent[k]].at > 0
    BY DEF ReaderInv
  <2>2. i \in Docs \/ Parent[i] \in Docs \/ Parent[Parent[i]] \in Docs
    BY Ancestors, ReaderAssumption DEF Items
  <2>3. reader[i].at > 0
    BY <1>3
  <2> QED BY <2>1, <2>2, <2>3, Ancestors DEF DocOf
<1>5. DocOf(i) = j => reader'[j].off = reader[j].off
  BY <1>1, <1>2, <1>4, Ancestors
<1>6. reader'[DocOf(i)].off = reader[DocOf(i)].off
  BY <1>1, <1>2, <1>5, Ancestors
<1>7. shifted \subseteq shifted'
  BY DEF Change
<1> QED BY <1>3, <1>6, <1>7

\* A change of the user is newer than anything that has been read.
LEMMA ChangeReflects ==
    ASSUME OneSync, ReflectInv, AheadInv', NEW j \in Items, Change(j)
    PROVE  ReflectInv'
<1>1. /\ now' = now + 1 /\ now \in Nat /\ watermark \in Nat
      /\ UNCHANGED <<documents, evidence, content, watermark, pc, began, since, got, export>>
  BY Numbers DEF ReflectInv, AheadInv, Change, corpusVars, syncVars
<1>2. PICK off \in BOOLEAN :
        /\ off => j \in Docs \cup Notes
        /\ j \in Docs /\ reader[j].at > 0 => off = reader[j].off
        /\ reader' = [reader EXCEPT ![j] = [at |-> now + 1, off |-> off]]
  BY DEF Change
<1>3. reader \in [Items -> State]
  BY DEF ReflectInv, AheadInv, TypeOK
<1>4. ASSUME NEW i \in Items, 0 < reader'[i].at, reader'[i].at <= now, Wanted(i)'
      PROVE  Wanted(i) /\ reader'[i] = reader[i]
  <2>1. reader'[i] = reader[i] /\ reader'[DocOf(i)].off = reader[DocOf(i)].off
        /\ shifted \subseteq shifted'
    BY <1>4, ChangeKeeps DEF ReflectInv
  <2> QED BY <1>4, <2>1 DEF Wanted, Steady, DocOf
<1>5. ReaderInv'
  <2>1. watermark' <= now'
    BY <1>1 DEF ReflectInv, ReaderInv
  <2>2. \A i \in Items : reader[i].at > 0 => reader'[i].at > 0
    BY <1>1, <1>2, <1>3
  <2>3. \A i \in Items \ Docs : reader'[i].at > 0 => reader'[Parent[i]].at > 0
    <3> SUFFICES ASSUME NEW i \in Items \ Docs, reader'[i].at > 0
                 PROVE  reader'[Parent[i]].at > 0
      OBVIOUS
    <3>1. reader[Parent[i]].at > 0
      BY <1>2, <1>3 DEF Change, ReflectInv, ReaderInv
    <3> QED BY <2>2, <3>1, Ancestors
  <2>4. \A h \in Highlights : ~reader'[h].off
    BY <1>2, <1>3, ReaderAssumption DEF ReflectInv, ReaderInv, Items
  <2> QED BY <2>1, <2>3, <2>4 DEF ReaderInv
<1>6. ReflectedUpToWatermark'
  <2> SUFFICES ASSUME NEW i \in Items, reader'[i].at \in 1..watermark, Steady(i)',
                      ~reader'[i].off, ~reader'[DocOf(i)].off
               PROVE  Reflects(i)'
    BY <1>1 DEF ReflectedUpToWatermark, Reflects, DocOf
  <2>1. 0 < reader'[i].at /\ reader'[i].at <= now /\ reader'[i].at <= watermark
    BY <1>1, <1>3 DEF ReflectInv, ReaderInv
  <2>2. Wanted(i) /\ reader'[i] = reader[i]
    BY <1>4, <2>1 DEF Wanted, DocOf
  <2>3. Reflects(i)
    BY <2>2 DEF ReflectInv, ReflectedUpToWatermark, Wanted
  <2> QED BY <1>1, <2>2, <2>3 DEF Wanted, Reflects
<1>7. ASSUME NEW s \in Syncs PROVE SyncInv(s)'
  <2>1. SyncInv(s) /\ BatchAhead(s)
    BY DEF ReflectInv, AheadInv
  <2>2. ListingInv(s)'
    <3>1. ASSUME NEW d \in Docs, d \in Listed(got[s]) PROVE got[s][d].off = reader'[d].off
      <4>1. got[s][d].off = reader[d].off /\ reader[d].at > 0 /\ d \in Items
        <5>1. d \in Items /\ got[s][d].at > 0 /\ got[s][d].at <= reader[d].at
          BY <2>1, <3>1 DEF BatchAhead, Listed
        <5>2. got[s][d].at \in Nat /\ reader[d].at \in Nat
          BY <5>1, Numbers DEF ReflectInv, AheadInv
        <5> QED BY <2>1, <3>1, <5>1, <5>2 DEF SyncInv, ListingInv
      <4> QED BY <1>2, <1>3, <4>1
    <3>2. ASSUME pc[s] = "listing", NEW i \in Items \ shifted'
          PROVE  reader'[i].at <= began[s] /\ (i \in Listed(got[s]) => got[s][i] = reader'[i])
      <4>1. shifted' = shifted \cup {j}
        BY <3>2 DEF Change
      <4>2. i # j /\ i \notin shifted /\ reader'[i] = reader[i]
        BY <1>2, <1>3, <4>1
      <4> QED BY <2>1, <3>2, <4>2 DEF SyncInv, ListingInv
    <3> QED BY <1>1, <3>1, <3>2 DEF ListingInv, Listed
  <2>3. OthersKept(s)'
    BY <1>1, <2>1 DEF SyncInv, OthersKept, Listed
  <2>4. StageInv(s)'
    <3> SUFFICES ASSUME NEW i \in Items, since[s] < reader'[i].at,
                        reader'[i].at <= Newest(s), Wanted(i)', pc[s] # "idle"
                 PROVE  StageOf(s, i)'
      BY <1>1 DEF StageInv, StageOf, Newest, Listed
    <3>1. Newest(s) <= now /\ Newest(s) \in Nat /\ since[s] \in Nat
      BY NewestBounds, Numbers DEF ReflectInv, AheadInv
    <3>2. reader'[i].at \in Nat
      <4>1. reader[i].at \in Nat
        BY Numbers DEF ReflectInv, AheadInv
      <4> QED BY <1>1, <1>2, <1>3, <4>1
    <3>3. Wanted(i) /\ reader'[i] = reader[i]
      BY <1>1, <1>4, <3>1, <3>2
    <3>4. StageOf(s, i)
      BY <2>1, <3>3 DEF SyncInv, StageInv
    <3> QED BY <1>1, <3>3, <3>4 DEF StageOf, HeldRow, HeldDocument, HeldFile
  <2> QED BY <2>2, <2>3, <2>4 DEF SyncInv
<1> QED BY <1>5, <1>6, <1>7 DEF ReflectInv

-----------------------------------------------------------------------------
(* What a batch becomes *)

\* The listing has shown an item that is wanted as it is.
LEMMA ShownAsIs ==
    ASSUME ReflectInv, NEW s \in Syncs, UpsertDocuments(s),
           NEW i \in Items, i \notin shifted, since[s] < reader[i].at
    PROVE  i \in Listed(got[s]) /\ got[s][i] = reader[i]
<1>1. pc[s] = "listing" /\ ListingInv(s)
  BY DEF ReflectInv, SyncInv, UpsertDocuments
<1>2. reader[i].at <= began[s]
  BY <1>1 DEF ListingInv
<1>3. i \in Listed(got[s])
  BY <1>2 DEF UpsertDocuments, Matching
<1> QED BY <1>1, <1>3 DEF ListingInv

\* The document of an item that is wanted is in the corpus when its batch is stored.
LEMMA DocumentKnown ==
    ASSUME ReflectInv, NEW s \in Syncs, UpsertDocuments(s),
           NEW d \in Docs, Wanted(d), reader[d].at > 0
    PROVE  /\ d \notin Skipped(got[s])
           /\ DocumentVersion(got[s], d) = reader[d].at
<1>1. /\ d \in Items /\ DocOf(d) = d /\ d \notin shifted /\ ~reader[d].off /\ Steady(d)
  BY Ancestors DEF Wanted, Items
<1>2. since[s] = watermark /\ watermark \in Nat /\ reader[d].at \in Nat
  BY <1>1, Numbers DEF ReflectInv, AheadInv, BatchAhead, UpsertDocuments
<1>3. CASE since[s] < reader[d].at
  <2>1. d \in Listed(got[s]) /\ got[s][d] = reader[d]
    BY <1>1, <1>3, ShownAsIs
  <2> QED BY <1>1, <2>1 DEF Skipped, Kept, DocumentVersion
<1>4. CASE reader[d].at <= since[s]
  <2>1. d \notin Listed(got[s])
    <3>1. d \in Listed(got[s]) => since[s] < reader[d].at
      <4> HAVE d \in Listed(got[s])
      <4>1. since[s] < got[s][d].at /\ got[s][d].at <= reader[d].at
        BY DEF ReflectInv, AheadInv, BatchAhead
      <4> QED BY <1>1, <1>2, <4>1, Numbers DEF ReflectInv, AheadInv
    <3> QED BY <1>2, <1>4, <3>1
  <2>2. Reflects(d)
    BY <1>1, <1>2, <1>4 DEF ReflectInv, ReflectedUpToWatermark
  <2>3. documents[d] = reader[d].at
    BY <1>1, <2>2, ReflectsParts DEF HeldDocument
  <2> QED BY <2>1, <2>3 DEF Skipped, Kept, DocumentVersion
<1> QED BY <1>2, <1>3, <1>4

\* A batch brings a wanted note of a highlight that is known.
LEMMA NoteBrought ==
    ASSUME NEW g, NEW n \in Notes \cap Listed(g), ~g[n].off, Parent[n] \in Highlights,
           Parent[n] \in Listed(g) \/ evidence[Parent[n]].ver > 0
    PROVE  BatchNote(g, Parent[n]) = g[n].at
<1> DEFINE notes == {m \in Notes \cap Listed(g) : Parent[m] = Parent[n] /\ ~g[m].off}
<1>1. n \in notes /\ \A m \in notes : m = n
  BY ReaderAssumption
<1>2. (CHOOSE m \in notes : TRUE) = n
  BY <1>1
<1> QED BY <1>1, <1>2 DEF BatchNote

\* The export has the row, or the note, of every wanted item the listing has shown.
LEMMA ExportHolds ==
    ASSUME ReflectInv, NEW s \in Syncs, UpsertDocuments(s),
           NEW i \in Items, Wanted(i), since[s] < reader[i].at
    PROVE  HeldRow(Normalized(got[s]), i)
<1> DEFINE g == got[s]
           d == DocOf(i)
<1>1. i \in Listed(g) /\ g[i] = reader[i] /\ ~g[i].off /\ g[i].at > 0
  BY ShownAsIs, Ancestors DEF Wanted, Listed
<1>2. /\ d \in Docs /\ Wanted(d) /\ ~reader[d].off
      /\ i \notin Docs => Parent[i] \in Items /\ DocOf(Parent[i]) = d /\ Steady(Parent[i])
  BY Ancestors DEF Wanted
<1>3. i \notin Docs => reader[Parent[i]].at > 0 /\ reader[d].at > 0
  <2> HAVE i \notin Docs
  <2>1. reader[i].at > 0
    BY <1>1
  <2>2. \A k \in Items : k \notin Docs /\ reader[k].at > 0 => reader[Parent[k]].at > 0
    BY DEF ReflectInv, ReaderInv
  <2>3. d = Parent[i] \/ (d = Parent[Parent[i]] /\ Parent[i] \notin Docs)
    BY DEF DocOf
  <2> QED BY <1>2, <2>1, <2>2, <2>3
<1>4. i \notin Docs => d \notin Skipped(g) /\ DocumentVersion(g, d) = reader[d].at
  BY <1>2, <1>3, DocumentKnown
<1>5. ASSUME i \in Evidence PROVE Normalized(g)[i].ver = reader[i].at
  <2>1. i \notin Docs /\ Parent[i] = d
    BY <1>5, EvidenceItems, ReaderAssumption DEF DocOf, Evidence
  <2>2. InBatch(g, i)
    BY <1>1, <1>3, <1>4, <2>1 DEF InBatch
  <2> QED BY <1>1, <1>5, <2>2 DEF Normalized, RowOf
<1>6. ASSUME i \in Notes \ Evidence
      PROVE  Normalized(g)[Parent[i]].ver > 0 /\ Normalized(g)[Parent[i]].note = reader[i].at
  <2> DEFINE h == Parent[i]
  <2>1. h \in Highlights /\ h \in Evidence /\ h \in Items /\ h \notin Docs /\ i \notin Docs
        /\ Parent[h] = d
    BY <1>2, <1>6, ReaderAssumption DEF Evidence, Items, DocOf
  <2>2. reader[h].at > 0 /\ Wanted(h)
    BY <1>2, <1>3, <2>1 DEF Wanted, ReflectInv, ReaderInv
  <2>3. since[s] = watermark /\ watermark \in Nat /\ reader[h].at \in Nat
    BY <2>1, Numbers DEF ReflectInv, AheadInv, BatchAhead, UpsertDocuments
  <2>4. \/ h \in Listed(g) /\ g[h] = reader[h]
        \/ evidence[h].ver > 0
    <3>1. CASE since[s] < reader[h].at
      BY <2>1, <2>2, <3>1, ShownAsIs, Ancestors DEF Wanted
    <3>2. CASE reader[h].at <= since[s]
      <4>1. Reflects(h)
        BY <2>1, <2>2, <2>3, <3>2 DEF ReflectInv, ReflectedUpToWatermark, Wanted
      <4>2. evidence[h].ver = reader[h].at
        BY <2>1, <2>2, <4>1, ReflectsParts DEF HeldRow, Wanted
      <4> QED BY <2>2, <4>2
    <3> QED BY <2>3, <3>1, <3>2
  <2>5. BatchNote(g, h) = reader[i].at
    BY <1>1, <1>6, <2>1, <2>4, NoteBrought
  <2>6. BatchNote(g, h) > 0 /\ NoteOf(g, h) = reader[i].at
    BY <1>1, <2>5 DEF NoteOf
  <2>7. CASE InBatch(g, h)
    <3>1. Normalized(g)[h] = RowOf(g, h) /\ g[h].at > 0
      BY <2>1, <2>7 DEF Normalized, InBatch, Listed
    <3> QED BY <2>6, <3>1 DEF RowOf
  <2>8. CASE ~InBatch(g, h)
    <3>1. evidence[h].ver > 0
      <4>1. h \in Listed(g) /\ g[h] = reader[h] => InBatch(g, h)
        BY <1>4, <2>1, <2>2, ReaderAssumption DEF InBatch, Wanted
      <4> QED BY <2>4, <2>8, <4>1
    <3>2. Normalized(g)[h] = [evidence[h] EXCEPT !.note = BatchNote(g, h)]
      BY <2>1, <2>6, <2>8, <3>1 DEF Normalized
    <3>3. evidence[h] \in Row
      BY <2>1 DEF ReflectInv, AheadInv, TypeOK
    <3> QED BY <2>5, <3>1, <3>2, <3>3 DEF Row
  <2> QED BY <2>7, <2>8
<1> QED BY <1>5, <1>6 DEF HeldRow

\* The export leaves the versions and the notes of what was not listed.
LEMMA ExportKeeps ==
    ASSUME TypeOK, NEW s \in Syncs, NEW e \in Evidence, Normalized(got[s])[e].ver > 0
    PROVE  /\ e \notin Listed(got[s]) => Normalized(got[s])[e].ver = evidence[e].ver
           /\ \A n \in Notes : Parent[n] = e /\ n \notin Listed(got[s])
                => Normalized(got[s])[e].note = evidence[e].note
<1> DEFINE g == got[s]
<1>1. evidence[e] \in Row /\ BatchNote(g, e) \in Nat
  <2>1. BatchNote(g, e) \in Times
    <3>1. g \in [Items -> State] /\ 0 \in Times
      BY ReaderAssumption DEF TypeOK, Times
    <3> QED BY <3>1 DEF BatchNote, Listed, Items, State
  <2>2. evidence[e] \in Row
    BY DEF TypeOK
  <2> QED BY <2>1, <2>2, ReaderAssumption DEF Times
<1>2. ASSUME NEW n \in Notes, Parent[n] = e, n \notin Listed(g)
      PROVE  ~(BatchNote(g, e) > 0)
  BY <1>2, NoteOfBatchIsListed
<1>3. CASE InBatch(g, e)
  <2>1. Normalized(g)[e] = RowOf(g, e) /\ e \in Listed(g)
    BY <1>3 DEF Normalized, InBatch
  <2> QED BY <1>2, <2>1 DEF RowOf, NoteOf
<1>4. CASE ~InBatch(g, e) /\ BatchNote(g, e) > 0 /\ evidence[e].ver > 0
  <2>1. Normalized(g)[e] = [evidence[e] EXCEPT !.note = BatchNote(g, e)]
    BY <1>4 DEF Normalized
  <2> QED BY <1>1, <1>2, <1>4, <2>1 DEF Row
<1>5. CASE ~InBatch(g, e) /\ ~(BatchNote(g, e) > 0 /\ evidence[e].ver > 0)
  <2>1. Normalized(g)[e] = [evidence[e] EXCEPT !.doc = g[Parent[e]].at]
    BY <1>5 DEF Normalized, NoRow
  <2> QED BY <1>1, <2>1 DEF Row
<1> QED BY <1>3, <1>4, <1>5

-----------------------------------------------------------------------------
(* The sync *)

\* Nothing under the loaded watermark is listed.
LEMMA ListedIsNew ==
    ASSUME AheadInv, NEW s \in Syncs, NEW i \in Listed(got[s])
    PROVE  i \in Items /\ since[s] < reader[i].at
<1>1. i \in Items /\ since[s] < got[s][i].at /\ got[s][i].at <= reader[i].at
  BY DEF AheadInv, BatchAhead, Listed
<1>2. since[s] \in Nat /\ reader[i].at \in Nat /\ got[s][i].at \in Nat
  BY <1>1, Numbers DEF AheadInv
<1> QED BY <1>1, <1>2

\* Files that keep what the corpus has of items under the watermark keep it reflected.
LEMMA StillReflected ==
    ASSUME ReflectInv, UNCHANGED <<readerVars, watermark>>,
           \A d \in Docs : reader[d].at <= watermark =>
               documents'[d] = documents[d] /\ content'[d] = content[d],
           \A e \in Evidence : reader[e].at <= watermark => evidence'[e].ver = evidence[e].ver,
           \A n \in Notes \ Evidence : reader[n].at <= watermark /\ evidence[Parent[n]].ver > 0 =>
               evidence'[Parent[n]].ver > 0 /\ evidence'[Parent[n]].note = evidence[Parent[n]].note
    PROVE  ReflectedUpToWatermark' /\ ReaderInv'
<1>1. UNCHANGED <<now, reader, shifted>>
  BY DEF readerVars
<1>2. ReaderInv'
  BY <1>1 DEF ReflectInv, ReaderInv
<1>3. ReflectedUpToWatermark'
  <2> SUFFICES ASSUME NEW i \in Items, reader[i].at \in 1..watermark, Steady(i)
               PROVE  Reflects(i)'
    BY <1>1 DEF ReflectedUpToWatermark, Steady
  <2>1. Reflects(i) /\ reader[i].at <= watermark
    BY Numbers DEF ReflectInv, AheadInv, ReflectedUpToWatermark
  <2> QED BY <1>1, <2>1 DEF Reflects
<1> QED BY <1>2, <1>3

\* A page shows items as they are.
LEMMA ListReflects ==
    ASSUME OneSync, ReflectInv, AheadInv', NEW s \in Syncs, ListPage(s)
    PROVE  ReflectInv'
<1>1. PICK page \in SUBSET (Matching(s) \ Listed(got[s])) :
         got' = [got EXCEPT ![s] = [i \in Items |-> IF i \in page THEN reader[i] ELSE @[i]]]
  BY DEF ListPage
<1>2. UNCHANGED <<readerVars, corpusVars, pc, began, since, export>> /\ pc[s] = "listing"
  BY DEF ListPage
<1>3. got'[s] = [i \in Items |-> IF i \in page THEN reader[i] ELSE got[s][i]]
  BY <1>1 DEF ReflectInv, AheadInv, TypeOK
<1>4. ReflectedUpToWatermark' /\ ReaderInv'
  BY <1>2, StillReflected DEF corpusVars
<1>5. ListingInv(s)'
  <2>1. \A i \in Items : \/ got'[s][i] = reader[i]
                         \/ got'[s][i] = got[s][i]
    BY <1>3
  <2>2. \A i \in Docs : i \in Items
    BY DEF Items
  <2>3. ListingInv(s)
    BY DEF ReflectInv, SyncInv
  <2> QED BY <1>2, <2>1, <2>2, <2>3 DEF ListingInv, Listed, readerVars
<1>6. OthersKept(s)' /\ StageInv(s)'
  BY <1>2 DEF OthersKept, StageInv, StageOf
<1> QED BY <1>4, <1>5, <1>6 DEF ReflectInv, SyncInv, OneSync

\* documents.jsonl follows, and the export holds the rows that are to follow.
LEMMA DocumentsReflect ==
    ASSUME OneSync, ReflectInv, AheadInv', NEW s \in Syncs, UpsertDocuments(s)
    PROVE  ReflectInv'
<1>1. /\ pc[s] = "listing" /\ pc'[s] = "documents" /\ export'[s] = Normalized(got[s])
      /\ documents' = [d \in Docs |-> DocumentVersion(got[s], d)]
      /\ UNCHANGED <<readerVars, evidence, content, watermark, began, since, got>>
  BY DEF UpsertDocuments, Goto, ReflectInv, AheadInv, TypeOK
<1>2. since[s] = watermark /\ watermark \in Nat
  BY <1>1, Numbers DEF ReflectInv, AheadInv, BatchAhead
<1>3. ReflectedUpToWatermark' /\ ReaderInv'
  <2>1. \A d \in Docs : reader[d].at <= watermark => documents'[d] = documents[d]
    <3> SUFFICES ASSUME NEW d \in Docs, reader[d].at <= watermark
                 PROVE  d \notin Listed(got[s])
      BY <1>1 DEF DocumentVersion, Kept
    <3>1. reader[d].at \in Nat
      BY Numbers DEF ReflectInv, AheadInv, Items
    <3> QED BY <1>2, <3>1, ListedIsNew DEF ReflectInv
  <2> QED BY <1>1, <2>1, StillReflected
<1>4. ListingInv(s)'
  BY <1>1 DEF ReflectInv, SyncInv, ListingInv, Listed, readerVars
<1>5. OthersKept(s)'
  BY <1>1, ExportKeeps DEF OthersKept, ReflectInv, AheadInv, Listed
<1>6. StageInv(s)'
  <2> SUFFICES ASSUME NEW i \in Items, since[s] < reader[i].at, Wanted(i)
               PROVE  StageOf(s, i)'
    BY <1>1 DEF StageInv, Wanted, Steady, readerVars
  <2>1. got[s][i] = reader[i] /\ i \in Listed(got[s])
    BY ShownAsIs, Ancestors DEF Wanted
  <2>2. i \in Docs => documents'[i] = reader[i].at
    BY <1>1, <2>1, DocumentKnown DEF Listed
  <2>3. HeldRow(Normalized(got[s]), i)
    BY ExportHolds
  <2> QED BY <1>1, <2>1, <2>2, <2>3 DEF StageOf, HeldRow, HeldDocument, readerVars
<1> QED BY <1>3, <1>4, <1>5, <1>6 DEF ReflectInv, SyncInv, OneSync

\* highlights.jsonl follows.
LEMMA HighlightsReflect ==
    ASSUME OneSync, ReflectInv, AheadInv', NEW s \in Syncs, UpsertHighlights(s)
    PROVE  ReflectInv'
<1>1. /\ pc[s] = "documents" /\ pc'[s] = "highlights"
      /\ evidence' = [e \in Evidence |->
                        IF export[s][e].ver > 0 THEN export[s][e] ELSE evidence[e]]
      /\ UNCHANGED <<readerVars, documents, content, watermark, began, since, got>>
  BY DEF UpsertHighlights, Goto, ReflectInv, AheadInv, TypeOK
<1>2. since[s] = watermark /\ watermark \in Nat /\ SyncInv(s) /\ ExportAhead(s)
      /\ \A i \in Items : reader[i].at \in Nat
  BY <1>1, Numbers DEF ReflectInv, AheadInv, BatchAhead
<1>3. ASSUME NEW i \in Items, reader[i].at <= watermark PROVE i \notin Listed(got[s])
  BY <1>2, <1>3, ListedIsNew DEF ReflectInv
<1>4. ReflectedUpToWatermark' /\ ReaderInv'
  <2>1. ASSUME NEW e \in Evidence, reader[e].at <= watermark
        PROVE  evidence'[e].ver = evidence[e].ver
    BY <1>1, <1>2, <1>3, <2>1, EvidenceItems DEF SyncInv, OthersKept
  <2>2. ASSUME NEW n \in Notes \ Evidence, reader[n].at <= watermark, evidence[Parent[n]].ver > 0
        PROVE  evidence'[Parent[n]].ver > 0 /\ evidence'[Parent[n]].note = evidence[Parent[n]].note
    <3>1. Parent[n] \in Evidence /\ n \in Items
      BY ReaderAssumption DEF Evidence, Items
    <3>2. n \notin Listed(got[s])
      BY <1>3, <2>2, <3>1
    <3> QED BY <1>1, <1>2, <2>2, <3>1, <3>2 DEF SyncInv, OthersKept
  <2> QED BY <1>1, <2>1, <2>2, StillReflected
<1>5. ListingInv(s)' /\ OthersKept(s)'
  BY <1>1, <1>2 DEF SyncInv, ListingInv, OthersKept, Listed, readerVars
<1>6. StageInv(s)'
  <2> SUFFICES ASSUME NEW i \in Items, since[s] < reader[i].at, reader[i].at <= Newest(s), Wanted(i)
               PROVE  StageOf(s, i)'
    BY <1>1 DEF StageInv, Wanted, Steady, Newest, Listed, readerVars
  <2>1. got[s][i] = reader[i] /\ HeldDocument(i) /\ HeldRow(export[s], i)
    BY <1>1, <1>2 DEF SyncInv, StageInv, StageOf
  <2>2. reader[i].at > 0
    BY <1>2
  <2>3. i \in Evidence => evidence'[i].ver = reader[i].at
    BY <1>1, <2>1, <2>2 DEF HeldRow
  <2>4. i \in Notes \ Evidence =>
          evidence'[Parent[i]].ver > 0 /\ evidence'[Parent[i]].note = reader[i].at
    BY <1>1, <2>1, ReaderAssumption DEF HeldRow, Evidence
  <2> QED BY <1>1, <2>1, <2>3, <2>4 DEF StageOf, HeldRow, HeldDocument, readerVars
<1> QED BY <1>4, <1>5, <1>6 DEF ReflectInv, SyncInv, OneSync

\* Readable files are written of what was listed.
LEMMA ContentReflects ==
    ASSUME ReflectInv, NEW s \in Syncs, pc[s] = "highlights",
           NEW docs \in SUBSET Kept(got[s]), WriteContent(got[s], docs),
           UNCHANGED <<readerVars, documents, evidence, watermark>>
    PROVE  ReflectedUpToWatermark' /\ ReaderInv'
<1>1. ASSUME NEW d \in Docs, reader[d].at <= watermark PROVE content'[d] = content[d]
  <2>1. since[s] = watermark /\ watermark \in Nat /\ d \in Items /\ reader[d].at \in Nat
    BY Numbers DEF ReflectInv, AheadInv, BatchAhead, Items
  <2>2. d \notin Kept(got[s])
    BY <1>1, <2>1, ListedIsNew DEF ReflectInv, Kept
  <2> QED BY <2>2 DEF WriteContent
<1> QED BY <1>1, StillReflected

\* documents/ follows.
LEMMA FilesReflect ==
    ASSUME OneSync, ReflectInv, AheadInv', NEW s \in Syncs, WriteFiles(s)
    PROVE  ReflectInv'
<1>1. /\ pc[s] = "highlights" /\ pc'[s] = "files" /\ WriteContent(got[s], Kept(got[s]))
      /\ UNCHANGED <<readerVars, documents, evidence, watermark, began, since, got, export>>
  BY DEF WriteFiles, Goto, ReflectInv, AheadInv, TypeOK
<1>2. ReflectedUpToWatermark' /\ ReaderInv'
  BY <1>1, ContentReflects
<1>3. SyncInv(s) /\ \A i \in Items : reader[i].at \in Nat /\ since[s] \in Nat
  BY Numbers DEF ReflectInv, AheadInv
<1>4. ListingInv(s)' /\ OthersKept(s)'
  BY <1>1, <1>3 DEF SyncInv, ListingInv, OthersKept, Listed, readerVars
<1>5. StageInv(s)'
  <2> SUFFICES ASSUME NEW i \in Items, since[s] < reader[i].at, reader[i].at <= Newest(s), Wanted(i)
               PROVE  StageOf(s, i)'
    BY <1>1 DEF StageInv, Wanted, Steady, Newest, Listed, readerVars
  <2>1. got[s][i] = reader[i] /\ HeldDocument(i) /\ HeldRow(evidence, i)
    BY <1>1, <1>3 DEF SyncInv, StageInv, StageOf
  <2>2. i \in Docs => content'[i] = reader[i].at
    <3> HAVE i \in Docs
    <3>1. i \in Kept(got[s])
      BY <1>3, <2>1 DEF Kept, Listed, Wanted
    <3> QED BY <1>1, <2>1, <3>1 DEF WriteContent
  <2> QED BY <1>1, <2>1, <2>2 DEF StageOf, HeldRow, HeldDocument, HeldFile, readerVars
<1> QED BY <1>2, <1>4, <1>5 DEF ReflectInv, SyncInv, OneSync

\* The watermark to be saved says what the corpus has.
LEMMA SaveReflects ==
    ASSUME ReflectInv, NEW s \in Syncs, Save(s)
    PROVE  ReflectedUpToWatermark' /\ ReaderInv'
<1>1. /\ pc[s] = "files" /\ watermark' = Newest(s)
      /\ UNCHANGED <<now, reader, shifted, documents, evidence, content>>
  BY DEF Save, readerVars
<1>2. /\ Newest(s) \in Nat /\ Newest(s) <= now /\ since[s] = watermark /\ watermark \in Nat
      /\ \A i \in Items : reader[i].at \in Nat
  BY <1>1, NewestBounds, Numbers DEF ReflectInv, AheadInv, BatchAhead
<1>3. ReaderInv'
  BY <1>1, <1>2 DEF ReflectInv, ReaderInv
<1>4. ReflectedUpToWatermark'
  <2> SUFFICES ASSUME NEW i \in Items, reader[i].at \in 1..Newest(s), Steady(i)
               PROVE  Reflects(i)
    BY <1>1 DEF ReflectedUpToWatermark, Steady, Reflects
  <2>1. CASE reader[i].at <= watermark
    BY <1>2, <2>1 DEF ReflectInv, ReflectedUpToWatermark
  <2>2. CASE reader[i].off \/ reader[DocOf(i)].off
    BY <2>2 DEF Reflects
  <2>3. CASE ~(reader[i].at <= watermark) /\ ~reader[i].off /\ ~reader[DocOf(i)].off
    <3>1. StageOf(s, i)
      BY <1>2, <2>3 DEF ReflectInv, SyncInv, StageInv, Wanted
    <3>2. HeldDocument(i) /\ HeldRow(evidence, i) /\ HeldFile(i)
      BY <1>1, <3>1 DEF StageOf
    <3> QED BY <2>3, <3>2, ReflectsParts
  <2> QED BY <2>1, <2>2, <2>3
<1> QED BY <1>3, <1>4

\* A sync that has returned or is dead claims nothing.
LEMMA ForgottenClaimsNothing ==
    ASSUME OneSync, AheadInv, NEW s \in Syncs, Forget(s)
    PROVE  \A t \in Syncs : SyncInv(t)'
<1> TAKE t \in Syncs
<1>1. s = t
  BY DEF OneSync
<1>2. pc'[t] = "idle" /\ got'[t] = Nothing
  BY <1>1 DEF Forget, Goto, AheadInv, TypeOK
<1>3. \A i \in Items : ~(got'[t][i].at > 0)
  BY <1>2 DEF Nothing, Absent
<1> QED BY <1>2, <1>3 DEF SyncInv, ListingInv, OthersKept, StageInv, StageOf, Listed

\* Every step keeps the corpus up to the watermark.
LEMMA ReflectStep ==
    ASSUME OneSync, ReflectInv, [Next]_vars
    PROVE  ReflectInv'
<1>1. AheadInv /\ AheadInv'
  BY AheadStep DEF ReflectInv
<1>2. ASSUME NEW j \in Items, Change(j) PROVE ReflectInv'
  BY <1>1, <1>2, ChangeReflects
<1>3. ASSUME NEW s \in Syncs, Start(s) PROVE ReflectInv'
  <2>1. /\ pc[s] = "idle" /\ pc'[s] = "listing" /\ began'[s] = now
        /\ UNCHANGED <<readerVars, corpusVars, got, export>>
    BY <1>1, <1>3 DEF Start, Goto, AheadInv, TypeOK
  <2>2. Listed(got[s])' = {}
    BY <1>1, <2>1 DEF AheadInv, BatchAhead, Listed
  <2>3. \A i \in Items : reader[i].at <= now
    BY <1>1 DEF AheadInv, CorpusPast
  <2>4. SyncInv(s)'
    BY <2>1, <2>2, <2>3 DEF SyncInv, ListingInv, OthersKept, StageInv, StageOf, readerVars
  <2>5. ReflectedUpToWatermark' /\ ReaderInv'
    BY <2>1, StillReflected DEF corpusVars
  <2> QED BY <1>1, <2>4, <2>5 DEF ReflectInv, OneSync
<1>4. ASSUME NEW s \in Syncs, ListPage(s) PROVE ReflectInv'
  BY <1>1, <1>4, ListReflects
<1>5. ASSUME NEW s \in Syncs, UpsertDocuments(s) PROVE ReflectInv'
  BY <1>1, <1>5, DocumentsReflect
<1>6. ASSUME NEW s \in Syncs, UpsertHighlights(s) PROVE ReflectInv'
  BY <1>1, <1>6, HighlightsReflect
<1>7. ASSUME NEW s \in Syncs, WriteFiles(s) PROVE ReflectInv'
  BY <1>1, <1>7, FilesReflect
<1>8. ASSUME NEW s \in Syncs, DieWriting(s) PROVE ReflectInv'
  <2>1. ReflectedUpToWatermark' /\ ReaderInv'
    BY <1>8, ContentReflects DEF DieWriting
  <2>2. \A t \in Syncs : SyncInv(t)'
    BY <1>1, <1>8, ForgottenClaimsNothing DEF DieWriting
  <2> QED BY <1>1, <2>1, <2>2 DEF ReflectInv
<1>9. ASSUME NEW s \in Syncs, Save(s) PROVE ReflectInv'
  <2>1. ReflectedUpToWatermark' /\ ReaderInv'
    BY <1>9, SaveReflects
  <2>2. \A t \in Syncs : SyncInv(t)'
    BY <1>1, <1>9, ForgottenClaimsNothing DEF Save
  <2> QED BY <1>1, <2>1, <2>2 DEF ReflectInv
<1>10. ASSUME NEW s \in Syncs, Die(s) PROVE ReflectInv'
  <2>1. ReflectedUpToWatermark' /\ ReaderInv'
    BY <1>10, StillReflected DEF Die, corpusVars
  <2>2. \A t \in Syncs : SyncInv(t)'
    BY <1>1, <1>10, ForgottenClaimsNothing DEF Die
  <2> QED BY <1>1, <2>1, <2>2 DEF ReflectInv
<1>11. CASE UNCHANGED vars
  <2>1. UNCHANGED <<readerVars, corpusVars, syncVars>>
    BY <1>11 DEF vars
  <2>2. ReflectedUpToWatermark' /\ ReaderInv'
    BY <2>1, StillReflected DEF corpusVars
  <2>3. ASSUME NEW t \in Syncs PROVE SyncInv(t)'
    <3>1. SyncInv(t)
      BY DEF ReflectInv
    <3> QED BY <2>1, <3>1 DEF SyncInv, ListingInv, OthersKept, StageInv, StageOf, Wanted, Steady,
            HeldRow, HeldDocument, HeldFile, Newest, Listed, readerVars, corpusVars, syncVars
  <2> QED BY <1>1, <2>2, <2>3 DEF ReflectInv
<1> QED BY <1>2, <1>3, <1>4, <1>5, <1>6, <1>7, <1>8, <1>9, <1>10, <1>11 DEF Next

\* Nothing is in the corpus, and the watermark says so.
LEMMA ReflectInit == Init => ReflectInv
<1> SUFFICES ASSUME Init PROVE ReflectInv
  OBVIOUS
<1>1. AheadInv
  BY AheadInit
<1>2. /\ now = 0 /\ watermark = 0 /\ \A i \in Items : reader[i] = Absent
      /\ \A s \in Syncs : pc[s] = "idle" /\ got[s] = Nothing
  BY DEF Init, Nothing
<1>3. ReaderInv
  <2>1. \A i \in Items : reader[i].at = 0 /\ reader[i].off = FALSE
    BY <1>2 DEF Absent
  <2> QED BY <1>2, <2>1 DEF ReaderInv, Items
<1>4. ReflectedUpToWatermark
  BY <1>2 DEF ReflectedUpToWatermark
<1>5. ASSUME NEW s \in Syncs PROVE SyncInv(s)
  <2>1. \A i \in Items : ~(got[s][i].at > 0)
    BY <1>2 DEF Nothing, Absent
  <2> QED BY <1>2, <2>1 DEF SyncInv, ListingInv, OthersKept, StageInv, StageOf, Listed
<1> QED BY <1>1, <1>3, <1>4, <1>5 DEF ReflectInv

-----------------------------------------------------------------------------
(* Theorems *)

\* While one sync runs at a time, wherever syncs die and whatever the user changes,
\* what the watermark says has been read is in the corpus.
THEOREM ReadIsReflected == OneSync => (Spec => []ReflectedUpToWatermark)
<1> SUFFICES ASSUME OneSync PROVE Spec => []ReflectedUpToWatermark
  OBVIOUS
<1>1. ReflectInv /\ [Next]_vars => ReflectInv'
  BY ReflectStep
<1>2. ReflectInv => ReflectedUpToWatermark
  BY DEF ReflectInv
<1> QED BY ReflectInit, <1>1, <1>2, PTL DEF Spec

\* What has been read is offered as evidence, and offered once.
LEMMA ReflectedIsRepresented == ReflectInv => RepresentedOnce
<1> SUFFICES ASSUME ReflectInv PROVE RepresentedOnce
  OBVIOUS
<1>1. ASSUME NEW e \in Evidence, reader[e].at \in 1..watermark, Steady(e),
             ~reader[e].off, ~reader[Parent[e]].off
      PROVE  e \in CorpusEvidence /\ Parent[e] \notin CorpusEvidence
  <2>1. e \in Items /\ Parent[e] \in Docs /\ DocOf(e) = Parent[e] /\ Parent[e] \notin Evidence
    BY EvidenceItems, ReaderAssumption DEF DocOf, Evidence
  <2>2. Reflects(e)
    BY <1>1, <2>1 DEF ReflectInv, ReflectedUpToWatermark
  <2>3. evidence[e].ver = reader[e].at /\ reader[e].at > 0
    BY <1>1, <2>1, <2>2, ReflectsParts DEF HeldRow
  <2> QED BY <2>1, <2>3 DEF CorpusEvidence, SummaryEvidence
<1>2. ASSUME NEW d \in Summarised, reader[d].at \in 1..watermark, Steady(d), ~reader[d].off
      PROVE  d \in CorpusEvidence \/ \E e \in Evidence : Parent[e] = d /\ reader[e].at > 0
  <2>1. d \in Docs /\ d \in Items /\ DocOf(d) = d
    BY Ancestors, ReaderAssumption DEF Items
  <2>2. Reflects(d)
    BY <1>2, <2>1 DEF ReflectInv, ReflectedUpToWatermark
  <2>3. documents[d] = reader[d].at /\ reader[d].at > 0
    BY <1>2, <2>1, <2>2, ReflectsParts DEF HeldDocument
  <2>4. ASSUME NEW e \in Evidence, evidence[e].ver # 0 PROVE reader[e].at > 0
    <3>1. evidence[e].ver \in Nat /\ reader[e].at \in Nat /\ evidence[e].ver <= reader[e].at
      BY EvidenceItems, Numbers DEF ReflectInv, AheadInv, CorpusPast, RowPast
    <3> QED BY <2>4, <3>1
  <2> QED BY <2>3, <2>4 DEF CorpusEvidence, SummaryEvidence
<1> QED BY <1>1, <1>2 DEF RepresentedOnce

\* While one sync runs at a time, what the corpus offers as evidence of a document
\* has not been missed and is not offered twice.
THEOREM ReadIsRepresented == OneSync => (Spec => []RepresentedOnce)
<1> SUFFICES ASSUME OneSync PROVE Spec => []RepresentedOnce
  OBVIOUS
<1>1. ReflectInv /\ [Next]_vars => ReflectInv'
  BY ReflectStep
<1> QED BY ReflectInit, <1>1, ReflectedIsRepresented, PTL DEF Spec
=============================================================================

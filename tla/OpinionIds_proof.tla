--------------------------- MODULE OpinionIds_proof ---------------------------
(***************************************************************************)
(* Theorems about OpinionIds, for any runs, ids, edits and pushes by       *)
(* others.  What is published is evidenced because of the validation       *)
(* before the commit, and only manual runs leave files behind; both hold   *)
(* with every fault.  The mark is earned if nobody starts while the        *)
(* completion of another run is owed, and ids are never reused if moreover *)
(* nobody abandons a run after its push.  One run at a time is live, and a *)
(* run that has committed finds its files as it left them (RunsInv), also  *)
(* while it is owed its completion (OwedInv); then the file covers every   *)
(* id that was ever published, except while the run that published it has  *)
(* yet to be completed (IdsInv).                                           *)
(***************************************************************************)
EXTENDS OpinionIds, SequenceTheorems, WellFoundedInduction, TLAPS

-----------------------------------------------------------------------------
(* Sets of numbers *)

\* A set of numbers up to n that is not empty has a greatest element.
LEMMA GreatestExists ==
    ASSUME NEW n \in Nat, NEW S \in SUBSET (0..n), S # {}
    PROVE  \E m \in S : \A x \in S : x <= m
<1> DEFINE gaps == {n - x : x \in S}
           R == OpToRel(<, Nat)
<1>1. gaps \subseteq Nat
  <2> SUFFICES ASSUME NEW x \in S PROVE n - x \in Nat
    OBVIOUS
  <2>1. x \in 0..n
    OBVIOUS
  <2> QED BY <2>1
<1>2. gaps # {}
  OBVIOUS
<1>3. \A a, b \in Nat : a < b => <<a, b>> \in R
  BY SMT DEF OpToRel
<1>4. IsWellFoundedOn(R, Nat)
  BY NatLessThanWellFounded
<1>5. PICK gap \in gaps : \A g \in gaps : <<g, gap>> \notin R
  <2> HIDE DEF gaps, R
  <2> QED BY Zenon, <1>1, <1>2, <1>4, WFMin
<1>6. \A g \in gaps : ~(g < gap)
  <2> HIDE DEF gaps, R
  <2> QED BY Zenon, <1>1, <1>3, <1>5
<1>7. PICK x \in S : gap = n - x
  OBVIOUS
<1>8. \A y \in S : y <= x
  <2> SUFFICES ASSUME NEW y \in S PROVE y <= x
    OBVIOUS
  <2>1. ~(n - y < gap)
    BY <1>6
  <2> QED BY <1>7, <2>1
<1> QED BY <1>8

\* A set of numbers up to n that is not empty has a maximum.
LEMMA MaxIsGreatest ==
    ASSUME NEW n \in Nat, NEW S \in SUBSET (0..n), S # {}
    PROVE  Max(S) \in S /\ \A x \in S : x <= Max(S)
<1> DEFINE IsMax(m) == m \in S /\ \A y \in S : m >= y
<1>1. PICK x \in S : \A y \in S : y <= x
  BY GreatestExists
<1>2. IsMax(x)
  BY <1>1
<1>3. IsMax(CHOOSE m : IsMax(m))
  BY Zenon, <1>2
<1>4. Max(S) = CHOOSE m : IsMax(m)
  BY Zenon DEF Max
<1> QED BY <1>3, <1>4

-----------------------------------------------------------------------------
(* Branches *)

\* The last version of a branch that is not empty.
LEMMA LastOf ==
    ASSUME NEW s \in Seq(Version), s # <<>>
    PROVE  Last(s) \in Version /\ Len(s) \in DOMAIN s /\ Last(s) = s[Len(s)]
BY SMT DEF Last

\* A commit on top of a branch.
LEMMA Appended ==
    ASSUME NEW s \in Seq(Version), NEW v \in Version
    PROVE  /\ Append(s, v) \in Seq(Version) \ {<<>>}
           /\ Len(Append(s, v)) = Len(s) + 1
           /\ Append(s, v)[Len(s) + 1] = v
           /\ \A i \in 1..Len(s) : Append(s, v)[i] = s[i]
BY SMT

\* A version is a committer and the two files.
LEMMA VersionParts ==
    ASSUME NEW v \in Version
    PROVE  v.by \in Runs \cup {Owner} /\ v.doc \in Doc
BY DEF Version

\* The ids of two files are numbers up to MaxId.
LEMMA IdsType ==
    ASSUME NEW doc \in Doc
    PROVE  IdsOf(doc) \subseteq Ids
BY DEF IdsOf, Doc, Bullet

\* The highest of some ids is one of them or 0.
LEMMA HighestIs ==
    ASSUME NEW S \in SUBSET (0..MaxId)
    PROVE  /\ Highest(S) \in 0..MaxId
           /\ Highest(S) \in S \cup {0}
           /\ \A x \in S : x <= Highest(S)
<1>1. MaxId \in Nat
  BY OpinionIdsAssumption
<1>2. S \cup {0} \in SUBSET (0..MaxId) /\ S \cup {0} # {}
  BY <1>1
<1>3. Max(S \cup {0}) \in S \cup {0} /\ \A x \in S \cup {0} : x <= Max(S \cup {0})
  BY <1>1, <1>2, MaxIsGreatest
<1> QED BY <1>2, <1>3 DEF Highest

\* An edit leaves two files of bullets and rows.
LEMMA EditedType ==
    ASSUME NEW doc \in Doc, NEW new \in Edited(doc)
    PROVE  new \in Doc
BY DEF Edited, Doc

-----------------------------------------------------------------------------
(* Types *)

\* What HEAD holds.
LEMMA HeadType ==
    ASSUME TypeOK
    PROVE  HeadDoc \in Doc /\ Last(remote).doc \in Doc
BY LastOf, VersionParts DEF TypeOK, HeadDoc

\* The mark that a run computes.
LEMMA NextHighWaterType ==
    ASSUME TypeOK
    PROVE  /\ IdsOf(HeadDoc) \cup IdsOf(tree) \cup {highWater} \subseteq 0..MaxId
           /\ NextHighWater \in 0..MaxId
<1>1. IdsOf(HeadDoc) \cup IdsOf(tree) \cup {highWater} \subseteq 0..MaxId
  BY HeadType, IdsType DEF TypeOK, Ids
<1> QED BY <1>1, HighestIs DEF NextHighWater

\* The files are those of the owner at first.
LEMMA InitType == Init => TypeOK
<1> SUFFICES ASSUME Init PROVE TypeOK
  OBVIOUS
<1> USE OpinionIdsAssumption
<1>1. [by |-> Owner, doc |-> FirstDoc] \in Version
  BY DEF Version
<1>2. <<[by |-> Owner, doc |-> FirstDoc]>> \in Seq(Version) \ {<<>>}
  BY <1>1
<1>3. {0} \subseteq 0..MaxId
  OBVIOUS
<1>4. base \in [Runs -> [doc : Doc, highWater : 0..MaxId]]
  BY <1>3 DEF Init
<1>5. 0 \in 0..MaxEdits
  OBVIOUS
<1> QED BY <1>2, <1>3, <1>4, <1>5 DEF Init, TypeOK, Statuses, Phases

\* Restoring a run puts files of its baseline back.
LEMMA RestoreType ==
    ASSUME TypeOK, NEW r \in Runs, Restore(r)
    PROVE  tree' \in Doc /\ highWater' \in 0..MaxId /\ local' = local /\ remote' = remote
BY DEF TypeOK, Restore

\* The variables of a process and of the database that the helpers change.
LEMMA HelperTypes ==
    ASSUME TypeOK, NEW r \in Runs
    PROVE  /\ \A value \in Statuses : SetStatus(r, value) => status' \in [Runs -> Statuses]
           /\ \A value \in Phases : SetPhase(r, value) => phase' \in [Runs -> Phases]
           /\ Leave => busy' \in Runs \cup {Idle} /\ mark' \in 0..MaxId /\ edits' \in 0..MaxEdits
           /\ \A value \in 0..MaxId : UpdateHighWater(value) => highWater' \in 0..MaxId
<1>1. Leave => busy' \in Runs \cup {Idle} /\ mark' \in 0..MaxId /\ edits' \in 0..MaxEdits
  BY OpinionIdsAssumption DEF Leave
<1>2. \A value \in 0..MaxId : UpdateHighWater(value) => highWater' \in 0..MaxId
  BY HighestIs DEF UpdateHighWater, TypeOK
<1> QED BY <1>1, <1>2 DEF TypeOK, SetStatus, SetPhase

\* Somebody else pushes a version of their own.
LEMMA OutsideVersion ==
    ASSUME TypeOK, OutsidePush
    PROVE  \E v \in Version : v.by = Owner /\ remote' = Append(remote, v)
<1> DEFINE doc == Last(remote).doc
<1>1. doc \in Doc
  BY HeadType
<1> HIDE DEF doc
<1>2. \A id \in Ids : [bullets |-> {b \in doc.bullets : b.id # id},
                     rows |-> {row \in doc.rows : row.id # id}] \in Doc
  BY <1>1 DEF Doc
<1>3. \A id \in Ids :
        [doc EXCEPT !.bullets = @ \cup {[id |-> id, sources |-> {}]}] \in Doc
  BY <1>1 DEF Doc, Bullet
<1>4. \A new \in Doc : [by |-> Owner, doc |-> new] \in Version /\ [by |-> Owner, doc |-> new].by = Owner
  BY DEF Version
<1> QED BY <1>2, <1>3, <1>4 DEF OutsidePush, doc

\* A run in progress has evidence.
HasEvidence == busy \in Runs => Selected[busy] # {}

\* Evidence is needed to start, and no other step turns to another run.
LEMMA EvidenceStep == HasEvidence /\ [Next]_vars => HasEvidence'
<1> SUFFICES ASSUME HasEvidence, [Next]_vars PROVE HasEvidence'
  OBVIOUS
<1>1. (\E r \in Runs : Start(r)) => HasEvidence'
  BY DEF HasEvidence, Start
<1>2. busy' \in {busy, Idle} => HasEvidence'
  BY OpinionIdsAssumption DEF HasEvidence
<1>3. ~(\E r \in Runs : Start(r)) => busy' \in {busy, Idle}
  BY DEF Next, vars, files, Edit, DeterministicEdit, TurnFails, Done,
    Rejected, Commit, Push, PushRefused, Complete, CompleteFails, Crash, OutsidePush,
    ReconcileDurable, ReconcileInterrupted, Abandon, Dies, Leave
<1> QED BY <1>1, <1>2, <1>3

\* Every step keeps the types.
LEMMA NextType == TypeOK /\ HasEvidence /\ [Next]_vars => TypeOK'
<1> SUFFICES ASSUME TypeOK, HasEvidence, [Next]_vars PROVE TypeOK'
  OBVIOUS
<1> USE DEF Statuses, Phases
<1>1. ASSUME NEW r \in Runs, Start(r) PROVE TypeOK'
  <2>1. tree' \in Doc /\ local' = remote
    BY <1>1, HeadType DEF Start, Capture
  <2>2. base' \in [Runs -> [doc : Doc, highWater : 0..MaxId]]
    BY <1>1, <2>1 DEF Start, Capture, TypeOK
  <2> QED BY <1>1, <2>1, <2>2, HelperTypes DEF Start, Capture, TypeOK
<1>2. ASSUME NEW r \in Runs, Edit(r) PROVE TypeOK'
  BY <1>2, EditedType, OpinionIdsAssumption DEF Edit, TypeOK
<1>3. ASSUME NEW r \in Runs, DeterministicEdit(r) PROVE TypeOK'
  <2> DEFINE id == NextOpinionId(tree)
             first == CHOOSE e \in Selected[r] : TRUE
  <2>1. first \in Selected[r]
    BY Zenon, <1>3 DEF DeterministicEdit, HasEvidence
  <2>2. first \in Evidence /\ id \in Ids
    BY <1>3, <2>1 DEF DeterministicEdit, Evidence
  <2> HIDE DEF id, first
  <2>3. [bullets |-> tree.bullets \cup {[id |-> id, sources |-> {first}]},
         rows |-> tree.rows \cup {[id |-> id, evidence |-> first, exact |-> TRUE]}]
          \in Doc
    <3>1. [id |-> id, sources |-> {first}] \in Bullet
      BY <2>2 DEF Bullet
    <3>2. [id |-> id, evidence |-> first, exact |-> TRUE] \in Row
      BY <2>2 DEF Row
    <3>3. tree.bullets \in SUBSET Bullet /\ tree.rows \in SUBSET Row
      BY DEF TypeOK, Doc
    <3> QED BY <3>1, <3>2, <3>3 DEF Doc
  <2>4. tree' \in Doc
    BY <1>3, <2>3 DEF DeterministicEdit, id, first
  <2> QED BY <1>3, <2>4, OpinionIdsAssumption DEF DeterministicEdit, TypeOK
<1>4. ASSUME NEW r \in Runs, TurnFails(r) PROVE TypeOK'
  BY <1>4, RestoreType, HelperTypes DEF TurnFails, TypeOK, files
<1>5. ASSUME NEW r \in Runs, Done(r) PROVE TypeOK'
  BY <1>5, NextHighWaterType, HelperTypes DEF Done, TypeOK, files
<1>6. ASSUME NEW r \in Runs, Rejected(r) PROVE TypeOK'
  BY <1>6, RestoreType, HelperTypes DEF Rejected, TypeOK
<1>7. ASSUME NEW r \in Runs, Commit(r) PROVE TypeOK'
  <2>1. [by |-> r, doc |-> tree] \in Version
    BY DEF Version, TypeOK
  <2>2. local' \in Seq(Version) \ {<<>>}
    BY <1>7, <2>1, Appended DEF Commit, TypeOK
  <2> QED BY <1>7, <2>2, HelperTypes DEF Commit, Dies, TypeOK
<1>8. ASSUME NEW r \in Runs, Push(r) PROVE TypeOK'
  BY <1>8, HelperTypes DEF Push, Dies, TypeOK
<1>9. ASSUME NEW r \in Runs, PushRefused(r) PROVE TypeOK'
  BY <1>9, HelperTypes DEF PushRefused, TypeOK, files
<1>10. ASSUME NEW r \in Runs, Complete(r) PROVE TypeOK'
  <2>1. mark \in 0..MaxId
    BY DEF TypeOK
  <2>2. highWater' \in 0..MaxId
    BY <1>10, <2>1, HelperTypes DEF Complete
  <2> QED BY <1>10, <2>2, HelperTypes DEF Complete, Dies, TypeOK
<1>11. ASSUME NEW r \in Runs, CompleteFails(r) PROVE TypeOK'
  BY <1>11, HelperTypes DEF CompleteFails, TypeOK, files
<1>12. ASSUME NEW r \in Runs, ReconcileDurable(r) PROVE TypeOK'
  <2>1. highWater' \in 0..MaxId
    BY <1>12, NextHighWaterType, HelperTypes DEF ReconcileDurable, TypeOK
  <2> QED BY <1>12, <2>1, HelperTypes DEF ReconcileDurable, TypeOK
<1>13. ASSUME NEW r \in Runs, ReconcileInterrupted(r) PROVE TypeOK'
  BY <1>13, RestoreType, HelperTypes DEF ReconcileInterrupted, TypeOK
<1>14. ASSUME NEW r \in Runs, Abandon(r) PROVE TypeOK'
  BY <1>14, RestoreType, HelperTypes DEF Abandon, TypeOK, files
<1>15. ASSUME Crash PROVE TypeOK'
  BY <1>15, HelperTypes DEF Crash, TypeOK, files, Leave
<1>16. ASSUME OutsidePush PROVE TypeOK'
  <2>1. PICK v \in Version : v.by = Owner /\ remote' = Append(remote, v)
    BY <1>16, OutsideVersion
  <2>2. remote' \in Seq(Version) \ {<<>>}
    BY <2>1, Appended DEF TypeOK
  <2> QED BY <1>16, <2>2 DEF OutsidePush, TypeOK
<1>17. CASE UNCHANGED vars
  BY <1>17 DEF vars, files, TypeOK
<1> QED BY <1>1, <1>2, <1>3, <1>4, <1>5, <1>6, <1>7, <1>8, <1>9, <1>10, <1>11, <1>12,
           <1>13, <1>14, <1>15, <1>16, <1>17 DEF Next

\* The files, the statuses and the marks of OpinionIds keep their types.
THEOREM TypeCorrect == Spec => []TypeOK
<1>1. Init => HasEvidence
  BY OpinionIdsAssumption DEF Init, HasEvidence
<1> QED BY InitType, EvidenceStep, NextType, <1>1, PTL DEF Spec

-----------------------------------------------------------------------------
(* What is published is evidenced *)

\* A version adds to the one before it rows of evidence of its run.
EvidencedOver(version, doc) ==
    /\ WellFormed(version.doc) /\ Covered(version.doc)
    /\ \A row \in version.doc.rows :
        <<row.id, row.evidence>> \notin PairsOf(doc) =>
            row.exact /\ row.evidence \in Selected[version.by]

EvidencedIn(branch) ==
    \A k \in DOMAIN branch : branch[k].by \in Runs =>
        k > 1 /\ EvidencedOver(branch[k], branch[k - 1].doc)

\* What is about to be committed has been validated against HEAD.
TreeChecked ==
    busy \in Runs /\ phase[busy] = "commit_intent" =>
        WellFormed(tree) /\ Covered(tree) /\ RowsEvidenced(busy, tree)

EvidenceInv == EvidencedIn(local) /\ EvidencedIn(remote) /\ TreeChecked

\* A commit that adds evidence to the last version of a branch.
LEMMA EvidencedAppend ==
    ASSUME NEW s \in Seq(Version), s # <<>>, EvidencedIn(s), NEW v \in Version,
           v.by \in Runs => EvidencedOver(v, Last(s).doc)
    PROVE  EvidencedIn(Append(s, v))
<1> DEFINE t == Append(s, v)
<1>1. /\ t \in Seq(Version) /\ Len(t) = Len(s) + 1 /\ t[Len(s) + 1] = v
      /\ \A i \in 1..Len(s) : t[i] = s[i]
  BY Appended
<1>2. Len(s) \in Nat \ {0} /\ Last(s) = s[Len(s)] /\ DOMAIN s = 1..Len(s)
  BY DEF Last
<1>3. DOMAIN t = 1..(Len(s) + 1)
  BY <1>1
<1> HIDE DEF t
<1>4. ASSUME NEW k \in DOMAIN t, t[k].by \in Runs
      PROVE  k > 1 /\ EvidencedOver(t[k], t[k - 1].doc)
  <2>1. CASE k = Len(s) + 1
    <3>1. t[k] = v /\ t[k - 1] = Last(s) /\ k > 1
      BY <1>1, <1>2, <2>1
    <3> QED BY <1>4, <3>1
  <2>2. CASE k # Len(s) + 1
    <3>1. k \in 1..Len(s) /\ t[k] = s[k]
      BY <1>1, <1>2, <1>3, <2>2
    <3>2. k > 1 /\ EvidencedOver(s[k], s[k - 1].doc)
      BY <1>2, <1>4, <3>1 DEF EvidencedIn
    <3>3. k - 1 \in 1..Len(s)
      BY <1>2, <3>1, <3>2
    <3> QED BY <1>1, <3>1, <3>2, <3>3
  <2> QED BY <2>1, <2>2
<1> QED BY <1>4 DEF EvidencedIn, t

\* Only the first versions are there at first.
LEMMA EvidenceInit == Init => EvidenceInv
<1> SUFFICES ASSUME Init PROVE EvidenceInv
  OBVIOUS
<1>1. local = <<[by |-> Owner, doc |-> FirstDoc]>> /\ remote = local /\ busy = Idle
  BY DEF Init
<1>2. DOMAIN local = {1} /\ local[1].by = Owner
  BY <1>1
<1> QED BY <1>1, <1>2, OpinionIdsAssumption DEF EvidenceInv, EvidencedIn, TreeChecked

\* Every step keeps what is published evidenced.
LEMMA EvidenceInvStep == TypeOK /\ EvidenceInv /\ [Next]_vars => EvidenceInv'
<1> SUFFICES ASSUME TypeOK, EvidenceInv, [Next]_vars PROVE EvidenceInv'
  OBVIOUS
<1>1. EvidencedIn(local) /\ EvidencedIn(remote) /\ TreeChecked
  BY DEF EvidenceInv
<1>2. ASSUME local' \in {local, remote}, remote' \in {local, remote}
      PROVE  EvidencedIn(local)' /\ EvidencedIn(remote)'
  BY <1>1, <1>2 DEF EvidencedIn
<1>3. ASSUME busy' = Idle \/ phase'[busy'] # "commit_intent"
      PROVE  TreeChecked'
  BY <1>3, OpinionIdsAssumption DEF TreeChecked
<1>4. ASSUME NEW r \in Runs, Start(r) PROVE EvidenceInv'
  <2>1. phase'[busy'] # "commit_intent"
    BY <1>4 DEF Start, Capture, SetPhase, TypeOK
  <2> QED BY <1>2, <1>3, <1>4, <2>1 DEF EvidenceInv, Start, Capture
<1>5. ASSUME NEW r \in Runs, Edit(r) \/ DeterministicEdit(r) PROVE EvidenceInv'
  BY <1>2, <1>3, <1>5 DEF EvidenceInv, Edit, DeterministicEdit
<1>6. ASSUME NEW r \in Runs, Done(r) PROVE EvidenceInv'
  <2>1. TreeChecked'
    BY <1>6 DEF TreeChecked, Done, Valid, RowsEvidenced, HeadDoc, files
  <2> QED BY <1>2, <1>6, <2>1 DEF EvidenceInv, Done, files
<1>7. ASSUME NEW r \in Runs, Commit(r) PROVE EvidenceInv'
  <2> DEFINE new == [by |-> r, doc |-> tree]
  <2>1. new \in Version /\ new.by = r /\ new.doc = tree
    BY DEF Version, TypeOK
  <2>2. EvidencedOver(new, Last(local).doc)
    BY <1>1, <1>7, <2>1 DEF TreeChecked, Commit, RowsEvidenced, HeadDoc, EvidencedOver
  <2>3. EvidencedIn(Append(local, new))
    BY <1>1, <2>1, <2>2, EvidencedAppend DEF TypeOK
  <2>4. EvidencedIn(local)' /\ EvidencedIn(remote)'
    BY <1>1, <1>7, <2>3 DEF Commit, EvidencedIn
  <2>5. TreeChecked'
    BY <1>3, <1>7 DEF Commit, SetPhase, Dies, Leave, TypeOK
  <2> QED BY <2>4, <2>5 DEF EvidenceInv
<1>8. ASSUME NEW r \in Runs, Push(r) PROVE EvidenceInv'
  <2>1. busy' = Idle \/ phase'[busy'] # "commit_intent"
    BY <1>8 DEF Push, SetPhase, Dies, Leave, TypeOK
  <2> QED BY <1>2, <1>3, <1>8, <2>1 DEF EvidenceInv, Push
<1>9. ASSUME NEW r \in Runs, \/ TurnFails(r) \/ Rejected(r) \/ PushRefused(r)
                             \/ Complete(r) \/ CompleteFails(r)
      PROVE  EvidenceInv'
  BY <1>2, <1>3, <1>9 DEF EvidenceInv, TurnFails, Rejected, PushRefused, Complete,
     CompleteFails, Restore, files, Leave, Dies
<1>10. ASSUME NEW r \in Runs, \/ ReconcileDurable(r) \/ ReconcileInterrupted(r) \/ Abandon(r)
       PROVE  EvidenceInv'
  BY <1>2, <1>3, <1>10 DEF EvidenceInv, ReconcileDurable, ReconcileInterrupted, Abandon,
     Restore, files
<1>11. ASSUME Crash PROVE EvidenceInv'
  BY <1>2, <1>3, <1>11 DEF EvidenceInv, Crash, Leave, files
<1>12. ASSUME OutsidePush PROVE EvidenceInv'
  <2>1. PICK v \in Version : v.by = Owner /\ remote' = Append(remote, v)
    BY <1>12, OutsideVersion
  <2>2. EvidencedIn(remote)'
    BY <1>1, <2>1, EvidencedAppend, OpinionIdsAssumption DEF TypeOK
  <2> QED BY <1>1, <1>12, <2>2 DEF OutsidePush, EvidenceInv, EvidencedIn, TreeChecked,
          RowsEvidenced, HeadDoc
<1>13. CASE UNCHANGED vars
  BY <1>1, <1>13 DEF vars, files, EvidenceInv, EvidencedIn, TreeChecked, RowsEvidenced, HeadDoc
<1> QED BY <1>4, <1>5, <1>6, <1>7, <1>8, <1>9, <1>10, <1>11, <1>12, <1>13 DEF Next

\* What a run publishes in OPINIONS_SOURCES.jsonl is exactly evidence of that
\* run, through every failure, crash, reconciliation and abandon.
THEOREM PublishedSourcesAreEvidence == Spec => []PublishedIsEvidenced
<1>1. EvidenceInv => PublishedIsEvidenced
  BY DEF EvidenceInv, EvidencedIn, EvidencedOver, PublishedIsEvidenced, Before
<1> QED BY TypeCorrect, EvidenceInit, EvidenceInvStep, <1>1, PTL DEF Spec

-----------------------------------------------------------------------------
(* Facts about branches *)

\* A prefix has the same versions up to its end.
LEMMA PrefixIs ==
    ASSUME NEW s \in Seq(Version), NEW t \in Seq(Version)
    PROVE  IsPrefix(s, t) <=> Len(s) <= Len(t) /\ \A i \in 1..Len(s) : s[i] = t[i]
<1>1. CASE Len(s) <= Len(t)
  <2> DEFINE u == SubSeq(s, 1, Len(s))
             v == SubSeq(t, 1, Len(s))
  <2>1. /\ u \in Seq(Version) /\ Len(u) = Len(s) /\ \A i \in 1..Len(s) : u[i] = s[i]
        /\ v \in Seq(Version) /\ Len(v) = Len(s) /\ \A i \in 1..Len(s) : v[i] = t[i]
    BY <1>1
  <2>2. IsPrefix(s, t) <=> u = v
    BY Zenon, <1>1 DEF IsPrefix
  <2> HIDE DEF u, v
  <2>3. u = v <=> \A i \in 1..Len(s) : u[i] = v[i]
    BY <2>1, SeqEqual
  <2> QED BY <1>1, <2>1, <2>2, <2>3
<1>2. CASE ~(Len(s) <= Len(t))
  BY Zenon, <1>2 DEF IsPrefix
<1> QED BY <1>1, <1>2

\* Who has committed to a prefix has committed to the branch.
LEMMA PrefixBy ==
    ASSUME NEW s \in Seq(Version), NEW t \in Seq(Version), IsPrefix(s, t), NEW r, By(r, s)
    PROVE  By(r, t)
<1>1. PICK i \in 1..Len(s) : s[i].by = r
  BY DEF By
<1>2. i \in 1..Len(t) /\ t[i] = s[i]
  BY PrefixIs
<1> QED BY <1>1, <1>2 DEF By

\* A branch that has left another one behind never becomes a prefix of it again.
LEMMA PrefixAppend ==
    ASSUME NEW s \in Seq(Version), NEW t \in Seq(Version), NEW v \in Version,
           IsPrefix(Append(s, v), t)
    PROVE  IsPrefix(s, t)
<1>1. Append(s, v) \in Seq(Version)
  BY Appended
<1>2. Len(Append(s, v)) <= Len(t) /\ \A i \in 1..Len(Append(s, v)) : Append(s, v)[i] = t[i]
  BY <1>1, PrefixIs
<1>3. Len(s) <= Len(t) /\ \A i \in 1..Len(s) : s[i] = t[i]
  BY <1>2, Appended
<1> QED BY <1>3, PrefixIs

\* The last version of a branch and those who committed to it, after a commit.
LEMMA AppendedBy ==
    ASSUME NEW s \in Seq(Version), NEW v \in Version
    PROVE  /\ Last(Append(s, v)) = v
           /\ \A r : By(r, Append(s, v)) <=> By(r, s) \/ v.by = r
<1> DEFINE t == Append(s, v)
<1>1. /\ t \in Seq(Version) /\ Len(t) = Len(s) + 1 /\ t[Len(s) + 1] = v
      /\ \A i \in 1..Len(s) : t[i] = s[i]
  BY Appended
<1>2. DOMAIN t = 1..(Len(s) + 1) /\ DOMAIN s = 1..Len(s) /\ Len(s) \in Nat
  BY <1>1
<1> HIDE DEF t
<1>3. Last(t) = v
  BY <1>1 DEF Last
<1>4. ASSUME NEW r, By(r, t) PROVE By(r, s) \/ v.by = r
  BY <1>1, <1>2, <1>4 DEF By
<1>5. ASSUME NEW r, By(r, s) \/ v.by = r PROVE By(r, t)
  BY <1>1, <1>2, <1>5 DEF By
<1> QED BY <1>3, <1>4, <1>5 DEF t

-----------------------------------------------------------------------------
(* Runs and their commits *)

Running(r) == status[r] = "running_agent"

IsLast(r) == Last(local).by = r

\* A failed run whose commit can never be pushed: the checkout is behind the remote.
Stuck(r) == status[r] = "failed" /\ phase[r] = "committed" /\ By(r, local)

\* A run that stands in the way of others.
Live(r) == Running(r) \/ Stuck(r)

OneLive ==
    /\ \A q, r \in Runs : Live(q) /\ Live(r) => q = r
    /\ busy \in Runs => Running(busy)
    /\ \A r \in Runs : Running(r) => phase[r] \in {"agent_editing", "commit_intent", "committed", "pushed"}

\* Where the commit of a run is.
CommitsOf(r) ==
    /\ status[r] = "new" => ~By(r, local) /\ ~By(r, remote)
    /\ Running(r) =>
        /\ By(r, local) =>
            /\ IsLast(r)
            /\ phase[r] # "agent_editing"
            /\ busy = r => phase[r] # "commit_intent"
        /\ By(r, remote) =>
            /\ By(r, local)
            /\ phase[r] \in {"committed", "pushed"}
            /\ busy = r => phase[r] = "pushed"
    /\ status[r] = "failed" /\ phase[r] # "pushed" =>
        /\ ~By(r, remote)
        /\ By(r, local) => phase[r] = "committed" /\ IsLast(r) /\ ~IsPrefix(remote, local)

\* The files in the checkout are those of HEAD, and valid.
FilesSettled == tree = HeadDoc /\ WellFormed(tree) /\ Covered(tree)

\* A run in progress that has committed, or had nothing to commit.
HasCommitted(r) == Running(r) /\ (phase[r] \in {"committed", "pushed"} \/ By(r, local))

RunsInv ==
    /\ OneLive
    /\ \A r \in Runs : CommitsOf(r)
    /\ \A r \in Runs : HasCommitted(r) => FilesSettled

\* What the other runs have committed while one is live.
LEMMA OthersRest ==
    ASSUME RunsInv, NEW r \in Runs, Live(r), NEW q \in Runs, q # r
    PROVE  /\ ~Live(q)
           /\ status[q] = "new" => ~By(q, local) /\ ~By(q, remote)
           /\ status[q] = "failed" /\ phase[q] # "pushed" => ~By(q, local) /\ ~By(q, remote)
<1>1. ~Live(q)
  BY DEF RunsInv, OneLive
<1> QED BY <1>1 DEF RunsInv, CommitsOf, Live, Stuck

\* A step that is about one live run keeps what holds of the others.
LEMMA OneRunSteps ==
    ASSUME RunsInv, NEW r \in Runs, Live(r),
           \A q \in Runs \ {r} : status'[q] = status[q] /\ phase'[q] = phase[q],
           \A q \in Runs \ {r} : By(q, local') => By(q, local),
           \A q \in Runs \ {r} : By(q, remote') => By(q, local) \/ By(q, remote),
           busy' = Idle \/ (busy' = r /\ Running(r)'),
           Running(r)' => phase'[r] \in {"agent_editing", "commit_intent", "committed", "pushed"},
           CommitsOf(r)', HasCommitted(r)' => FilesSettled'
    PROVE  RunsInv'
<1>1. \A q \in Runs \ {r} :
        /\ ~Live(q)
        /\ status[q] = "new" => ~By(q, local) /\ ~By(q, remote)
        /\ status[q] = "failed" /\ phase[q] # "pushed" => ~By(q, local) /\ ~By(q, remote)
  BY OthersRest
<1>2. \A q \in Runs \ {r} : ~Running(q)' /\ ~Stuck(q)'
  BY <1>1 DEF Live, Running, Stuck
<1>3. \A q \in Runs \ {r} : CommitsOf(q)'
  BY <1>1, <1>2 DEF CommitsOf
<1>4. OneLive'
  BY <1>2, OpinionIdsAssumption DEF OneLive, Live
<1> QED BY <1>2, <1>3, <1>4 DEF RunsInv, HasCommitted

\* A step that touches neither branches nor files and puts nobody to work.
LEMMA RunsRest ==
    ASSUME RunsInv, UNCHANGED <<local, remote, tree, status, phase>>, busy' \in {busy, Idle}
    PROVE  RunsInv'
<1>1. OneLive'
  BY OpinionIdsAssumption DEF RunsInv, OneLive, Live, Running, Stuck, By
<1>2. \A r \in Runs : CommitsOf(r)'
  BY OpinionIdsAssumption DEF RunsInv, CommitsOf, Running, By, IsLast
<1>3. \A r \in Runs : HasCommitted(r)' => FilesSettled'
  BY DEF RunsInv, HasCommitted, Running, By, FilesSettled, HeadDoc
<1> QED BY <1>1, <1>2, <1>3 DEF RunsInv

\* The task that works on a run.
LEMMA BusyIsLive ==
    ASSUME RunsInv, NEW r \in Runs, busy = r
    PROVE  Running(r) /\ Live(r)
BY DEF RunsInv, OneLive, Live

\* A run that is in progress ends.
LEMMA RunEnds ==
    ASSUME TypeOK, RunsInv, NEW r \in Runs, Running(r), UNCHANGED <<local, remote, phase>>,
           busy' = Idle, NEW v \in {"failed", "abandoned"}, status' = [status EXCEPT ![r] = v],
           v = "failed" =>
               /\ ~By(r, remote)
               /\ By(r, local) => phase[r] = "committed" /\ ~IsPrefix(remote, local)
    PROVE  RunsInv'
<1>1. status'[r] = v /\ \A q \in Runs \ {r} : status'[q] = status[q]
  BY DEF TypeOK
<1>2. CommitsOf(r)'
  BY <1>1 DEF RunsInv, CommitsOf, Running, By, IsLast
<1>3. Live(r) /\ ~Running(r)'
  BY <1>1 DEF Live, Running
<1> QED BY <1>1, <1>2, <1>3, OneRunSteps DEF HasCommitted

\* A start: there is no live run, since a commit that cannot be pushed keeps the
\* checkout from being refreshed.
LEMMA RunStarts ==
    ASSUME TypeOK, RunsInv, NEW r \in Runs, Start(r)
    PROVE  RunsInv'
<1>1. /\ status[r] = "new" /\ IsPrefix(local, remote)
      /\ local' = remote /\ remote' = remote /\ busy' = r
      /\ status' = [status EXCEPT ![r] = "running_agent"]
      /\ phase' = [phase EXCEPT ![r] = "agent_editing"]
  BY DEF Start, Capture, SetStatus, SetPhase, CanPull
<1>2. \A q \in Runs : ~Live(q)
  <2>1. \A q \in Runs : ~Running(q)
    BY DEF Start, Active, Running
  <2>2. ASSUME NEW q \in Runs, Stuck(q) PROVE FALSE
    <3>1. By(q, local) /\ ~By(q, remote)
      BY <2>2 DEF RunsInv, CommitsOf, Stuck
    <3> QED BY <1>1, <3>1, PrefixBy DEF TypeOK
  <2> QED BY <2>1, <2>2 DEF Live
<1>3. /\ status'[r] = "running_agent" /\ phase'[r] = "agent_editing"
      /\ \A q \in Runs \ {r} : status'[q] = status[q] /\ phase'[q] = phase[q]
  BY <1>1 DEF TypeOK
<1>4. ~By(r, remote)
      /\ \A q \in Runs : status[q] \in {"new", "failed"} /\ phase[q] # "pushed" => ~By(q, remote)
  BY <1>1 DEF RunsInv, CommitsOf
<1>5. \A q \in Runs : status[q] = "new" => ~By(q, remote)
  BY DEF RunsInv, CommitsOf
<1>6. \A q \in Runs \ {r} : ~Running(q)' /\ ~Stuck(q)'
  BY <1>1, <1>2, <1>3, <1>4 DEF Live, Running, Stuck
<1>7. OneLive'
  BY <1>1, <1>3, <1>6 DEF OneLive, Live, Running
<1>8. \A q \in Runs : CommitsOf(q)'
  BY <1>1, <1>3, <1>4, <1>5, <1>6 DEF CommitsOf, Running
<1>9. ~HasCommitted(r)'
  BY <1>1, <1>3, <1>4 DEF HasCommitted
<1> QED BY <1>6, <1>7, <1>8, <1>9 DEF RunsInv, HasCommitted

\* The commit leaves the checkout with the files that were validated.
LEMMA RunCommits ==
    ASSUME TypeOK, EvidenceInv, RunsInv, NEW r \in Runs, Commit(r)
    PROVE  RunsInv'
<1> DEFINE new == [by |-> r, doc |-> tree]
<1>1. /\ busy = r /\ phase[r] = "commit_intent"
      /\ UNCHANGED <<remote, tree, status>>
      /\ \/ local' = local /\ tree = HeadDoc
         \/ local' = Append(local, new)
      /\ \/ phase' = [phase EXCEPT ![r] = "committed"] /\ busy' = busy
         \/ phase' = phase /\ busy' = Idle
  BY DEF Commit, Clean, SetPhase, Dies, Leave
<1>2. new \in Version /\ new.by = r /\ new.doc = tree
  BY DEF Version, TypeOK
<1> HIDE DEF new
<1>3. Running(r) /\ Live(r)
  BY <1>1, BusyIsLive
<1>4. ~By(r, local) /\ ~By(r, remote)
  BY <1>1, <1>3 DEF RunsInv, CommitsOf
<1>5. /\ HeadDoc' = tree
      /\ \A q \in Runs : By(q, local') => By(q, local) \/ q = r
      /\ By(r, local') => IsLast(r)'
  <2>1. CASE local' = local /\ tree = HeadDoc
    BY <1>4, <2>1 DEF HeadDoc
  <2>2. CASE local' = Append(local, new)
    BY <1>2, <2>2, AppendedBy DEF HeadDoc, IsLast, TypeOK
  <2> QED BY <1>1, <2>1, <2>2
<1>6. /\ Running(r)' /\ phase'[r] \in {"commit_intent", "committed"}
      /\ \A q \in Runs \ {r} : status'[q] = status[q] /\ phase'[q] = phase[q]
      /\ busy' \in {r, Idle} /\ (busy' = r => phase'[r] = "committed")
  BY <1>1, <1>3, OpinionIdsAssumption DEF TypeOK, Running
<1>7. CommitsOf(r)'
  BY <1>1, <1>4, <1>5, <1>6 DEF CommitsOf, Running
<1>8. FilesSettled'
  <2>1. WellFormed(tree) /\ Covered(tree)
    BY <1>1 DEF EvidenceInv, TreeChecked
  <2> QED BY <1>1, <1>5, <2>1 DEF FilesSettled
<1> QED BY <1>1, <1>3, <1>5, <1>6, <1>7, <1>8, OneRunSteps

\* The push publishes the commit of the run, the last one.
LEMMA RunPushes ==
    ASSUME TypeOK, RunsInv, NEW r \in Runs, Push(r)
    PROVE  RunsInv'
<1>1. /\ busy = r /\ phase[r] = "committed"
      /\ UNCHANGED <<local, tree, status>>
      /\ remote' = IF By(r, local) THEN local ELSE remote
      /\ \/ phase' = [phase EXCEPT ![r] = "pushed"] /\ busy' = busy
         \/ phase' = phase /\ busy' = Idle
  BY DEF Push, SetPhase, Dies, Leave
<1>2. Running(r) /\ Live(r)
  BY <1>1, BusyIsLive
<1>3. ~By(r, remote) /\ FilesSettled
  BY <1>1, <1>2 DEF RunsInv, CommitsOf, HasCommitted
<1>4. /\ Running(r)' /\ phase'[r] \in {"committed", "pushed"}
      /\ \A q \in Runs \ {r} : status'[q] = status[q] /\ phase'[q] = phase[q]
      /\ busy' \in {r, Idle} /\ (busy' = r => phase'[r] = "pushed")
  BY <1>1, <1>2, OpinionIdsAssumption DEF TypeOK, Running
<1>5. CommitsOf(r)'
  BY <1>1, <1>2, <1>3, <1>4 DEF RunsInv, CommitsOf, Running, IsLast
<1>6. FilesSettled'
  BY <1>1, <1>3 DEF FilesSettled, HeadDoc
<1> QED BY <1>1, <1>2, <1>4, <1>5, <1>6, OneRunSteps

\* What a reconciliation finds: a run in progress that has committed, or one that
\* failed after its push.
LEMMA DurableIs ==
    ASSUME TypeOK, RunsInv, NEW r \in Runs, ReconcileDurable(r)
    PROVE  \/ HasCommitted(r) /\ FilesSettled /\ Valid(r)
           \/ status[r] = "failed" /\ phase[r] = "pushed" /\ ~Announced(r)
<1>1. status[r] \in {"running_agent", "failed"} /\ Durable(r)
  BY DEF ReconcileDurable
<1>2. phase[r] = "pushed" \/ (Announced(r) /\ (By(r, remote) \/ IsPrefix(remote, local)))
  BY <1>1 DEF Durable, CanPush
<1>3. Announced(r) => By(r, local)
  BY LastOf DEF Announced, By, TypeOK
<1>4. CASE status[r] = "running_agent"
  <2>1. HasCommitted(r) /\ FilesSettled
    BY <1>2, <1>3, <1>4 DEF RunsInv, HasCommitted, Running
  <2> QED BY <2>1 DEF FilesSettled, Valid, IdsFresh, RowsEvidenced, PairsOf
<1>5. CASE status[r] = "failed"
  BY <1>2, <1>3, <1>5 DEF RunsInv, CommitsOf, Announced
<1> QED BY <1>1, <1>4, <1>5

\* A reconciliation completes a run, or leaves one that has failed as it is.
LEMMA RunReconciled ==
    ASSUME TypeOK, RunsInv, NEW r \in Runs, ReconcileDurable(r)
    PROVE  RunsInv'
<1>1. /\ UNCHANGED <<local, tree, busy>> /\ busy = Idle
      /\ remote' = IF Announced(r) /\ ~By(r, remote) THEN local ELSE remote
      /\ \/ /\ status' = [status EXCEPT ![r] = "completed"]
            /\ phase' = [phase EXCEPT ![r] = "completed"]
         \/ ~Valid(r) /\ status' = status /\ phase' = phase
  BY DEF ReconcileDurable, SetStatus, SetPhase
<1>2. CASE HasCommitted(r) /\ FilesSettled /\ Valid(r)
  <2>1. /\ status'[r] = "completed" /\ Live(r)
        /\ \A q \in Runs \ {r} : status'[q] = status[q] /\ phase'[q] = phase[q]
    BY <1>1, <1>2 DEF TypeOK, HasCommitted, Live
  <2>2. ~Running(r)' /\ CommitsOf(r)' /\ ~HasCommitted(r)'
    BY <2>1 DEF Running, CommitsOf, HasCommitted
  <2> QED BY <1>1, <2>1, <2>2, OneRunSteps
<1>3. CASE status[r] = "failed" /\ phase[r] = "pushed" /\ ~Announced(r)
  <2>1. remote' = remote
    BY <1>1, <1>3
  <2>2. CASE status' = status /\ phase' = phase
    BY <1>1, <2>1, <2>2, RunsRest
  <2>3. CASE /\ status' = [status EXCEPT ![r] = "completed"]
             /\ phase' = [phase EXCEPT ![r] = "completed"]
    <3>1. /\ status'[r] = "completed"
          /\ \A q \in Runs \ {r} : status'[q] = status[q] /\ phase'[q] = phase[q]
      BY <2>3 DEF TypeOK
    <3>2. ~Running(r)' /\ ~Stuck(r)' /\ CommitsOf(r)'
      BY <3>1 DEF Running, Stuck, CommitsOf
    <3>3. \A q \in Runs \ {r} : (Running(q)' <=> Running(q)) /\ (Stuck(q)' <=> Stuck(q))
      BY <1>1, <3>1 DEF Running, Stuck
    <3>4. OneLive'
      BY <1>1, <3>1, <3>2, <3>3, OpinionIdsAssumption DEF RunsInv, OneLive, Live
    <3>5. \A q \in Runs \ {r} : CommitsOf(q)'
      BY <1>1, <2>1, <3>1, <3>3 DEF RunsInv, CommitsOf, IsLast
    <3>6. \A q \in Runs : HasCommitted(q)' => FilesSettled'
      BY <1>1, <3>1, <3>2, <3>3 DEF RunsInv, HasCommitted, FilesSettled, HeadDoc
    <3> QED BY <3>2, <3>4, <3>5, <3>6 DEF RunsInv
  <2> QED BY <1>1, <2>2, <2>3
<1> QED BY <1>2, <1>3, DurableIs

\* Somebody else's push.
LEMMA RunsOutside ==
    ASSUME TypeOK, RunsInv, OutsidePush
    PROVE  RunsInv'
<1>1. PICK v \in Version : v.by = Owner /\ remote' = Append(remote, v)
  BY OutsideVersion
<1>2. UNCHANGED <<local, tree, status, phase, busy>>
  BY DEF OutsidePush
<1>3. \A r \in Runs : By(r, remote') <=> By(r, remote)
  BY <1>1, AppendedBy, OpinionIdsAssumption DEF TypeOK
<1>4. ~IsPrefix(remote, local) => ~IsPrefix(remote', local')
  BY <1>1, <1>2, PrefixAppend DEF TypeOK
<1>5. OneLive'
  BY <1>2 DEF RunsInv, OneLive, Live, Running, Stuck
<1>6. \A r \in Runs : CommitsOf(r)'
  BY <1>2, <1>3, <1>4 DEF RunsInv, CommitsOf, Running, IsLast
<1>7. \A r \in Runs : HasCommitted(r)' => FilesSettled'
  BY <1>2 DEF RunsInv, HasCommitted, Running, FilesSettled, HeadDoc
<1> QED BY <1>5, <1>6, <1>7 DEF RunsInv

\* At first nobody has committed.
LEMMA RunsInit == Init => RunsInv
<1> SUFFICES ASSUME Init PROVE RunsInv
  OBVIOUS
<1>1. /\ local = <<[by |-> Owner, doc |-> FirstDoc]>> /\ remote = local /\ busy = Idle
      /\ \A r \in Runs : status[r] = "new"
  BY DEF Init
<1>2. DOMAIN local = {1} /\ local[1].by = Owner
  BY <1>1
<1>3. \A r \in Runs : ~By(r, local)
  BY <1>2, OpinionIdsAssumption DEF By
<1> QED BY <1>1, <1>3, OpinionIdsAssumption
        DEF RunsInv, OneLive, Live, Running, Stuck, CommitsOf, HasCommitted

\* Every step keeps one run live at most, its commit where its status says, and the
\* files of a run that has committed those of HEAD.
LEMMA RunsStep == TypeOK /\ EvidenceInv /\ RunsInv /\ [Next]_vars => RunsInv'
<1> SUFFICES ASSUME TypeOK, EvidenceInv, RunsInv, [Next]_vars PROVE RunsInv'
  OBVIOUS
<1>1. ASSUME NEW r \in Runs, Edit(r) \/ DeterministicEdit(r) \/ Done(r) PROVE RunsInv'
  <2>1. /\ busy = r /\ phase[r] = "agent_editing" /\ UNCHANGED <<local, remote, status, busy>>
        /\ phase' = phase \/ (Done(r) /\ phase' = [phase EXCEPT ![r] = "commit_intent"])
    BY <1>1 DEF Edit, DeterministicEdit, Done, files, SetPhase
  <2>2. Running(r) /\ Live(r) /\ Running(r)'
    BY <2>1, BusyIsLive DEF Running
  <2>3. ~By(r, local) /\ ~By(r, remote)
    BY <2>1, <2>2 DEF RunsInv, CommitsOf
  <2>4. /\ phase'[r] \in {"agent_editing", "commit_intent"}
        /\ \A q \in Runs \ {r} : status'[q] = status[q] /\ phase'[q] = phase[q]
    BY <2>1 DEF TypeOK
  <2>5. CommitsOf(r)' /\ ~HasCommitted(r)'
    BY <2>1, <2>2, <2>3, <2>4 DEF CommitsOf, HasCommitted, Running, By
  <2> QED BY <2>1, <2>2, <2>4, <2>5, OneRunSteps
<1>2. ASSUME NEW r \in Runs, TurnFails(r) \/ Rejected(r) PROVE RunsInv'
  <2>1. phase[r] = "agent_editing" /\ Running(r)
    BY <1>2, BusyIsLive DEF TurnFails, Rejected
  <2>2. ~By(r, local) /\ ~By(r, remote)
    BY <2>1 DEF RunsInv, CommitsOf
  <2>3. /\ UNCHANGED <<local, remote, phase>> /\ busy' = Idle
        /\ status' = [status EXCEPT ![r] = "failed"]
    BY <1>2 DEF TurnFails, Rejected, Restore, files, SetStatus, Leave
  <2> QED BY <2>1, <2>2, <2>3, RunEnds
<1>3. ASSUME NEW r \in Runs, PushRefused(r) PROVE RunsInv'
  <2>1. busy = r /\ phase[r] = "committed" /\ ~IsPrefix(remote, local)
    BY <1>3 DEF PushRefused, CanPush
  <2>2. Running(r) /\ ~By(r, remote)
    BY <2>1, BusyIsLive DEF RunsInv, CommitsOf
  <2>3. /\ UNCHANGED <<local, remote, phase>> /\ busy' = Idle
        /\ status' = [status EXCEPT ![r] = "failed"]
    BY <1>3 DEF PushRefused, files, SetStatus, Leave
  <2> QED BY <2>1, <2>2, <2>3, RunEnds
<1>4. ASSUME NEW r \in Runs, ReconcileInterrupted(r) PROVE RunsInv'
  <2>1. Running(r) /\ phase[r] # "pushed" /\ ~Announced(r) /\ busy = Idle
    BY <1>4 DEF ReconcileInterrupted, Running
  <2>2. ~By(r, local) /\ ~By(r, remote)
    BY <2>1 DEF RunsInv, OneLive, CommitsOf, Announced, IsLast
  <2>3. /\ UNCHANGED <<local, remote, phase, busy>> /\ status' = [status EXCEPT ![r] = "failed"]
    BY <1>4 DEF ReconcileInterrupted, Restore, SetStatus
  <2> QED BY <2>1, <2>2, <2>3, RunEnds
<1>5. ASSUME NEW r \in Runs, Abandon(r) PROVE RunsInv'
  <2>1. /\ Running(r) /\ busy = Idle /\ UNCHANGED <<local, remote, phase, busy>>
        /\ status' = [status EXCEPT ![r] = "abandoned"]
    BY <1>5 DEF Abandon, Running, Restore, files, SetStatus
  <2> QED BY <2>1, RunEnds
<1>6. ASSUME NEW r \in Runs, Complete(r) \/ CompleteFails(r) PROVE RunsInv'
  <2>1. /\ busy = r /\ phase[r] = "pushed" /\ UNCHANGED <<local, remote, tree>> /\ busy' = Idle
        /\ \/ /\ status' = [status EXCEPT ![r] = "completed"]
              /\ phase' = [phase EXCEPT ![r] = "completed"]
           \/ phase' = phase /\ status' = [status EXCEPT ![r] = "failed"]
           \/ phase' = phase /\ status' = status
    BY <1>6 DEF Complete, CompleteFails, SetStatus, SetPhase, Leave, Dies, files
  <2>2. Running(r) /\ Live(r) /\ FilesSettled
    BY <2>1, BusyIsLive DEF RunsInv, HasCommitted
  <2>3. /\ \A q \in Runs \ {r} : status'[q] = status[q] /\ phase'[q] = phase[q]
        /\ \/ status'[r] = "completed"
           \/ phase'[r] = "pushed" /\ status'[r] \in {"failed", "running_agent"}
    BY <2>1, <2>2 DEF TypeOK, Running
  <2>4. CommitsOf(r)'
    BY <2>1, <2>2, <2>3, OpinionIdsAssumption DEF RunsInv, CommitsOf, Running, IsLast, By
  <2>5. FilesSettled'
    BY <2>1, <2>2 DEF FilesSettled, HeadDoc
  <2>6. Running(r)' => phase'[r] = "pushed"
    BY <2>3 DEF Running
  <2> QED BY <2>1, <2>2, <2>3, <2>4, <2>5, <2>6, OneRunSteps
<1>7. ASSUME Crash \/ UNCHANGED vars PROVE RunsInv'
  <2>1. UNCHANGED <<local, remote, tree, status, phase>> /\ busy' \in {busy, Idle}
    BY <1>7 DEF Crash, Leave, vars, files
  <2> QED BY <2>1, RunsRest
<1> QED BY <1>1, <1>2, <1>3, <1>4, <1>5, <1>6, <1>7, RunStarts, RunCommits, RunPushes,
           RunReconciled, RunsOutside DEF Next

\* It holds with every fault.
LEMMA RunsInvariant == Spec => [](TypeOK /\ EvidenceInv /\ RunsInv)
BY TypeCorrect, EvidenceInit, EvidenceInvStep, RunsInit, RunsStep, PTL DEF Spec

-----------------------------------------------------------------------------
(* What is left in the checkout *)

\* A run that may have left its edits behind, had it been started by hand.
Left(r) == status[r] = "abandoned" \/ (status[r] = "failed" /\ phase[r] # "pushed")

\* Files differ from HEAD while a run is in progress, after a manual run, or while
\* the checkout is ahead of the remote.
LeftoverInv ==
    /\ \A r \in Runs : Running(r) /\ ~By(r, local) => base[r].doc = HeadDoc
    /\ \/ tree = HeadDoc
       \/ \E r \in Runs : Running(r)
       \/ \E r \in Manual : Left(r)
       \/ \E r \in Runs : By(r, local) /\ ~By(r, remote)

\* At first the files are those of HEAD.
LEMMA LeftoverInit == Init => LeftoverInv
BY OpinionIdsAssumption DEF Init, LeftoverInv, Running, HeadDoc, Last

\* A run that ends before its push leaves the files of HEAD, unless it was started by
\* hand or has committed.
LEMMA LeftoverStop ==
    ASSUME TypeOK, RunsInv, LeftoverInv, NEW r \in Runs, Running(r), r \in Manual \/ ~By(r, remote),
           UNCHANGED <<local, remote, phase, base>>,
           NEW v \in {"failed", "abandoned"}, status' = [status EXCEPT ![r] = v],
           v = "failed" => phase[r] # "pushed",
           tree' = base[r].doc \/ r \in Manual \/ By(r, local)
    PROVE  LeftoverInv'
<1>1. Live(r) /\ status'[r] = v /\ \A q \in Runs \ {r} : status'[q] = status[q]
  BY DEF Live, TypeOK
<1>2. \A q \in Runs \ {r} : ~Running(q)
  BY <1>1, OthersRest DEF Live
<1>3. \A q \in Runs : ~Running(q)'
  BY <1>1, <1>2 DEF Running
<1>4. \/ tree' = HeadDoc
      \/ r \in Manual /\ Left(r)'
      \/ \E q \in Runs : By(q, local) /\ ~By(q, remote)
  BY <1>1 DEF LeftoverInv, Left
<1> QED BY <1>3, <1>4 DEF LeftoverInv, HeadDoc

\* A run in progress goes on, or one that has committed ends: the files are those of
\* HEAD when nobody runs.
LEMMA LeftoverGoesOn ==
    ASSUME TypeOK, RunsInv, LeftoverInv, NEW r \in Runs, Running(r), base' = base,
           remote' \in {local, remote}, local' = local \/ By(r, local'),
           \A q \in Runs \ {r} : status'[q] = status[q],
           Running(r)' \/ (local' = local /\ tree' = HeadDoc)
    PROVE  LeftoverInv'
<1>1. \A q \in Runs \ {r} : ~Running(q)
  BY OthersRest DEF Live
<1>2. \A q \in Runs \ {r} : ~Running(q)'
  BY <1>1 DEF Running
<1>3. Running(r)' /\ ~By(r, local') => base'[r].doc = HeadDoc'
  BY DEF LeftoverInv, HeadDoc
<1>4. tree' = HeadDoc' \/ Running(r)'
  BY DEF HeadDoc
<1> QED BY <1>2, <1>3, <1>4 DEF LeftoverInv

\* A reconciliation completes a run whose files are those of HEAD, or one that
\* failed after its push and left none behind.
LEMMA LeftoverReconciled ==
    ASSUME TypeOK, RunsInv, LeftoverInv, NEW r \in Runs, ReconcileDurable(r)
    PROVE  LeftoverInv'
<1>1. /\ UNCHANGED <<local, tree, base>>
      /\ remote' = IF Announced(r) /\ ~By(r, remote) THEN local ELSE remote
      /\ \/ /\ status' = [status EXCEPT ![r] = "completed"]
            /\ phase' = [phase EXCEPT ![r] = "completed"]
         \/ ~Valid(r) /\ status' = status /\ phase' = phase
  BY DEF ReconcileDurable, SetStatus, SetPhase
<1>2. \A q \in Runs \ {r} : status'[q] = status[q] /\ phase'[q] = phase[q]
  BY <1>1 DEF TypeOK
<1>3. CASE HasCommitted(r) /\ FilesSettled /\ Valid(r)
  BY <1>1, <1>2, <1>3, LeftoverGoesOn DEF HasCommitted, FilesSettled
<1>4. CASE status[r] = "failed" /\ phase[r] = "pushed" /\ ~Announced(r)
  <2>1. remote' = remote /\ ~Running(r) /\ ~Left(r)
    BY <1>1, <1>4 DEF Running, Left
  <2>2. status'[r] \in {"failed", "completed"}
    BY <1>1, <1>4 DEF TypeOK
  <2>3. \A q \in Runs : Running(q)' <=> Running(q)
    BY <1>2, <2>1, <2>2 DEF Running
  <2>4. \A q \in Manual : Left(q) => Left(q)'
    BY <1>2, <2>1, OpinionIdsAssumption DEF Left
  <2> QED BY <1>1, <2>1, <2>3, <2>4 DEF LeftoverInv, HeadDoc
<1> QED BY <1>3, <1>4, DurableIs

\* Every step but a manual run's end leaves files that the next run can start from.
LEMMA LeftoverStep == TypeOK /\ RunsInv /\ LeftoverInv /\ [Next]_vars => LeftoverInv'
<1> SUFFICES ASSUME TypeOK, RunsInv, LeftoverInv, [Next]_vars PROVE LeftoverInv'
  OBVIOUS
<1>1. ASSUME NEW r \in Runs, Start(r) PROVE LeftoverInv'
  <2>1. /\ local' = remote /\ tree' = Last(remote).doc /\ base'[r].doc = tree'
        /\ status' = [status EXCEPT ![r] = "running_agent"]
        /\ \A q \in Runs : ~Running(q)
    BY <1>1 DEF Start, Capture, SetStatus, Active, Running, TypeOK
  <2>2. HeadDoc' = tree'
    BY <2>1 DEF HeadDoc
  <2>3. \A q \in Runs \ {r} : ~Running(q)'
    BY <2>1 DEF Running, TypeOK
  <2> QED BY <2>1, <2>2, <2>3 DEF LeftoverInv
<1>2. ASSUME NEW r \in Runs, Edit(r) \/ DeterministicEdit(r) \/ Done(r) \/ Push(r)
      PROVE  LeftoverInv'
  <2>1. busy = r /\ remote' \in {local, remote} /\ UNCHANGED <<local, status, base>>
    BY <1>2 DEF Edit, DeterministicEdit, Done, Push, files
  <2>2. Running(r) /\ Running(r)'
    BY <2>1, BusyIsLive DEF Running
  <2> QED BY <2>1, <2>2, LeftoverGoesOn
<1>3. ASSUME NEW r \in Runs, TurnFails(r) \/ Rejected(r) PROVE LeftoverInv'
  <2>1. phase[r] = "agent_editing" /\ Running(r)
    BY <1>3, BusyIsLive DEF TurnFails, Rejected
  <2>2. ~By(r, remote)
    BY <2>1 DEF RunsInv, CommitsOf
  <2>3. /\ UNCHANGED <<local, remote, phase, base>> /\ status' = [status EXCEPT ![r] = "failed"]
        /\ tree' = base[r].doc \/ r \in Manual
    BY <1>3 DEF TurnFails, Rejected, Restore, files, SetStatus
  <2> QED BY <2>1, <2>2, <2>3, LeftoverStop
<1>4. ASSUME NEW r \in Runs, PushRefused(r) PROVE LeftoverInv'
  <2>1. busy = r /\ phase[r] = "committed" /\ By(r, local)
    BY <1>4 DEF PushRefused
  <2>2. Running(r) /\ ~By(r, remote)
    BY <2>1, BusyIsLive DEF RunsInv, CommitsOf
  <2>3. UNCHANGED <<local, remote, phase, base>> /\ status' = [status EXCEPT ![r] = "failed"]
    BY <1>4 DEF PushRefused, files, SetStatus
  <2> QED BY <2>1, <2>2, <2>3, LeftoverStop
<1>5. ASSUME NEW r \in Runs, ReconcileInterrupted(r) PROVE LeftoverInv'
  <2>1. Running(r) /\ phase[r] # "pushed" /\ ~Announced(r)
    BY <1>5 DEF ReconcileInterrupted, Running
  <2>2. ~By(r, remote)
    BY <2>1 DEF RunsInv, CommitsOf, Announced, IsLast
  <2>3. /\ UNCHANGED <<local, remote, phase, base>> /\ status' = [status EXCEPT ![r] = "failed"]
        /\ tree' = base[r].doc
    BY <1>5 DEF ReconcileInterrupted, Restore, SetStatus
  <2> QED BY <2>1, <2>2, <2>3, LeftoverStop
<1>6. ASSUME NEW r \in Runs, Abandon(r) PROVE LeftoverInv'
  <2>1. Running(r) /\ (r \in Manual \/ (phase[r] \notin {"committed", "pushed"} /\ tree' = base[r].doc))
    BY <1>6 DEF Abandon, Running, Restore
  <2>2. r \in Manual \/ ~By(r, remote)
    BY <2>1 DEF RunsInv, CommitsOf
  <2>3. /\ UNCHANGED <<local, remote, phase, base>>
        /\ status' = [status EXCEPT ![r] = "abandoned"]
    BY <1>6 DEF Abandon, Restore, files, SetStatus
  <2> QED BY <2>1, <2>2, <2>3, LeftoverStop
<1>7. ASSUME NEW r \in Runs, Commit(r) PROVE LeftoverInv'
  <2> DEFINE new == [by |-> r, doc |-> tree]
  <2>1. /\ busy = r /\ remote' = remote /\ status' = status /\ base' = base
        /\ local' = local \/ local' = Append(local, new)
    BY <1>7 DEF Commit
  <2>2. new \in Version /\ new.by = r
    BY DEF Version, TypeOK
  <2> HIDE DEF new
  <2>3. By(r, Append(local, new))
    BY <2>2, AppendedBy DEF TypeOK
  <2>4. Running(r) /\ Running(r)'
    BY <2>1, BusyIsLive DEF Running
  <2> QED BY <2>1, <2>3, <2>4, LeftoverGoesOn
<1>8. ASSUME NEW r \in Runs, Complete(r) \/ CompleteFails(r) PROVE LeftoverInv'
  <2>1. /\ busy = r /\ phase[r] = "pushed" /\ UNCHANGED <<local, remote, tree, base>>
        /\ \/ status' = status
           \/ status' = [status EXCEPT ![r] = "failed"]
           \/ status' = [status EXCEPT ![r] = "completed"]
    BY <1>8 DEF Complete, CompleteFails, SetStatus, Dies, files
  <2>2. Running(r) /\ tree = HeadDoc
    BY <2>1, BusyIsLive DEF RunsInv, HasCommitted, FilesSettled
  <2>3. \A q \in Runs \ {r} : status'[q] = status[q]
    BY <2>1 DEF TypeOK
  <2> QED BY <2>1, <2>2, <2>3, LeftoverGoesOn
<1>9. ASSUME OutsidePush PROVE LeftoverInv'
  <2>1. PICK v \in Version : v.by = Owner /\ remote' = Append(remote, v)
    BY <1>9, OutsideVersion
  <2>2. \A r \in Runs : By(r, remote') <=> By(r, remote)
    BY <2>1, AppendedBy, OpinionIdsAssumption DEF TypeOK
  <2>3. UNCHANGED <<local, tree, status, phase, base>>
    BY <1>9 DEF OutsidePush
  <2> QED BY <2>2, <2>3 DEF LeftoverInv, Running, Left, HeadDoc
<1>10. ASSUME Crash \/ UNCHANGED vars PROVE LeftoverInv'
  <2>1. UNCHANGED <<local, remote, tree, status, phase, base>>
    BY <1>10 DEF Crash, vars, files
  <2> QED BY <2>1 DEF LeftoverInv, Running, Left, HeadDoc, By
<1> QED BY <1>1, <1>2, <1>3, <1>4, <1>5, <1>6, <1>7, <1>8, <1>9, <1>10, LeftoverReconciled
        DEF Next

\* Whenever nobody runs and the checkout is not ahead of the remote, the files are
\* those of HEAD, unless a manual run has failed or was abandoned
\* (archive_and_restore_run is not called for it), with every fault.
THEOREM OnlyManualRunsLeaveFiles == Spec => []LeftoversAreManual
<1>1. TypeOK /\ LeftoverInv => LeftoversAreManual
  <2>1. SUFFICES ASSUME TypeOK, LeftoverInv, Active = {}, IsPrefix(local, remote), ~Clean
                 PROVE  \E r \in Manual : status[r] \in {"failed", "abandoned"}
    BY DEF LeftoversAreManual
  <2>2. \A r \in Runs : ~Running(r)
    BY <2>1 DEF Active, Running
  <2>3. \A r \in Runs : By(r, local) => By(r, remote)
    BY <2>1, PrefixBy DEF TypeOK
  <2> QED BY <2>1, <2>2, <2>3 DEF LeftoverInv, Left, Clean
<1> QED BY RunsInvariant, LeftoverInit, LeftoverStep, <1>1, PTL DEF Spec

-----------------------------------------------------------------------------
(* Runs that are owed their completion *)

\* Nobody starts while the completion of another run is owed.
NobodyIsEarly == "early" \notin Faults

\* A run that another pass has to complete.
Owed(r) == status[r] = "failed" /\ phase[r] = "pushed"

\* It is the only one, and finds its files as it left them.
OwedInv ==
    \A r \in Runs : Owed(r) => FilesSettled /\ \A q \in Runs \ {r} : ~Live(q) /\ ~Owed(q)

\* Nothing is owed while a run is live.
LEMMA NothingOwed ==
    ASSUME OwedInv, NEW r \in Runs, Live(r)
    PROVE  \A q \in Runs : ~Owed(q)
BY DEF OwedInv, Live, Running, Stuck, Owed

\* A step about a live run leaves nothing owed but, after its push, its own completion.
LEMMA OwedByOne ==
    ASSUME RunsInv, OwedInv, NEW r \in Runs, Live(r),
           \A q \in Runs \ {r} : status'[q] = status[q] /\ phase'[q] = phase[q],
           Owed(r)' => FilesSettled' /\ \A q \in Runs \ {r} : By(q, local') => By(q, local)
    PROVE  OwedInv'
<1>1. \A q \in Runs \ {r} : ~Owed(q)'
  BY NothingOwed DEF Owed
<1>2. \A q \in Runs \ {r} : Owed(r)' => ~Live(q)'
  BY OthersRest DEF Live, Running, Stuck
<1> QED BY <1>1, <1>2 DEF OwedInv

\* A step that touches no file and no run.
LEMMA OwedRest ==
    ASSUME OwedInv, UNCHANGED <<local, tree, status, phase>>
    PROVE  OwedInv'
BY DEF OwedInv, Owed, Live, Running, Stuck, By, FilesSettled, HeadDoc

\* At first nothing is owed.
LEMMA OwedInit == Init => OwedInv
BY DEF Init, OwedInv, Owed

\* A reconciliation finds the files as they were committed, and accepts them.
LEMMA ReconcileSettled ==
    ASSUME TypeOK, RunsInv, OwedInv, NEW r \in Runs, ReconcileDurable(r)
    PROVE  /\ HasCommitted(r) \/ Owed(r)
           /\ FilesSettled /\ tree = HeadDoc /\ Valid(r)
<1>1. (HasCommitted(r) \/ Owed(r)) /\ FilesSettled
  BY DurableIs DEF OwedInv, Owed
<1> QED BY <1>1 DEF FilesSettled, Valid, IdsFresh, RowsEvidenced, PairsOf

\* Every step keeps one run at a time that is live or owed.
LEMMA OwedStep ==
    ASSUME NobodyIsEarly
    PROVE  TypeOK /\ RunsInv /\ OwedInv /\ [Next]_vars => OwedInv'
<1> SUFFICES ASSUME TypeOK, RunsInv, OwedInv, [Next]_vars PROVE OwedInv'
  OBVIOUS
<1>1. ASSUME NEW r \in Runs, Start(r) PROVE OwedInv'
  <2>1. /\ \A q \in Runs : ~Owed(q)
        /\ status' = [status EXCEPT ![r] = "running_agent"]
        /\ phase' = [phase EXCEPT ![r] = "agent_editing"]
    BY <1>1 DEF Start, Capture, Unreconciled, Owed, NobodyIsEarly, SetStatus, SetPhase
  <2>2. \A q \in Runs : ~Owed(q)'
    BY <2>1 DEF Owed, TypeOK
  <2> QED BY <2>2 DEF OwedInv
<1>2. ASSUME NEW r \in Runs, \/ Edit(r) \/ DeterministicEdit(r) \/ TurnFails(r) \/ Done(r)
                            \/ Rejected(r) \/ Commit(r) \/ Push(r) \/ PushRefused(r)
                            \/ ReconcileInterrupted(r) \/ Abandon(r)
      PROVE  OwedInv'
  <2>1. /\ \A q \in Runs \ {r} : status'[q] = status[q] /\ phase'[q] = phase[q]
        /\ \/ status'[r] = status[r]
           \/ status'[r] = "abandoned"
           \/ phase'[r] = phase[r] /\ phase[r] # "pushed"
    BY <1>2 DEF Edit, DeterministicEdit, TurnFails, Done, Rejected, Commit, Push, PushRefused,
       ReconcileInterrupted, Abandon, SetStatus, SetPhase, Dies, TypeOK
  <2>2. Running(r) /\ Live(r)
    <3>1. CASE busy = r
      BY <3>1, BusyIsLive
    <3>2. CASE status[r] = "running_agent"
      BY <3>2 DEF Running, Live
    <3> QED BY <1>2, <3>1, <3>2 DEF Edit, DeterministicEdit, TurnFails, Done, Rejected, Commit,
            Push, PushRefused, ReconcileInterrupted, Abandon
  <2>3. ~Owed(r)'
    BY <2>1, <2>2 DEF Owed, Running
  <2> QED BY <2>1, <2>2, <2>3, OwedByOne
<1>3. ASSUME NEW r \in Runs, Complete(r) \/ CompleteFails(r) PROVE OwedInv'
  <2>1. /\ busy = r /\ phase[r] = "pushed" /\ UNCHANGED <<local, tree>>
        /\ \A q \in Runs \ {r} : status'[q] = status[q] /\ phase'[q] = phase[q]
    BY <1>3 DEF Complete, CompleteFails, SetStatus, SetPhase, Dies, files, TypeOK
  <2>2. Live(r) /\ FilesSettled
    BY <2>1, BusyIsLive DEF RunsInv, HasCommitted
  <2> QED BY <2>1, <2>2, OwedByOne DEF FilesSettled, HeadDoc
<1>4. ASSUME NEW r \in Runs, ReconcileDurable(r) PROVE OwedInv'
  <2>1. /\ HasCommitted(r) \/ Owed(r)
        /\ Valid(r)
    BY <1>4, ReconcileSettled
  <2>2. /\ status' = [status EXCEPT ![r] = "completed"]
        /\ phase' = [phase EXCEPT ![r] = "completed"]
    BY <1>4, <2>1 DEF ReconcileDurable, SetStatus, SetPhase
  <2>3. /\ status'[r] = "completed"
        /\ \A q \in Runs \ {r} : status'[q] = status[q] /\ phase'[q] = phase[q]
    BY <2>2 DEF TypeOK
  <2>4. \A q \in Runs \ {r} : ~Owed(q)
    BY <2>1, NothingOwed DEF OwedInv, HasCommitted, Live
  <2>5. \A q \in Runs : ~Owed(q)'
    BY <2>3, <2>4 DEF Owed
  <2> QED BY <2>5 DEF OwedInv
<1>5. ASSUME Crash \/ OutsidePush \/ UNCHANGED vars PROVE OwedInv'
  BY <1>5, OwedRest DEF Crash, OutsidePush, vars, files
<1> QED BY <1>1, <1>2, <1>3, <1>4, <1>5 DEF Next

\* It holds whenever every run that is left without its completion is completed
\* before the next one starts.
LEMMA OwedInvariant ==
    ASSUME NobodyIsEarly
    PROVE  Spec => []OwedInv
BY RunsInvariant, OwedInit, OwedStep, PTL DEF Spec

-----------------------------------------------------------------------------
(* The mark is earned *)

\* Every number that the file may be set to is that of a committed opinion.
FirstEarned == FirstHighWater <= Highest(IdsOf(FirstDoc))

IdsIn(branch) == UNION {IdsOf(branch[i].doc) : i \in DOMAIN branch}

AllIds == IdsIn(local) \cup IdsIn(remote)

Within(n, S) == \E id \in S \cup {0} : n <= id

EarnedInv ==
    /\ Within(highWater, AllIds)
    /\ \A r \in Runs : Within(base[r].highWater, AllIds)
    /\ IF busy \in Runs /\ phase[busy] = "commit_intent"
       THEN Within(mark, AllIds \cup IdsOf(tree))
       ELSE Within(mark, AllIds)

\* The ids of the last version are ids of the branch.
LEMMA LastIds ==
    ASSUME NEW s \in Seq(Version), s # <<>>
    PROVE  IdsOf(Last(s).doc) \subseteq IdsIn(s)
BY LastOf DEF IdsIn

\* A prefix has no other ids.
LEMMA PrefixIds ==
    ASSUME NEW s \in Seq(Version), NEW t \in Seq(Version), IsPrefix(s, t)
    PROVE  IdsIn(s) \subseteq IdsIn(t)
<1> SUFFICES ASSUME NEW i \in DOMAIN s PROVE i \in DOMAIN t /\ t[i] = s[i]
  BY DEF IdsIn
<1> QED BY PrefixIs

\* A commit takes no ids away from the branch.
LEMMA AppendIds ==
    ASSUME NEW s \in Seq(Version), NEW v \in Version
    PROVE  IdsIn(s) \cup IdsOf(v.doc) = IdsIn(Append(s, v))
<1> DEFINE t == Append(s, v)
<1>1. /\ t \in Seq(Version) /\ Len(t) = Len(s) + 1 /\ t[Len(s) + 1] = v
      /\ \A i \in 1..Len(s) : t[i] = s[i]
  BY Appended
<1>2. DOMAIN t = 1..(Len(s) + 1) /\ DOMAIN s = 1..Len(s) /\ Len(s) \in Nat
  BY <1>1
<1> HIDE DEF t
<1>3. IdsIn(s) \cup IdsOf(v.doc) \subseteq IdsIn(t)
  BY <1>1, <1>2 DEF IdsIn
<1>4. IdsIn(t) \subseteq IdsIn(s) \cup IdsOf(v.doc)
  <2> SUFFICES ASSUME NEW i \in DOMAIN t
               PROVE  IdsOf(t[i].doc) \subseteq IdsIn(s) \cup IdsOf(v.doc)
    BY DEF IdsIn
  <2> QED BY <1>1, <1>2 DEF IdsIn
<1> QED BY <1>3, <1>4 DEF t

\* No step takes an id out of the history.
LEMMA IdsGrow ==
    ASSUME TypeOK, [Next]_vars
    PROVE  AllIds \subseteq AllIds'
<1> USE DEF AllIds
<1>1. ASSUME NEW r \in Runs, Start(r) PROVE AllIds \subseteq AllIds'
  BY <1>1, PrefixIds DEF Start, Capture, CanPull, TypeOK
<1>2. ASSUME NEW r \in Runs, Commit(r) PROVE AllIds \subseteq AllIds'
  <2>1. [by |-> r, doc |-> tree] \in Version
    BY DEF Version, TypeOK
  <2> QED BY <1>2, <2>1, AppendIds DEF Commit, TypeOK
<1>3. ASSUME NEW r \in Runs, Push(r) PROVE AllIds \subseteq AllIds'
  BY <1>3, PrefixIds DEF Push, CanPush, TypeOK
<1>4. ASSUME NEW r \in Runs, ReconcileDurable(r) PROVE AllIds \subseteq AllIds'
  <2>1. Announced(r) /\ ~By(r, remote) => CanPush
    BY <1>4 DEF ReconcileDurable, Durable, Announced
  <2> QED BY <1>4, <2>1, PrefixIds DEF ReconcileDurable, CanPush, TypeOK
<1>5. ASSUME OutsidePush PROVE AllIds \subseteq AllIds'
  <2>1. PICK v \in Version : remote' = Append(remote, v)
    BY <1>5, OutsideVersion
  <2> QED BY <1>5, <2>1, AppendIds DEF OutsidePush, TypeOK
<1>6. ASSUME UNCHANGED <<local, remote>> PROVE AllIds \subseteq AllIds'
  BY <1>6
<1> QED BY <1>1, <1>2, <1>3, <1>4, <1>5, <1>6 DEF Next, vars, files, Edit, DeterministicEdit,
    TurnFails, Done, Rejected, PushRefused, Complete, CompleteFails, Crash,
    ReconcileInterrupted, Abandon, Restore

\* The first mark is that of an opinion.
LEMMA EarnedInit == Init /\ FirstEarned => EarnedInv
<1> SUFFICES ASSUME Init, FirstEarned PROVE EarnedInv
  OBVIOUS
<1>1. DOMAIN local = {1} /\ local[1].doc = FirstDoc
  BY DEF Init
<1>2. IdsOf(FirstDoc) \subseteq AllIds
  BY <1>1 DEF AllIds, IdsIn
<1>3. IdsOf(FirstDoc) \in SUBSET (0..MaxId)
  BY IdsType, OpinionIdsAssumption DEF Ids
<1>4. Within(FirstHighWater, AllIds)
  BY <1>2, <1>3, HighestIs DEF FirstEarned, Within
<1>5. Within(0, AllIds)
  BY DEF Within
<1> QED BY <1>4, <1>5, OpinionIdsAssumption DEF Init, EarnedInv

\* Every step sets the file to a mark that is earned.
LEMMA EarnedStep == TypeOK /\ RunsInv /\ OwedInv /\ EarnedInv /\ [Next]_vars => EarnedInv'
<1> SUFFICES ASSUME TypeOK, RunsInv, OwedInv, EarnedInv, [Next]_vars PROVE EarnedInv'
  OBVIOUS
<1>1. AllIds \subseteq AllIds'
  BY IdsGrow
<1>2. \A n : Within(n, AllIds) => Within(n, AllIds')
  BY <1>1 DEF Within
<1>3. ASSUME Within(highWater', AllIds), base' = base, busy' = Idle,
             mark' = 0 \/ (mark' = mark /\ busy = Idle)
      PROVE  EarnedInv'
  <2>1. Within(0, AllIds)
    BY DEF Within
  <2> QED BY <1>2, <1>3, <2>1, OpinionIdsAssumption DEF EarnedInv
<1>4. ASSUME highWater' = highWater, base' = base, busy' = busy, mark' = mark,
             busy \in Runs => phase[busy] # "commit_intent" /\ phase'[busy] # "commit_intent"
      PROVE  EarnedInv'
  BY <1>2, <1>4 DEF EarnedInv
<1>5. ASSUME NEW r \in Runs, Start(r) PROVE EarnedInv'
  <2>1. /\ highWater' = highWater /\ mark' = mark /\ busy' = r /\ busy = Idle
        /\ phase'[r] = "agent_editing"
        /\ \A q \in Runs : base'[q].highWater \in {highWater, base[q].highWater}
    BY <1>5 DEF Start, Capture, SetPhase, TypeOK
  <2> QED BY <1>2, <2>1, OpinionIdsAssumption DEF EarnedInv
<1>6. ASSUME NEW r \in Runs, Edit(r) \/ DeterministicEdit(r) PROVE EarnedInv'
  BY <1>4, <1>6 DEF Edit, DeterministicEdit
<1>7. ASSUME NEW r \in Runs, TurnFails(r) \/ Rejected(r) \/ PushRefused(r) \/ CompleteFails(r)
      PROVE  EarnedInv'
  BY <1>3, <1>7 DEF TurnFails, Rejected, PushRefused, CompleteFails, Restore, files, Leave,
     EarnedInv
<1>8. ASSUME NEW r \in Runs, Done(r) PROVE EarnedInv'
  <2>1. /\ IdsOf(HeadDoc) \cup IdsOf(tree) \cup {highWater} \in SUBSET (0..MaxId)
        /\ IdsOf(HeadDoc) \subseteq AllIds
    BY NextHighWaterType, LastIds DEF TypeOK, HeadDoc, AllIds
  <2>2. NextHighWater \in IdsOf(HeadDoc) \cup IdsOf(tree) \cup {highWater} \cup {0}
        /\ NextHighWater \in 0..MaxId
    BY <2>1, HighestIs DEF NextHighWater
  <2>3. Within(NextHighWater, AllIds \cup IdsOf(tree))
    BY <2>1, <2>2 DEF EarnedInv, Within
  <2>4. /\ mark' = NextHighWater /\ tree' = tree /\ highWater' = highWater /\ base' = base
        /\ busy' = r /\ phase'[r] = "commit_intent" /\ AllIds' = AllIds
    BY <1>8 DEF Done, files, SetPhase, TypeOK, AllIds
  <2> QED BY <2>3, <2>4 DEF EarnedInv
<1>9. ASSUME NEW r \in Runs, Commit(r) PROVE EarnedInv'
  <2>1. /\ highWater' = highWater /\ base' = base /\ busy = r /\ phase[r] = "commit_intent"
        /\ \/ busy' = Idle /\ mark' = 0
           \/ busy' = r /\ mark' = mark /\ phase'[r] = "committed"
    BY <1>9 DEF Commit, Dies, Leave, SetPhase, TypeOK
  <2>2. IdsOf(tree) \subseteq AllIds'
    <3>1. [by |-> r, doc |-> tree] \in Version /\ [by |-> r, doc |-> tree].doc = tree
      BY DEF Version, TypeOK
    <3>2. CASE local' = local /\ tree = HeadDoc
      BY <3>2, LastIds DEF AllIds, HeadDoc, TypeOK
    <3>3. CASE local' = Append(local, [by |-> r, doc |-> tree])
      BY <3>1, <3>3, AppendIds DEF AllIds, TypeOK
    <3> QED BY <1>9, <3>2, <3>3 DEF Commit, Clean
  <2>3. Within(mark, AllIds')
    BY <1>1, <2>1, <2>2 DEF EarnedInv, Within
  <2>4. Within(mark', AllIds')
    <3>1. Within(0, AllIds')
      BY DEF Within
    <3> QED BY <2>1, <2>3, <3>1
  <2>5. ~(busy' \in Runs /\ phase'[busy'] = "commit_intent")
    BY <2>1, OpinionIdsAssumption
  <2> QED BY <1>2, <2>1, <2>4, <2>5 DEF EarnedInv
<1>10. ASSUME NEW r \in Runs, Push(r) PROVE EarnedInv'
  <2>1. /\ highWater' = highWater /\ base' = base /\ busy = r /\ phase[r] = "committed"
        /\ \/ busy' = Idle /\ mark' = 0
           \/ busy' = r /\ mark' = mark /\ phase'[r] = "pushed"
    BY <1>10 DEF Push, Dies, Leave, SetPhase, TypeOK
  <2> QED BY <1>3, <1>4, <2>1 DEF EarnedInv
<1>11. ASSUME NEW r \in Runs, Complete(r) PROVE EarnedInv'
  <2>1. Within(mark, AllIds) /\ Within(highWater, AllIds)
    BY <1>11 DEF Complete, EarnedInv
  <2>2. {highWater, mark} \in SUBSET (0..MaxId)
    BY DEF TypeOK
  <2>3. Within(Highest({highWater, mark}), AllIds)
    <3>1. Highest({highWater, mark}) \in {highWater, mark, 0}
      BY <2>2, HighestIs
    <3>2. Within(0, AllIds)
      BY DEF Within
    <3> QED BY <2>1, <3>1, <3>2
  <2> QED BY <1>3, <1>11, <2>3 DEF Complete, UpdateHighWater, Leave, Dies
<1>12. ASSUME NEW r \in Runs, ReconcileDurable(r) PROVE EarnedInv'
  <2>1. tree = HeadDoc /\ Valid(r)
    BY <1>12, ReconcileSettled
  <2>2. /\ IdsOf(HeadDoc) \cup IdsOf(tree) \cup {highWater} \in SUBSET (0..MaxId)
        /\ IdsOf(HeadDoc) \subseteq AllIds
    BY NextHighWaterType, LastIds DEF TypeOK, HeadDoc, AllIds
  <2>3. NextHighWater \in IdsOf(HeadDoc) \cup {highWater} \cup {0} /\ NextHighWater \in 0..MaxId
    BY <2>1, <2>2, HighestIs DEF NextHighWater
  <2>4. Within(highWater, AllIds) /\ Within(NextHighWater, AllIds) /\ Within(0, AllIds)
    BY <2>2, <2>3 DEF EarnedInv, Within
  <2>5. Highest({highWater, NextHighWater}) \in {highWater, NextHighWater, 0}
    BY <2>2, <2>3, HighestIs
  <2> QED BY <1>3, <1>12, <2>1, <2>4, <2>5 DEF ReconcileDurable, UpdateHighWater
<1>13. ASSUME NEW r \in Runs, ReconcileInterrupted(r) \/ Abandon(r) PROVE EarnedInv'
  BY <1>3, <1>13 DEF ReconcileInterrupted, Abandon, Restore, files, EarnedInv
<1>14. ASSUME Crash PROVE EarnedInv'
  BY <1>3, <1>14 DEF Crash, Leave, files, EarnedInv
<1>15. ASSUME OutsidePush \/ UNCHANGED vars PROVE EarnedInv'
  <2>1. UNCHANGED <<tree, highWater, phase, base, mark, busy>>
    BY <1>15 DEF OutsidePush, vars, files
  <2> QED BY <1>1, <1>2, <2>1 DEF EarnedInv, Within
<1> QED BY <1>5, <1>6, <1>7, <1>8, <1>9, <1>10, <1>11, <1>12, <1>13, <1>14, <1>15 DEF Next

\* The mark of the file is never past the opinions that were committed: no run that
\* was refused, restored or abandoned uses an id up (_restore_run_baseline,
\* update_opinion_id_high_water), if nobody starts while the completion of another
\* run is owed: it would be completed with the files of the one in progress.
THEOREM MarkIsEarned ==
    ASSUME NobodyIsEarly, FirstEarned
    PROVE  Spec => []HighWaterIsEarned
<1>1. Init => EarnedInv
  BY EarnedInit
<1>2. TypeOK /\ EarnedInv => HighWaterIsEarned
  <2>1. SUFFICES ASSUME TypeOK, EarnedInv PROVE HighWaterIsEarned
    OBVIOUS
  <2>2. AllIds = UNION {IdsOf(version.doc) : version \in ToSet(local) \cup ToSet(remote)}
    BY DEF AllIds, IdsIn, ToSet
  <2>3. AllIds \in SUBSET (0..MaxId)
    <3>1. \A i \in DOMAIN local : IdsOf(local[i].doc) \subseteq Ids
      BY <2>1, VersionParts, IdsType DEF TypeOK
    <3>2. \A i \in DOMAIN remote : IdsOf(remote[i].doc) \subseteq Ids
      BY <2>1, VersionParts, IdsType DEF TypeOK
    <3>3. IdsIn(local) \subseteq Ids /\ IdsIn(remote) \subseteq Ids
      BY <3>1, <3>2 DEF IdsIn
    <3>4. Ids \subseteq 0..MaxId
      BY DEF Ids
    <3> QED BY <3>3, <3>4 DEF AllIds
  <2>4. PICK id \in AllIds \cup {0} : highWater <= id
    BY <2>1 DEF EarnedInv, Within
  <2>5. Highest(AllIds) \in 0..MaxId /\ id <= Highest(AllIds)
    BY <2>3, HighestIs
  <2>6. highWater <= Highest(AllIds)
    BY <2>1, <2>3, <2>4, <2>5, OpinionIdsAssumption DEF TypeOK
  <2> QED BY <2>2, <2>6 DEF HighWaterIsEarned
<1> QED BY RunsInvariant, OwedInvariant, EarnedStep, <1>1, <1>2, PTL DEF Spec

-----------------------------------------------------------------------------
(* Ids *)

\* Ids are kept apart unless a run may start before another one is completed, or
\* a run is abandoned after its push.
IdsAreKept == NobodyIsEarly /\ "abandonPushed" \notin Faults

\* The high-water file covers the first ids.
FirstCovered == FirstHighWater >= Highest(IdsOf(FirstDoc))

Seen(branch) == {i \in DOMAIN branch : i = 1 \/ branch[i].by \in Runs}

FreshIn(branch) ==
    \A k \in DOMAIN branch : branch[k].by \in Runs =>
        k > 1 /\ \A id \in IdsOf(branch[k].doc) \ IdsOf(branch[k - 1].doc) :
            \A i \in 1..(k - 1) : i \in Seen(branch) => id \notin IdsOf(branch[i].doc)

Bounds(n, branch) == \A i \in Seen(branch) : \A id \in IdsOf(branch[i].doc) : id <= n

Open(r) == Live(r) \/ Owed(r)

\* The run has committed, or had nothing to commit.
Settled(r) == HasCommitted(r) \/ Owed(r)

Reached == Highest(IdsOf(HeadDoc) \cup {highWater})

\* What a settled run has published or may publish is covered by HEAD and the file.
SettledInv(r) == Settled(r) => Bounds(Reached, local) /\ Bounds(Reached, remote)

\* Its ids may be published and not in the high-water file.
Excused(r) == Owed(r) \/ (Running(r) /\ (phase[r] = "pushed" \/ By(r, remote)))

HighWaterInv ==
    /\ (\A r \in Runs : ~Excused(r)) => Bounds(highWater, remote)
    /\ \A r \in Runs : Running(r) /\ ~Settled(r) => Bounds(highWater, local)
    /\ \A r \in Runs : Running(r) /\ phase[r] # "pushed" => base[r].highWater = highWater

MarkInv ==
    busy \in Runs /\ phase[busy] \in {"commit_intent", "committed", "pushed"} =>
        /\ \A id \in IdsOf(HeadDoc) \cup IdsOf(tree) \cup {highWater} : id <= mark
        /\ phase[busy] = "commit_intent" =>
            \A id \in IdsOf(tree) \ IdsOf(HeadDoc) : id > highWater

IdsInv ==
    /\ FreshIn(local) /\ FreshIn(remote)
    /\ \A r \in Runs : SettledInv(r)
    /\ HighWaterInv /\ MarkInv

\* The ids of a version that has been seen are below a bound.
LEMMA BoundsAppend ==
    ASSUME NEW s \in Seq(Version), s # <<>>, NEW v \in Version, NEW n \in Nat, Bounds(n, s),
           v.by \in Runs => \A id \in IdsOf(v.doc) : id <= n
    PROVE  Bounds(n, Append(s, v))
<1> DEFINE t == Append(s, v)
<1>1. /\ t \in Seq(Version) /\ Len(t) = Len(s) + 1 /\ t[Len(s) + 1] = v
      /\ \A i \in 1..Len(s) : t[i] = s[i]
  BY Appended
<1>2. DOMAIN t = 1..(Len(s) + 1) /\ DOMAIN s = 1..Len(s) /\ Len(s) \in Nat \ {0}
  BY <1>1
<1> HIDE DEF t
<1>3. \A i \in Seen(t) : i \in Seen(s) \/ (i = Len(s) + 1 /\ v.by \in Runs)
  BY <1>1, <1>2 DEF Seen
<1>4. \A i \in Seen(s) : t[i] = s[i]
  BY <1>1, <1>2 DEF Seen
<1> QED BY <1>1, <1>3, <1>4 DEF Bounds, t

\* A bound may be raised.
LEMMA BoundsMono ==
    ASSUME NEW s \in Seq(Version), NEW m \in Nat, NEW n \in Nat, m <= n, Bounds(m, s)
    PROVE  Bounds(n, s)
<1> SUFFICES ASSUME NEW i \in Seen(s), NEW id \in IdsOf(s[i].doc) PROVE id <= n
  BY DEF Bounds
<1>1. s[i] \in Version
  BY DEF Seen
<1>2. id \in Nat
  BY <1>1, VersionParts, IdsType DEF Ids
<1>3. id <= m
  BY DEF Bounds
<1> QED BY <1>2, <1>3

\* A commit whose new ids have not been seen.
LEMMA FreshAppend ==
    ASSUME NEW s \in Seq(Version), s # <<>>, FreshIn(s), NEW v \in Version,
           v.by \in Runs => \A id \in IdsOf(v.doc) \ IdsOf(Last(s).doc) :
               \A i \in Seen(s) : id \notin IdsOf(s[i].doc)
    PROVE  FreshIn(Append(s, v))
<1> DEFINE t == Append(s, v)
<1>1. /\ t \in Seq(Version) /\ Len(t) = Len(s) + 1 /\ t[Len(s) + 1] = v
      /\ \A i \in 1..Len(s) : t[i] = s[i]
  BY Appended
<1>2. DOMAIN t = 1..(Len(s) + 1) /\ DOMAIN s = 1..Len(s) /\ Len(s) \in Nat \ {0}
  BY <1>1
<1>3. Last(s) = s[Len(s)]
  BY Zenon DEF Last
<1> HIDE DEF t
<1>4. \A i \in 1..Len(s) : i \in Seen(t) => i \in Seen(s)
  BY <1>1, <1>2 DEF Seen
<1>5. ASSUME NEW k \in DOMAIN t, t[k].by \in Runs
      PROVE  k > 1 /\ \A id \in IdsOf(t[k].doc) \ IdsOf(t[k - 1].doc) :
               \A i \in 1..(k - 1) : i \in Seen(t) => id \notin IdsOf(t[i].doc)
  <2>1. CASE k = Len(s) + 1
    <3>1. t[k] = v /\ t[k - 1] = Last(s) /\ k > 1 /\ k - 1 = Len(s)
      BY <1>1, <1>2, <1>3, <2>1
    <3> QED BY <1>1, <1>4, <1>5, <3>1
  <2>2. CASE k # Len(s) + 1
    <3>1. k \in 1..Len(s) /\ t[k] = s[k]
      BY <1>1, <1>2, <2>2
    <3>2. k > 1
      BY <1>2, <1>5, <3>1 DEF FreshIn
    <3>3. k - 1 \in 1..Len(s) /\ 1..(k - 1) \subseteq 1..Len(s)
      BY <1>2, <3>1, <3>2
    <3> QED BY <1>1, <1>2, <1>4, <1>5, <3>1, <3>2, <3>3 DEF FreshIn
  <2> QED BY <2>1, <2>2
<1> QED BY <1>5 DEF FreshIn, t

-----------------------------------------------------------------------------
(* Ids: what holds between the steps *)

\* The types of what the bounds speak of.
LEMMA BoundTypes ==
    ASSUME TypeOK
    PROVE  /\ local \in Seq(Version) \ {<<>>} /\ remote \in Seq(Version) \ {<<>>}
           /\ highWater \in Nat /\ mark \in Nat /\ Reached \in Nat
           /\ highWater <= Reached
           /\ \A id \in IdsOf(HeadDoc) : id \in Nat /\ id <= Reached
           /\ Reached \in IdsOf(HeadDoc) \cup {highWater}
<1>1. IdsOf(HeadDoc) \cup {highWater} \in SUBSET (0..MaxId)
  BY NextHighWaterType
<1>2. Reached \in 0..MaxId /\ Reached \in IdsOf(HeadDoc) \cup {highWater} \cup {0}
  BY <1>1, HighestIs DEF Reached
<1>3. \A x \in IdsOf(HeadDoc) \cup {highWater} : x <= Reached
  BY <1>1, HighestIs DEF Reached
<1>4. highWater \in 0..MaxId /\ mark \in 0..MaxId
  BY DEF TypeOK
<1>5. Reached \in IdsOf(HeadDoc) \cup {highWater}
  BY <1>2, <1>3, <1>4
<1>6. \A id \in IdsOf(HeadDoc) : id \in Nat
  BY <1>1
<1> QED BY <1>2, <1>3, <1>4, <1>5, <1>6 DEF TypeOK

\* While a run is live or owed no other one is.
LEMMA OthersIdle ==
    ASSUME RunsInv, OwedInv, NEW r \in Runs, Open(r)
    PROVE  \A q \in Runs \ {r} :
             /\ ~Running(q) /\ ~Settled(q) /\ ~Excused(q)
             /\ status'[q] = status[q] /\ phase'[q] = phase[q] =>
                  ~Running(q)' /\ ~Settled(q)' /\ ~Excused(q)'
<1>1. \A q \in Runs \ {r} : ~Live(q) /\ ~Owed(q)
  BY OthersRest, NothingOwed DEF Open, OwedInv
<1> QED BY <1>1 DEF Live, Running, Owed, Settled, HasCommitted, Excused

\* Before its commit a run in progress is settled in nothing, and nobody's ids
\* are missing in the high-water file.
LEMMA BeforeCommit ==
    ASSUME TypeOK, RunsInv, OwedInv, IdsInv, NEW r \in Runs, Running(r),
           phase[r] = "agent_editing" \/ (phase[r] = "commit_intent" /\ busy = r)
    PROVE  /\ ~By(r, local) /\ ~By(r, remote)
           /\ \A q \in Runs : ~Settled(q) /\ ~Excused(q)
           /\ Bounds(highWater, local) /\ Bounds(highWater, remote)
<1>1. ~By(r, local) /\ ~By(r, remote)
  BY DEF RunsInv, CommitsOf
<1>2. ~Settled(r) /\ ~Excused(r)
  BY <1>1 DEF Settled, HasCommitted, Excused, Owed, Running
<1>3. \A q \in Runs : ~Settled(q) /\ ~Excused(q)
  BY <1>2, OthersIdle DEF Open, Live
<1> QED BY <1>1, <1>3 DEF IdsInv, HighWaterInv

-----------------------------------------------------------------------------
(* Ids: the steps *)

\* A run that ends without owing anything leaves the high-water file as it was.
LEMMA StopStep ==
    ASSUME TypeOK, RunsInv, OwedInv, IdsInv, NEW r \in Runs, Running(r), ~Excused(r),
           UNCHANGED <<local, remote, highWater, phase, base>>, busy' = Idle,
           NEW v \in {"failed", "abandoned"}, status' = [status EXCEPT ![r] = v]
    PROVE  IdsInv'
<1>1. FreshIn(local)' /\ FreshIn(remote)'
  BY DEF IdsInv, FreshIn, Seen
<1>2. Open(r) /\ phase[r] # "pushed"
  BY DEF Open, Live, Excused
<1>3. status'[r] = v /\ \A q \in Runs \ {r} : status'[q] = status[q]
  BY DEF TypeOK
<1>4. ~Settled(r)' /\ ~Excused(r)' /\ ~Running(r)'
  BY <1>2, <1>3 DEF Settled, HasCommitted, Excused, Running, Owed
<1>5. \A q \in Runs : ~Settled(q)' /\ ~Excused(q)' /\ ~Running(q)'
  BY <1>2, <1>3, <1>4, OthersIdle
<1>6. Bounds(highWater, remote)
  BY <1>2, OthersIdle DEF IdsInv, HighWaterInv
<1>7. HighWaterInv'
  BY <1>5, <1>6 DEF HighWaterInv, Bounds, Seen
<1>8. MarkInv'
  BY OpinionIdsAssumption DEF MarkInv
<1> QED BY <1>1, <1>5, <1>7, <1>8 DEF IdsInv, SettledInv

\* A start: nothing is owed, and what is checked out has been seen by the file.
LEMMA StartStep ==
    ASSUME TypeOK, RunsInv, OwedInv, IdsInv, IdsAreKept, NEW r \in Runs, Start(r)
    PROVE  IdsInv'
<1>1. /\ status[r] = "new"
      /\ local' = remote /\ remote' = remote /\ highWater' = highWater /\ busy' = r
      /\ status' = [status EXCEPT ![r] = "running_agent"]
      /\ phase' = [phase EXCEPT ![r] = "agent_editing"]
      /\ base'[r].highWater = highWater
  BY DEF Start, Capture, SetStatus, SetPhase, TypeOK
<1>2. \A q \in Runs : ~Running(q) /\ ~Owed(q)
  BY DEF Start, Active, Unreconciled, Running, Owed, IdsAreKept, NobodyIsEarly
<1>3. /\ status'[r] = "running_agent" /\ phase'[r] = "agent_editing"
      /\ \A q \in Runs \ {r} : status'[q] = status[q] /\ phase'[q] = phase[q]
  BY <1>1 DEF TypeOK
<1>4. ~By(r, remote)
  BY <1>1 DEF RunsInv, CommitsOf
<1>5. \A q \in Runs \ {r} : ~Settled(q)' /\ ~Excused(q)' /\ ~Running(q)'
  BY <1>2, <1>3 DEF Settled, HasCommitted, Excused, Running, Owed
<1>6. FreshIn(local)' /\ FreshIn(remote)'
  BY <1>1 DEF IdsInv, FreshIn, Seen
<1>7. ~Settled(r)'
  BY <1>1, <1>3, <1>4 DEF Settled, HasCommitted, Owed, Running
<1>8. HighWaterInv'
  <2>1. Bounds(highWater, remote)
    BY <1>2 DEF IdsInv, HighWaterInv, Excused
  <2> QED BY <1>1, <1>5, <2>1 DEF HighWaterInv, Bounds, Seen
<1>9. MarkInv'
  BY <1>1, <1>3 DEF MarkInv
<1> QED BY <1>5, <1>6, <1>7, <1>8, <1>9 DEF IdsInv, SettledInv

\* Edits touch no id that counts: nothing is settled before the commit.
LEMMA EditStep ==
    ASSUME TypeOK, RunsInv, OwedInv, IdsInv, NEW r \in Runs, busy = r, phase[r] = "agent_editing",
           UNCHANGED <<local, remote, highWater, status, phase, base, mark, busy>>
    PROVE  IdsInv'
<1>1. \A q \in Runs : ~Settled(q)
  BY BusyIsLive, BeforeCommit
<1>2. FreshIn(local)' /\ FreshIn(remote)' /\ HighWaterInv'
  BY DEF IdsInv, Running, Owed, By, FreshIn, Seen, HighWaterInv, Settled, HasCommitted, Excused,
     Bounds
<1>3. \A q \in Runs : ~Settled(q)'
  BY <1>1 DEF Running, By, Settled, HasCommitted, Owed
<1> QED BY <1>2, <1>3 DEF IdsInv, SettledInv, MarkInv

\* The ids that a run adds are past the mark of the file, and up to its own.
LEMMA DoneStep ==
    ASSUME TypeOK, RunsInv, OwedInv, IdsInv, NEW r \in Runs, Done(r)
    PROVE  IdsInv'
<1>1. /\ busy = r /\ phase[r] = "agent_editing" /\ mark' = NextHighWater
      /\ UNCHANGED <<local, remote, tree, highWater, status, base, busy>>
      /\ phase' = [phase EXCEPT ![r] = "commit_intent"]
  BY DEF Done, SetPhase, files
<1>2. Running(r)
  BY <1>1, BusyIsLive
<1>3. /\ ~By(r, local) /\ ~By(r, remote) /\ Bounds(highWater, local) /\ Bounds(highWater, remote)
      /\ \A q \in Runs : ~Settled(q) /\ ~Excused(q)
  BY <1>1, <1>2, BeforeCommit
<1>4. phase'[r] = "commit_intent" /\ \A q \in Runs \ {r} : phase'[q] = phase[q]
  BY <1>1 DEF TypeOK
<1>5. FreshIn(local)' /\ FreshIn(remote)'
  BY <1>1 DEF IdsInv, FreshIn, Seen
<1>6. \A q \in Runs : ~Settled(q)'
  BY <1>1, <1>2, <1>3, <1>4 DEF Settled, HasCommitted, Owed, Running, By
<1>7. HighWaterInv'
  BY <1>1, <1>2, <1>3, <1>4 DEF IdsInv, HighWaterInv, Running, Bounds, Seen
<1>8. MarkInv'
  <2>1. /\ IdsOf(HeadDoc) \cup IdsOf(tree) \cup {highWater} \in SUBSET (0..MaxId)
        /\ IdsOf(HeadDoc) \cup {highWater} \in SUBSET (0..MaxId)
    BY NextHighWaterType
  <2>2. \A id \in IdsOf(HeadDoc) \cup IdsOf(tree) \cup {highWater} : id <= NextHighWater
    BY <2>1, HighestIs DEF NextHighWater
  <2>3. Reached \in 0..MaxId /\ highWater <= Reached
    BY <2>1, HighestIs DEF Reached
  <2>4. \A id \in IdsOf(tree) \ IdsOf(HeadDoc) : id > Reached
    BY DEF Done, Valid, IdsFresh, Reached
  <2>5. \A id \in IdsOf(tree) \ IdsOf(HeadDoc) : id > highWater
    BY <2>1, <2>3, <2>4
  <2> QED BY <1>1, <1>4, <2>2, <2>5 DEF MarkInv, HeadDoc
<1> QED BY <1>5, <1>6, <1>7, <1>8 DEF IdsInv, SettledInv

\* The commit: the new ids have not been seen, and the run is settled.
LEMMA CommitStep ==
    ASSUME TypeOK, RunsInv, OwedInv, IdsInv, NEW r \in Runs, Commit(r)
    PROVE  IdsInv'
<1> DEFINE new == [by |-> r, doc |-> tree]
<1>1. /\ busy = r /\ phase[r] = "commit_intent"
      /\ UNCHANGED <<remote, tree, highWater, status, base>>
      /\ \/ local' = local /\ tree = HeadDoc
         \/ local' = Append(local, new)
      /\ \/ phase' = [phase EXCEPT ![r] = "committed"] /\ UNCHANGED <<busy, mark>>
         \/ phase' = phase /\ busy' = Idle
  BY DEF Commit, Clean, SetPhase, Dies, Leave
<1>2. new \in Version /\ new.by = r /\ new.doc = tree
  BY DEF Version, TypeOK
<1> HIDE DEF new
<1>3. Running(r) /\ Open(r)
  BY <1>1, BusyIsLive DEF Open
<1>4. /\ ~By(r, local) /\ ~By(r, remote)
      /\ Bounds(highWater, local) /\ Bounds(highWater, remote)
  BY <1>1, <1>3, BeforeCommit
<1>5. /\ \A id \in IdsOf(HeadDoc) \cup IdsOf(tree) \cup {highWater} : id <= mark
      /\ \A id \in IdsOf(tree) \ IdsOf(HeadDoc) : id > highWater
  BY <1>1 DEF IdsInv, MarkInv
<1>6. HeadDoc' = tree
  <2>1. CASE local' = local /\ tree = HeadDoc
    BY <2>1 DEF HeadDoc
  <2>2. CASE local' = Append(local, new)
    BY <1>2, <2>2, AppendedBy DEF HeadDoc, TypeOK
  <2> QED BY <1>1, <2>1, <2>2
<1>7. FreshIn(local')
  <2>1. CASE local' = local
    BY <2>1 DEF IdsInv
  <2>2. CASE local' = Append(local, new)
    <3>1. ASSUME NEW id \in IdsOf(new.doc) \ IdsOf(Last(local).doc), NEW i \in Seen(local)
          PROVE  id \notin IdsOf(local[i].doc)
      <4>1. id \in Nat /\ highWater \in Nat /\ id > highWater
        BY <1>2, <1>5, <3>1, IdsType, BoundTypes DEF HeadDoc, Ids, TypeOK
      <4> QED BY <1>4, <4>1 DEF Bounds
    <3> QED BY <1>2, <2>2, <3>1, FreshAppend DEF IdsInv, TypeOK
  <2> QED BY <1>1, <2>1, <2>2
<1>8. /\ highWater \in Nat /\ Reached' \in Nat /\ highWater <= Reached'
      /\ \A id \in IdsOf(tree) : id <= Reached'
  <2>1. IdsOf(tree) \cup {highWater} \in SUBSET (0..MaxId)
    BY NextHighWaterType
  <2>2. Reached' = Highest(IdsOf(tree) \cup {highWater})
    BY <1>1, <1>6 DEF Reached
  <2> QED BY <2>1, <2>2, HighestIs
<1>9. Bounds(Reached', local') /\ Bounds(Reached', remote)
  <2>1. Bounds(Reached', local) /\ Bounds(Reached', remote)
    BY <1>4, <1>8, BoundsMono DEF TypeOK
  <2>2. Bounds(Reached', Append(local, new))
    BY <1>2, <1>8, <2>1, BoundsAppend DEF TypeOK
  <2> QED BY <1>1, <2>1, <2>2
<1>10. /\ Running(r)' /\ phase'[r] \in {"commit_intent", "committed"}
       /\ busy' \in {r, Idle} /\ (busy' = r => phase'[r] = "committed")
       /\ \A q \in Runs \ {r} : status'[q] = status[q] /\ phase'[q] = phase[q]
  BY <1>1, <1>3, OpinionIdsAssumption DEF TypeOK, Running
<1>11. \A q \in Runs \ {r} : ~Excused(q) /\ ~Settled(q)' /\ ~Excused(q)' /\ ~Running(q)'
  BY <1>3, <1>10, OthersIdle
<1>12. FreshIn(local)' /\ FreshIn(remote)'
  BY <1>1, <1>7 DEF IdsInv, FreshIn, Seen
<1>13. \A q \in Runs : SettledInv(q)'
  BY <1>1, <1>9, <1>11 DEF SettledInv
<1>14. HighWaterInv'
  <2>1. Running(r)' /\ ~Settled(r)' => local' = local
    <3>1. By(r, Append(local, new))
      BY <1>2, AppendedBy DEF TypeOK
    <3> QED BY <1>1, <3>1 DEF Settled, HasCommitted
  <2>2. base[r].highWater = highWater
    BY <1>1, <1>3 DEF IdsInv, HighWaterInv
  <2> QED BY <1>1, <1>4, <1>11, <2>1, <2>2 DEF HighWaterInv
<1>15. MarkInv'
  BY <1>1, <1>5, <1>6, <1>10, OpinionIdsAssumption DEF MarkInv
<1> QED BY <1>12, <1>13, <1>14, <1>15 DEF IdsInv

\* The push: now the ids of the run may be published and not in the file.
LEMMA PushStep ==
    ASSUME TypeOK, RunsInv, OwedInv, IdsInv, NEW r \in Runs, Push(r)
    PROVE  IdsInv'
<1>1. /\ busy = r /\ phase[r] = "committed"
      /\ UNCHANGED <<local, tree, highWater, status, base>>
      /\ remote' = IF By(r, local) THEN local ELSE remote
      /\ \/ phase' = [phase EXCEPT ![r] = "pushed"] /\ UNCHANGED <<busy, mark>>
         \/ phase' = phase /\ busy' = Idle
  BY DEF Push, SetPhase, Dies, Leave
<1>2. Running(r) /\ Open(r) /\ Settled(r)
  BY <1>1, BusyIsLive DEF Open, Settled, HasCommitted
<1>3. ~By(r, remote)
  BY <1>1, <1>2 DEF RunsInv, CommitsOf
<1>4. /\ Running(r)' /\ phase'[r] \in {"committed", "pushed"}
      /\ busy' \in {r, Idle} /\ (busy' = r => phase'[r] = "pushed")
      /\ \A q \in Runs \ {r} : status'[q] = status[q] /\ phase'[q] = phase[q]
  BY <1>1, <1>2, OpinionIdsAssumption DEF TypeOK, Running
<1>5. \A q \in Runs \ {r} : ~Excused(q) /\ ~Settled(q)' /\ ~Excused(q)' /\ ~Running(q)'
  BY <1>2, <1>4, OthersIdle
<1>6. FreshIn(local)' /\ FreshIn(remote)'
  BY <1>1 DEF IdsInv, FreshIn, Seen
<1>7. \A q \in Runs : SettledInv(q)'
  BY <1>1, <1>2, <1>5 DEF IdsInv, SettledInv, Reached, HeadDoc
<1>8. HighWaterInv'
  <2>1. ASSUME ~Excused(r)' PROVE Bounds(highWater, remote')
    <3>1. remote' = remote
      BY <1>1, <1>4, <2>1 DEF Excused, Running
    <3>2. \A q \in Runs : ~Excused(q)
      BY <1>1, <1>2, <1>3, <1>5 DEF Excused, Owed, Running
    <3> QED BY <3>1, <3>2 DEF IdsInv, HighWaterInv
  <2>2. Settled(r)'
    BY <1>4 DEF Settled, HasCommitted
  <2>3. base[r].highWater = highWater
    BY <1>1, <1>2 DEF IdsInv, HighWaterInv
  <2> QED BY <1>1, <1>5, <2>1, <2>2, <2>3 DEF HighWaterInv
<1>9. MarkInv'
  BY <1>1, <1>4, OpinionIdsAssumption DEF IdsInv, MarkInv, HeadDoc
<1> QED BY <1>6, <1>7, <1>8, <1>9 DEF IdsInv

\* A settled run is completed, or goes on owing its completion: the ids are in the
\* file, or remain within those of HEAD and the file.
LEMMA SettledStep ==
    ASSUME TypeOK, RunsInv, OwedInv, IdsInv, NEW r \in Runs, Settled(r),
           UNCHANGED <<local, base>>, remote' \in {local, remote}, busy' = Idle,
           highWater' \in Nat, highWater' >= highWater,
           \A q \in Runs \ {r} : status'[q] = status[q] /\ phase'[q] = phase[q],
           \/ status'[r] = "completed" /\ highWater' >= Reached
           \/ /\ phase'[r] = "pushed" /\ remote' = remote
              /\ status'[r] \in {"running_agent", "failed"}
              /\ Bounds(Reached', local) /\ Bounds(Reached', remote)
    PROVE  IdsInv'
<1>1. Open(r)
  BY DEF Open, Settled, HasCommitted, Live
<1>2. \A q \in Runs \ {r} : ~Settled(q)' /\ ~Excused(q)' /\ ~Running(q)'
  BY <1>1, OthersIdle
<1>3. FreshIn(local)' /\ FreshIn(remote)'
  BY DEF IdsInv, FreshIn, Seen
<1>4. MarkInv'
  BY OpinionIdsAssumption DEF MarkInv
<1>5. Bounds(Reached, local) /\ Bounds(Reached, remote)
  BY DEF IdsInv, SettledInv
<1>6. CASE status'[r] = "completed" /\ highWater' >= Reached
  <2>1. ~Settled(r)' /\ ~Excused(r)' /\ ~Running(r)'
    BY <1>6 DEF Settled, HasCommitted, Excused, Running, Owed
  <2>2. Bounds(highWater', remote')
    BY <1>5, <1>6, BoundTypes, BoundsMono
  <2>3. HighWaterInv'
    BY <1>2, <2>1, <2>2 DEF HighWaterInv
  <2> QED BY <1>2, <1>3, <1>4, <2>1, <2>3 DEF IdsInv, SettledInv
<1>7. CASE /\ phase'[r] = "pushed" /\ remote' = remote
           /\ status'[r] \in {"running_agent", "failed"}
           /\ Bounds(Reached', local) /\ Bounds(Reached', remote)
  <2>1. Settled(r)' /\ Excused(r)'
    BY <1>7 DEF Settled, HasCommitted, Excused, Running, Owed
  <2>2. HighWaterInv'
    BY <1>2, <1>7, <2>1 DEF HighWaterInv
  <2> QED BY <1>2, <1>3, <1>4, <1>7, <2>2 DEF IdsInv, SettledInv
<1> QED BY <1>6, <1>7

\* The completion of a run that pushed covers its ids.
LEMMA CompleteStep ==
    ASSUME TypeOK, RunsInv, OwedInv, IdsInv, NEW r \in Runs, Complete(r) \/ CompleteFails(r)
    PROVE  IdsInv'
<1>1. /\ busy = r /\ phase[r] = "pushed"
      /\ UNCHANGED <<local, tree, remote, base>> /\ busy' = Idle
      /\ highWater' = Highest({highWater, mark}) \/ highWater' = highWater
      /\ \/ /\ highWater' = Highest({highWater, mark})
            /\ status' = [status EXCEPT ![r] = "completed"]
            /\ phase' = [phase EXCEPT ![r] = "completed"]
         \/ phase' = phase /\ status' \in {status, [status EXCEPT ![r] = "failed"]}
  BY DEF Complete, CompleteFails, SetStatus, SetPhase, Leave, Dies, UpdateHighWater, files
<1>2. Running(r) /\ Settled(r)
  BY <1>1, BusyIsLive DEF Settled, HasCommitted
<1>3. \A id \in IdsOf(HeadDoc) \cup {highWater} : id <= mark
  BY <1>1 DEF IdsInv, MarkInv
<1>4. highWater \in 0..MaxId /\ mark \in 0..MaxId
  BY DEF TypeOK
<1>5. /\ Highest({highWater, mark}) \in 0..MaxId
      /\ highWater <= Highest({highWater, mark}) /\ mark <= Highest({highWater, mark})
  BY <1>4, HighestIs
<1>6. highWater' \in 0..MaxId /\ highWater' >= highWater
  BY <1>1, <1>4, <1>5
<1>7. highWater' = Highest({highWater, mark}) => highWater' >= Reached
  <2>1. Reached <= mark
    BY <1>3, BoundTypes
  <2> QED BY <1>4, <1>5, <2>1, BoundTypes
<1>8. /\ \A q \in Runs \ {r} : status'[q] = status[q] /\ phase'[q] = phase[q]
      /\ \/ status'[r] = "completed" /\ highWater' = Highest({highWater, mark})
         \/ phase'[r] = "pushed" /\ status'[r] \in {"running_agent", "failed"}
  BY <1>1, <1>2 DEF TypeOK, Running
<1>9. Bounds(Reached', local) /\ Bounds(Reached', remote)
  <2>1. IdsOf(HeadDoc) \cup {highWater} \in SUBSET (0..MaxId)
        /\ IdsOf(HeadDoc) \cup {highWater'} \in SUBSET (0..MaxId)
    BY <1>6, NextHighWaterType
  <2>2. Reached' = Highest(IdsOf(HeadDoc) \cup {highWater'})
    BY <1>1 DEF Reached, HeadDoc
  <2>3. /\ Reached' \in 0..MaxId /\ highWater' <= Reached'
        /\ \A id \in IdsOf(HeadDoc) : id <= Reached'
    BY <2>1, <2>2, HighestIs
  <2>4. Reached <= Reached'
    BY <1>4, <1>6, <2>3, BoundTypes
  <2>5. Bounds(Reached, local) /\ Bounds(Reached, remote)
    BY <1>2 DEF IdsInv, SettledInv
  <2> QED BY <2>3, <2>4, <2>5, BoundTypes, BoundsMono
<1> QED BY <1>1, <1>2, <1>6, <1>7, <1>8, <1>9, SettledStep

\* The file then covers what the run has published.
LEMMA ReconcileStep ==
    ASSUME TypeOK, RunsInv, OwedInv, IdsInv, NEW r \in Runs, ReconcileDurable(r)
    PROVE  IdsInv'
<1>1. Settled(r) /\ Valid(r)
  BY ReconcileSettled DEF Settled
<1>2. /\ busy = Idle /\ UNCHANGED <<local, tree, base, busy>> /\ remote' \in {local, remote}
      /\ highWater' = Highest({highWater, NextHighWater})
      /\ status' = [status EXCEPT ![r] = "completed"]
      /\ phase' = [phase EXCEPT ![r] = "completed"]
  BY <1>1 DEF ReconcileDurable, UpdateHighWater, SetStatus, SetPhase
<1>3. highWater' \in 0..MaxId /\ highWater' >= highWater /\ highWater' >= Reached
  <2>1. highWater \in 0..MaxId /\ NextHighWater \in 0..MaxId
    BY NextHighWaterType DEF TypeOK
  <2>2. /\ highWater' \in 0..MaxId /\ highWater' >= highWater
        /\ highWater' >= NextHighWater
    BY <1>2, <2>1, HighestIs
  <2>3. \A id \in IdsOf(HeadDoc) \cup {highWater} : id <= NextHighWater
    BY NextHighWaterType, HighestIs DEF NextHighWater
  <2>4. Reached <= NextHighWater
    BY <2>3, BoundTypes
  <2> QED BY <2>1, <2>2, <2>4, BoundTypes
<1>4. status'[r] = "completed"
      /\ \A q \in Runs \ {r} : status'[q] = status[q] /\ phase'[q] = phase[q]
  BY <1>2 DEF TypeOK
<1> QED BY <1>1, <1>2, <1>3, <1>4, SettledStep

\* Somebody else's version is none that the application has seen.
LEMMA OutsideStep ==
    ASSUME TypeOK, IdsInv, OutsidePush
    PROVE  IdsInv'
<1>1. PICK v \in Version : v.by = Owner /\ remote' = Append(remote, v)
  BY OutsideVersion
<1>2. UNCHANGED <<local, tree, highWater, status, phase, base, mark, busy>>
  BY DEF OutsidePush
<1>3. \A n \in Nat : Bounds(n, remote) => Bounds(n, remote')
  BY <1>1, BoundsAppend, OpinionIdsAssumption DEF TypeOK
<1>4. FreshIn(local') /\ FreshIn(remote')
  BY <1>1, <1>2, FreshAppend, OpinionIdsAssumption DEF IdsInv, TypeOK
<1>5. \A r \in Runs : By(r, remote') <=> By(r, remote)
  BY <1>1, AppendedBy, OpinionIdsAssumption DEF TypeOK
<1>6. \A r \in Runs : /\ Settled(r)' <=> Settled(r)
                      /\ Excused(r)' <=> Excused(r)
                      /\ Running(r)' <=> Running(r)
  BY <1>2, <1>5 DEF Settled, HasCommitted, Excused, Running, Owed
<1>7. \A r \in Runs : SettledInv(r)'
  BY <1>2, <1>3, <1>6, BoundTypes DEF IdsInv, SettledInv, Reached, HeadDoc
<1>8. HighWaterInv'
  BY <1>2, <1>3, <1>6, BoundTypes DEF IdsInv, HighWaterInv
<1>9. MarkInv'
  BY <1>2 DEF IdsInv, MarkInv, HeadDoc
<1> QED BY <1>4, <1>7, <1>8, <1>9 DEF IdsInv, FreshIn, Seen

\* At first the file covers the ids, and nobody runs.
LEMMA IdsInit == Init /\ FirstCovered => IdsInv
<1> SUFFICES ASSUME Init, FirstCovered PROVE IdsInv
  OBVIOUS
<1>1. /\ local = <<[by |-> Owner, doc |-> FirstDoc]>> /\ remote = local /\ busy = Idle
      /\ highWater = FirstHighWater
      /\ \A r \in Runs : status[r] = "new"
  BY DEF Init
<1>2. DOMAIN local = {1} /\ local[1].by = Owner /\ local[1].doc = FirstDoc
  BY <1>1
<1>3. \A r \in Runs : ~Settled(r) /\ ~Excused(r) /\ ~Running(r)
  BY <1>1 DEF Settled, HasCommitted, Excused, Running, Owed
<1>4. Bounds(highWater, remote)
  <2>1. IdsOf(FirstDoc) \in SUBSET (0..MaxId)
    BY IdsType, OpinionIdsAssumption DEF Ids
  <2>2. /\ Highest(IdsOf(FirstDoc)) \in 0..MaxId
        /\ \A id \in IdsOf(FirstDoc) : id \in 0..MaxId /\ id <= Highest(IdsOf(FirstDoc))
    BY <2>1, HighestIs
  <2>3. \A id \in IdsOf(FirstDoc) : id <= FirstHighWater
    BY <2>2, OpinionIdsAssumption DEF FirstCovered
  <2> QED BY <1>1, <1>2, <2>3 DEF Bounds, Seen
<1>5. FreshIn(local) /\ FreshIn(remote)
  BY <1>1, <1>2, OpinionIdsAssumption DEF FreshIn
<1>6. HighWaterInv /\ MarkInv
  BY <1>1, <1>3, <1>4, OpinionIdsAssumption DEF HighWaterInv, MarkInv
<1> QED BY <1>3, <1>5, <1>6 DEF IdsInv, SettledInv

\* Every step keeps the ids apart.
LEMMA IdsStep ==
    ASSUME IdsAreKept
    PROVE  TypeOK /\ RunsInv /\ OwedInv /\ IdsInv /\ [Next]_vars => IdsInv'
<1> SUFFICES ASSUME TypeOK, RunsInv, OwedInv, IdsInv, [Next]_vars PROVE IdsInv'
  OBVIOUS
<1>1. ASSUME NEW r \in Runs, TurnFails(r) \/ Rejected(r) PROVE IdsInv'
  <2>1. phase[r] = "agent_editing" /\ Running(r)
    BY <1>1, BusyIsLive DEF TurnFails, Rejected
  <2>2. ~Excused(r)
    BY <2>1, BeforeCommit
  <2>3. highWater' = highWater
    BY <1>1, <2>1 DEF TurnFails, Rejected, Restore, files, IdsInv, HighWaterInv
  <2>4. /\ UNCHANGED <<local, remote, highWater, phase, base>> /\ busy' = Idle
        /\ status' = [status EXCEPT ![r] = "failed"]
    BY <1>1, <2>3 DEF TurnFails, Rejected, Restore, files, SetStatus, Leave
  <2> QED BY <2>1, <2>2, <2>4, StopStep
<1>2. ASSUME NEW r \in Runs, PushRefused(r) PROVE IdsInv'
  <2>1. busy = r /\ phase[r] = "committed"
    BY <1>2 DEF PushRefused
  <2>2. Running(r) /\ ~Excused(r)
    BY <2>1, BusyIsLive DEF RunsInv, CommitsOf, Excused, Owed, Running
  <2>3. /\ UNCHANGED <<local, remote, highWater, phase, base>> /\ busy' = Idle
        /\ status' = [status EXCEPT ![r] = "failed"]
    BY <1>2 DEF PushRefused, files, SetStatus, Leave
  <2> QED BY <2>1, <2>2, <2>3, StopStep
<1>3. ASSUME NEW r \in Runs, ReconcileInterrupted(r) PROVE IdsInv'
  <2>1. Running(r) /\ phase[r] # "pushed" /\ ~Announced(r) /\ busy = Idle
    BY <1>3 DEF ReconcileInterrupted, Running
  <2>2. ~By(r, local) /\ ~By(r, remote)
    BY <2>1 DEF RunsInv, OneLive, CommitsOf, Announced, IsLast
  <2>3. ~Excused(r) /\ base[r].highWater = highWater
    BY <2>1, <2>2 DEF Excused, Owed, Running, IdsInv, HighWaterInv
  <2>4. /\ UNCHANGED <<local, remote, highWater, phase, base>> /\ busy' = Idle
        /\ status' = [status EXCEPT ![r] = "failed"]
    BY <1>3, <2>1, <2>3 DEF ReconcileInterrupted, Restore, SetStatus
  <2> QED BY <2>1, <2>3, <2>4, StopStep
<1>4. ASSUME NEW r \in Runs, Abandon(r) PROVE IdsInv'
  <2>1. Running(r) /\ phase[r] \notin {"committed", "pushed"} /\ busy = Idle
    BY <1>4 DEF Abandon, Running, IdsAreKept
  <2>2. ~Excused(r) /\ base[r].highWater = highWater
    BY <2>1 DEF Excused, Owed, Running, IdsInv, HighWaterInv, RunsInv, CommitsOf
  <2>3. /\ UNCHANGED <<local, remote, highWater, phase, base>> /\ busy' = Idle
        /\ status' = [status EXCEPT ![r] = "abandoned"]
    BY <1>4, <2>1, <2>2 DEF Abandon, Restore, files, SetStatus
  <2> QED BY <2>1, <2>2, <2>3, StopStep
<1>5. ASSUME NEW r \in Runs, Start(r) PROVE IdsInv'
  BY <1>5, StartStep
<1>6. ASSUME NEW r \in Runs, Edit(r) \/ DeterministicEdit(r) PROVE IdsInv'
  BY <1>6, EditStep DEF Edit, DeterministicEdit
<1>7. ASSUME NEW r \in Runs, Done(r) PROVE IdsInv'
  BY <1>7, DoneStep
<1>8. ASSUME NEW r \in Runs, Commit(r) PROVE IdsInv'
  BY <1>8, CommitStep
<1>9. ASSUME NEW r \in Runs, Push(r) PROVE IdsInv'
  BY <1>9, PushStep
<1>10. ASSUME NEW r \in Runs, Complete(r) \/ CompleteFails(r) PROVE IdsInv'
  BY <1>10, CompleteStep
<1>11. ASSUME NEW r \in Runs, ReconcileDurable(r) PROVE IdsInv'
  BY <1>11, ReconcileStep
<1>12. ASSUME OutsidePush PROVE IdsInv'
  BY <1>12, OutsideStep
<1>13. ASSUME UNCHANGED <<local, remote, tree, highWater, status, phase, base>>,
              busy' = Idle \/ (busy' = busy /\ mark' = mark)
       PROVE  IdsInv'
  <2>1. FreshIn(local)' /\ FreshIn(remote)' /\ HighWaterInv' /\ MarkInv'
    BY <1>13, OpinionIdsAssumption DEF IdsInv, FreshIn, Seen, Owed, Running, By, HighWaterInv,
       Excused, Settled, HasCommitted, Bounds, MarkInv, HeadDoc
  <2>2. \A r \in Runs : SettledInv(r)'
    BY <1>13 DEF IdsInv, SettledInv, Settled, HasCommitted, Running, Owed, By, Reached, HeadDoc,
       Bounds, Seen
  <2> QED BY <2>1, <2>2 DEF IdsInv
<1>14. ASSUME Crash PROVE IdsInv'
  BY <1>13, <1>14 DEF Crash, Leave, files
<1>15. CASE UNCHANGED vars
  BY <1>13, <1>15 DEF vars, files
<1> QED BY <1>1, <1>2, <1>3, <1>4, <1>5, <1>6, <1>7, <1>8, <1>9, <1>10, <1>11, <1>12,
           <1>14, <1>15 DEF Next

\* No id is given twice, through every failure, crash, restore and abandon, for any
\* number of runs and of pushes by others: if every run that is left without its
\* completion is completed before the next one starts, and none is abandoned after
\* its push.
THEOREM IdsStayApart ==
    ASSUME IdsAreKept
    PROVE  Spec => []IdsAreNeverReused
<1> DEFINE Kept == FirstCovered => IdsInv
<1>1. Init => Kept
  BY IdsInit
<1>2. TypeOK /\ RunsInv /\ OwedInv /\ Kept /\ [Next]_vars => Kept'
  <2>1. FirstCovered' <=> FirstCovered
    BY DEF FirstCovered
  <2> QED BY <2>1, IdsStep
<1>3. TypeOK /\ Kept => IdsAreNeverReused
  <2>1. SUFFICES ASSUME TypeOK, FreshIn(remote) PROVE IdsAreNeverReused
    BY DEF FirstCovered, IdsInv, IdsAreNeverReused
  <2>2. ASSUME NEW k \in DOMAIN remote, remote[k].by \in Runs,
               NEW id \in IdsOf(remote[k].doc) \ IdsOf(remote[k - 1].doc),
               NEW i \in 1..(k - 1), Known(i)
        PROVE  id \notin IdsOf(remote[i].doc)
    <3>1. DOMAIN remote = 1..Len(remote) /\ Len(remote) \in Nat
      BY DEF TypeOK
    <3>2. i \in DOMAIN remote
      BY <3>1
    <3>3. i \in Seen(remote)
      BY <2>2, <3>2 DEF Known, Seen
    <3> QED BY <2>1, <2>2, <3>3 DEF FreshIn
  <2> QED BY <2>2 DEF Before, IdsAreNeverReused
<1> HIDE DEF Kept
<1>4. NobodyIsEarly
  BY DEF IdsAreKept
<1> QED BY RunsInvariant, OwedInvariant, <1>1, <1>2, <1>3, <1>4, PTL DEF Spec
=============================================================================

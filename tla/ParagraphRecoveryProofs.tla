----------------------- MODULE ParagraphRecoveryProofs -----------------------
(***************************************************************************)
(* Proofs about ParagraphRecovery, for any paragraphs, configurations,     *)
(* budget and number of attempts and translations.                         *)
(***************************************************************************)
EXTENDS ParagraphRecovery, TLAPS

-----------------------------------------------------------------------------
(* The inductive invariant. *)

\* What a run has in memory is there only while it translates or reviews, and
\* the review has something to say only while it is under way.
Idle ==
    /\ run.phase \in {"none", "open"} => \A p \in Paragraphs : stage[p] = "new"
    /\ run.phase \in {"none", "open"} => \A p \in Paragraphs : current[p] = NoRow
    /\ run.phase # "review" => \A p \in Paragraphs : mark[p] = "none"
    /\ run.phase # "review" => cached = {}

\* Memory and file agree: on every row that is settled, and on the verdict in
\* the others.
MemoryIsFile ==
    \A p \in Paragraphs :
        /\ current[p].status \in {"succeeded", "failed"} => file.rows[p] = current[p]
        /\ run.phase \in {"work", "review"} =>
              /\ file.rows[p].quality = current[p].quality
              /\ file.rows[p].of = current[p].of

\* A worker asks only for what it cannot restore; a review looks only at what
\* was translated, and one paragraph at a time.
Asked ==
    /\ run.phase = "work" => \A p \in Paragraphs :
          stage[p] \in {"batch", "again", "single"} => ~Restorable(p)
    /\ \A p \in Paragraphs :
          mark[p] \notin {"none", "settled"} => current[p].status = "succeeded"
    /\ \A p, q \in Paragraphs :
          /\ mark[p] \in {"reserved", "asked", "corrected"}
          /\ mark[q] \in {"reserved", "asked", "corrected"}
          => p = q

WorkInv == Idle /\ MemoryIsFile /\ Asked

\* Texts are numbered as they come in: no row knows a later one.
TextsAreOld ==
    \A p \in Paragraphs :
        /\ current[p].text <= texts[p] /\ current[p].of <= texts[p]
        /\ \A f \in Fingerprints :
              Of(f).rows[p].text <= texts[p] /\ Of(f).rows[p].of <= texts[p]

\* What the run has in memory is the last good translation.
MemoryIsKept ==
    \A p \in Paragraphs :
        current[p].status = "succeeded" => kept[active][p] = current[p].text

\* What the review has found approved has been approved.
CachedIsApproved ==
    \A p \in cached :
        mark[p] \in {"none", "selected"} => <<p, current[p].text>> \in approved

\* Every request was reserved first.
Outstanding(f, a) ==
    IF /\ f = active /\ a = run.attempt
       /\ \E p \in Paragraphs : mark[p] = "reserved"
    THEN 1 ELSE 0

SentWasReserved ==
    \A f \in Fingerprints, a \in Attempts :
        sent[f][a] + Outstanding(f, a) <= Of(f).used[a]

Inv ==
    /\ TypeOK /\ WorkInv /\ TextsAreOld
    /\ MemoryIsKept /\ TranslationsKept
    /\ CachedIsApproved /\ ApprovalIsOfText
    /\ SentWasReserved

-----------------------------------------------------------------------------
(* Types. *)

LEMMA NoRowType == NoRow \in Row
BY BoundsAssumption DEF NoRow, Row, Texts

LEMMA EmptyType == Empty \in Generation
BY NoRowType, BoundsAssumption DEF Empty, Generation, Row

LEMMA InitType == Init => TypeOK
<1> SUFFICES ASSUME Init PROVE TypeOK OBVIOUS
<1>1. run \in [phase : Phase, attempt : Attempts]
  BY BoundsAssumption DEF Init, Phase, Attempts
<1>2. current \in [Paragraphs -> Row] BY NoRowType DEF Init
<1>3. texts \in [Paragraphs -> Texts] BY BoundsAssumption DEF Init, Texts
<1>4. kept \in [Fingerprints -> [Paragraphs -> Texts]]
  BY BoundsAssumption DEF Init, Texts
<1> QED
  BY <1>1, <1>2, <1>3, <1>4, EmptyType DEF Init, TypeOK, Stage, Mark

\* What is committed is a row.
LEMMA CommitType ==
    ASSUME TypeOK, NEW p \in Paragraphs, NEW row \in Row, Commit(p, row)
    PROVE  /\ active' \in Fingerprints /\ archive' \in [Fingerprints -> Generation]
           /\ file' \in Generation
           /\ current' \in [Paragraphs -> Row]
BY DEF TypeOK, Commit, Generation

LEMMA RecordedRow ==
    ASSUME NEW row \in Row, NEW text \in Texts
    PROVE  /\ [row EXCEPT !.status = "succeeded", !.text = text] \in Row
           /\ [row EXCEPT !.quality = "approved", !.of = row.text] \in Row
           /\ [row EXCEPT !.quality = "none", !.of = 0] \in Row
           /\ [row EXCEPT !.status = "failed"] \in Row
           /\ [row EXCEPT !.status = "failed", !.quality = "failed", !.of = 0] \in Row
<1>1. [row EXCEPT !.status = "succeeded", !.text = text] \in Row BY DEF Row
<1>2. [row EXCEPT !.quality = "approved", !.of = row.text] \in Row BY DEF Row
<1>3. 0 \in Texts BY BoundsAssumption DEF Texts
<1>4. [row EXCEPT !.quality = "none", !.of = 0] \in Row BY <1>3 DEF Row
<1>5. [row EXCEPT !.status = "failed"] \in Row BY DEF Row
<1>6. [row EXCEPT !.status = "failed", !.quality = "failed", !.of = 0] \in Row
  BY <1>3 DEF Row
<1> QED BY <1>1, <1>2, <1>4, <1>5, <1>6

LEMMA RegisteredType ==
    ASSUME NEW row \in Row
    PROVE  /\ Registered(row) \in Row
           /\ [NoRow EXCEPT !.status = "pending", !.quality = row.quality,
                            !.of = row.of] \in Row
<1> DEFINE row2 == [NoRow EXCEPT !.status = "pending", !.quality = row.quality,
                                 !.of = row.of]
<1>1. row2 \in Row BY NoRowType DEF Row
<1> QED BY <1>1 DEF Registered

\* The variables of the workers and of the review are where Goes and Judges
\* leave them.
LEMMA MovesType ==
    ASSUME TypeOK, NEW p \in Paragraphs
    PROVE  /\ \A from, to \in Stage : Goes(p, from, to) =>
                 /\ stage' \in [Paragraphs -> Stage]
                 /\ run' = run /\ mark' = mark /\ cached' = cached
           /\ \A from \in SUBSET Mark, to \in Mark : Judges(p, from, to) =>
                 /\ mark' \in [Paragraphs -> Mark]
                 /\ run' = run /\ stage' = stage /\ cached' = cached
BY DEF TypeOK, Goes, Judges

LEMMA SucceedsType ==
    ASSUME TypeOK, NEW p \in Paragraphs, NEW text \in Texts, Succeeds(p, text)
    PROVE  /\ active' \in Fingerprints /\ archive' \in [Fingerprints -> Generation]
           /\ file' \in Generation
           /\ current' \in [Paragraphs -> Row]
           /\ kept' \in [Fingerprints -> [Paragraphs -> Texts]]
<1>1. current[p] \in Row BY DEF TypeOK
<1>2. kept' \in [Fingerprints -> [Paragraphs -> Texts]] BY DEF TypeOK, Succeeds
<1> QED BY <1>1, <1>2, RecordedRow, CommitType DEF Succeeds

LEMMA VerdictType ==
    ASSUME TypeOK, NEW p \in Paragraphs, Approves(p) \/ Leaves(p)
    PROVE  /\ active' \in Fingerprints /\ archive' \in [Fingerprints -> Generation]
           /\ file' \in Generation
           /\ current' \in [Paragraphs -> Row]
<1>1. current[p] \in Row BY DEF TypeOK
<1>2. 0 \in Texts BY BoundsAssumption DEF Texts
<1> QED BY <1>1, <1>2, RecordedRow, CommitType DEF Approves, Leaves

LEMMA NextText ==
    ASSUME TypeOK, NEW p \in Paragraphs, texts[p] < MaxTexts
    PROVE  /\ texts[p] + 1 \in Texts
           /\ [texts EXCEPT ![p] = @ + 1] \in [Paragraphs -> Texts]
<1>1. texts[p] + 1 \in Texts BY BoundsAssumption DEF TypeOK, Texts
<1> QED BY <1>1 DEF TypeOK

LEMMA TypeStep == TypeOK /\ [Next]_vars => TypeOK'
<1> SUFFICES ASSUME TypeOK, [Next]_vars PROVE TypeOK' OBVIOUS
<1> USE DEF TypeOK
<1>1. CASE UNCHANGED vars BY <1>1 DEF vars, store, work, history
<1>2. ASSUME NEW f \in Fingerprints, NEW attempt \in Attempts, Open(f, attempt)
      PROVE  TypeOK'
  <2>1. archive' \in [Fingerprints -> Generation] /\ file' \in Generation
    BY <1>2 DEF Open, Archived
  <2>2. run' \in [phase : Phase, attempt : Attempts] BY <1>2 DEF Open, Phase
  <2> QED BY <1>2, <2>1, <2>2 DEF Open, work, history
<1>3. CASE Register
  <2>1. \A p \in Paragraphs : file.rows[p] \in Row BY DEF Generation
  <2>2. [p \in Paragraphs |-> Registered(file.rows[p])] \in [Paragraphs -> Row]
    BY <2>1, RegisteredType
  <2>3. file' = [file EXCEPT !.rows = [p \in Paragraphs |-> Registered(file.rows[p])]]
    BY <1>3 DEF Register
  <2>4. file' \in Generation BY <2>2, <2>3 DEF Generation
  <2>5. current' \in [Paragraphs -> Row] BY <1>3, <2>1, RegisteredType DEF Register
  <2>6. run' \in [phase : Phase, attempt : Attempts] BY <1>3 DEF Register, Phase
  <2> QED BY <1>3, <2>4, <2>5, <2>6 DEF Register, work, history
<1>4. ASSUME Over PROVE /\ run' \in [phase : Phase, attempt : Attempts]
                        /\ current' \in [Paragraphs -> Row]
                        /\ stage' \in [Paragraphs -> Stage]
                        /\ mark' \in [Paragraphs -> Mark]
                        /\ cached' \subseteq Paragraphs
  BY <1>4, NoRowType DEF Over, Phase, Stage, Mark
<1>5. CASE End BY <1>4, <1>5 DEF End, store, history
<1>6. CASE StartReview
  BY <1>6 DEF StartReview, store, history, Phase, Candidates
<1>7. CASE Finish
  <2>1. \A p \in Paragraphs : [current[p] EXCEPT !.status = "failed"] \in Row
    BY RecordedRow, BoundsAssumption DEF Texts
  <2>2. file' \in Generation BY <1>7, <2>1 DEF Finish, Generation
  <2>3. kept' \in [Fingerprints -> [Paragraphs -> Texts]]
    BY <1>7, BoundsAssumption DEF Finish, Texts
  <2> QED BY <1>4, <1>7, <2>2, <2>3 DEF Finish
<1>8. ASSUME NEW p \in Paragraphs, Translate(p) PROVE TypeOK'
  <2> USE MovesType DEF Stage
  <2>1. CASE Restore(p)
    <3>1. file.rows[p].text \in Texts BY DEF Generation, Row
    <3> QED BY <2>1, <3>1, SucceedsType DEF Restore
  <2>2. CASE Ask(p) BY <2>2 DEF Ask, store, history
  <2>3. CASE Overlook(p) BY <2>3 DEF Overlook, store, history
  <2>4. CASE Answer(p) BY <2>4, SucceedsType, NextText DEF Answer
  <2>5. CASE Reject(p) BY <2>5 DEF Reject, store, history
  <2>6. CASE Fail(p)
    <3>1. [current[p] EXCEPT !.status = "failed"] \in Row
      BY RecordedRow, BoundsAssumption DEF Texts
    <3> QED BY <2>6, <3>1, CommitType DEF Fail, history
  <2> QED BY <1>8, <2>1, <2>2, <2>3, <2>4, <2>5, <2>6 DEF Translate
<1>9. ASSUME NEW p \in Paragraphs, Review(p) PROVE TypeOK'
  <2> USE MovesType DEF Mark
  <2>1. CASE Select(p) BY <2>1, VerdictType DEF Select, history
  <2>2. CASE ApproveCached(p) BY <2>2, VerdictType DEF ApproveCached, history
  <2>3. CASE Reserve(p)
    <3> DEFINE a == run.attempt
    <3>1. a \in Attempts /\ file.used \in [Attempts -> 0..Limit]
      BY DEF Generation
    <3>2. file.used[a] + 1 \in 0..Limit
      BY <2>3, <3>1, BoundsAssumption DEF Reserve
    <3>3. [file.used EXCEPT ![a] = @ + 1] \in [Attempts -> 0..Limit] BY <3>1, <3>2
    <3>4. file' = [file EXCEPT !.used = [file.used EXCEPT ![a] = @ + 1]]
      BY <2>3 DEF Reserve
    <3>5. file' \in Generation BY <3>3, <3>4 DEF Generation
    <3> QED BY <2>3, <3>5 DEF Reserve, history
  <2>4. CASE Exhausted(p) BY <2>4, VerdictType DEF Exhausted, history
  <2>5. CASE Send(p) BY <2>5 DEF Send, store
  <2>6. CASE Pass(p) BY <2>6, VerdictType DEF Pass, Row
  <2>7. CASE Correct(p) BY <2>7, SucceedsType, NextText DEF Correct
  <2>8. CASE Corrected(p) BY <2>8, VerdictType DEF Corrected, Row
  <2>9. CASE Uncheck(p) BY <2>9, VerdictType DEF Uncheck, history
  <2>10. CASE Condemn(p)
    <3>1. 0 \in Texts BY BoundsAssumption DEF Texts
    <3>2. [current[p] EXCEPT !.status = "failed", !.quality = "failed", !.of = 0] \in Row
      BY <3>1, RecordedRow
    <3> QED BY <2>10, <3>1, <3>2, CommitType DEF Condemn
  <2> QED BY <1>9, <2>1, <2>2, <2>3, <2>4, <2>5, <2>6, <2>7, <2>8, <2>9, <2>10
          DEF Review
<1> QED BY <1>1, <1>2, <1>3, <1>5, <1>6, <1>7, <1>8, <1>9 DEF Next

\* Every variable keeps its type.
THEOREM TypeCorrect == Spec => []TypeOK
BY InitType, TypeStep, PTL DEF Spec

-----------------------------------------------------------------------------
(* What the actions write. *)

\* A row is recorded in memory and in the file, and nothing else is.
Records(p, status, text, quality, of) ==
    /\ active' = active /\ archive' = archive /\ file'.used = file.used
    /\ \A q \in Paragraphs \ {p} :
          file'.rows[q] = file.rows[q] /\ current'[q] = current[q]
    /\ file'.rows[p] = current'[p]
    /\ current'[p].status = status /\ current'[p].text = text
    /\ current'[p].quality = quality /\ current'[p].of = of

\* No row is.
RecordsNothing ==
    /\ active' = active /\ archive' = archive
    /\ file'.rows = file.rows /\ current' = current

\* _commit writes through, unless the paragraph is still pending.
LEMMA Recording ==
    ASSUME TypeOK, NEW p \in Paragraphs, NEW row \in Row, row.status # "pending",
           Commit(p, row)
    PROVE  Records(p, row.status, row.text, row.quality, row.of)
<1>1. file' = [file EXCEPT !.rows = [file.rows EXCEPT ![p] = row]] BY DEF Commit
<1>2. file'.rows = [file.rows EXCEPT ![p] = row] /\ file'.used = file.used
  BY <1>1 DEF TypeOK, Generation
<1>3. current' = [current EXCEPT ![p] = row] BY DEF Commit
<1>4. file.rows \in [Paragraphs -> Row] /\ current \in [Paragraphs -> Row]
  BY DEF TypeOK, Generation
<1> QED BY <1>2, <1>3, <1>4 DEF Commit, Records

LEMMA RecordingOutput ==
    ASSUME TypeOK, NEW p \in Paragraphs, NEW text \in Texts, Succeeds(p, text)
    PROVE  Records(p, "succeeded", text, current[p].quality, current[p].of)
<1> DEFINE row == [current[p] EXCEPT !.status = "succeeded", !.text = text]
<1>1. current[p] \in Row BY DEF TypeOK
<1>2. row \in Row BY <1>1, RecordedRow
<1>3. /\ row.status = "succeeded" /\ row.text = text
      /\ row.quality = current[p].quality /\ row.of = current[p].of
  BY <1>1 DEF Row
<1>4. Commit(p, row) BY DEF Succeeds
<1> HIDE DEF row
<1> QED BY <1>2, <1>3, <1>4, Recording

LEMMA RecordingVerdict ==
    ASSUME TypeOK, NEW p \in Paragraphs, current[p].status = "succeeded"
    PROVE  /\ Approves(p) => Records(p, "succeeded", current[p].text, "approved", current[p].text)
           /\ Leaves(p) => Records(p, "succeeded", current[p].text, "none", 0)
<1> DEFINE yes == [current[p] EXCEPT !.quality = "approved", !.of = current[p].text]
           no == [current[p] EXCEPT !.quality = "none", !.of = 0]
<1>1. current[p] \in Row BY DEF TypeOK
<1>0. 0 \in Texts BY BoundsAssumption DEF Texts
<1>2. yes \in Row /\ no \in Row BY <1>0, <1>1, RecordedRow
<1>3. /\ yes.status = "succeeded" /\ yes.text = current[p].text
      /\ yes.quality = "approved" /\ yes.of = current[p].text
  BY <1>1 DEF Row
<1>4. /\ no.status = "succeeded" /\ no.text = current[p].text
      /\ no.quality = "none" /\ no.of = 0
  BY <1>1 DEF Row
<1>5. Approves(p) => Commit(p, yes) BY DEF Approves
<1>6. Leaves(p) => Commit(p, no) BY DEF Leaves
<1> HIDE DEF yes, no
<1>7. Approves(p) => Records(p, yes.status, yes.text, yes.quality, yes.of)
  BY <1>2, <1>3, <1>5, Recording
<1>8. Leaves(p) => Records(p, no.status, no.text, no.quality, no.of)
  BY <1>2, <1>4, <1>6, Recording
<1> QED BY <1>3, <1>4, <1>7, <1>8

\* The actions of the workers ...
LEMMA TranslateWrites ==
    ASSUME TypeOK, NEW p \in Paragraphs
    PROVE  /\ Restore(p) => Records(p, "succeeded", file.rows[p].text, current[p].quality,
                                    current[p].of)
           /\ Answer(p) => Records(p, "succeeded", texts[p] + 1, current[p].quality,
                                   current[p].of)
           /\ Fail(p) => Records(p, "failed", current[p].text, current[p].quality,
                                 current[p].of)
           /\ Ask(p) \/ Overlook(p) \/ Reject(p) => RecordsNothing /\ file' = file
<1>1. ASSUME Restore(p) PROVE Records(p, "succeeded", file.rows[p].text,
                                      current[p].quality, current[p].of)
  <2>1. file.rows[p].text \in Texts BY DEF TypeOK, Generation, Row
  <2> QED BY <1>1, <2>1, RecordingOutput DEF Restore
<1>2. ASSUME Answer(p) PROVE Records(p, "succeeded", texts[p] + 1,
                                     current[p].quality, current[p].of)
  <2>1. texts[p] + 1 \in Texts BY <1>2, NextText DEF Answer
  <2> QED BY <1>2, <2>1, RecordingOutput DEF Answer
<1>3. ASSUME Fail(p) PROVE Records(p, "failed", current[p].text,
                                   current[p].quality, current[p].of)
  <2> DEFINE row == [current[p] EXCEPT !.status = "failed"]
  <2>1. current[p] \in Row BY DEF TypeOK
  <2>0. 0 \in Texts BY BoundsAssumption DEF Texts
  <2>2. row \in Row BY <2>0, <2>1, RecordedRow
  <2>3. /\ row.status = "failed" /\ row.text = current[p].text
        /\ row.quality = current[p].quality /\ row.of = current[p].of
    BY <2>1 DEF Row
  <2>4. Commit(p, row) BY <1>3 DEF Fail
  <2> HIDE DEF row
  <2> QED BY <2>2, <2>3, <2>4, Recording
<1>4. Ask(p) \/ Overlook(p) \/ Reject(p) => RecordsNothing /\ file' = file
  BY DEF Ask, Overlook, Reject, RecordsNothing, store
<1> QED BY <1>1, <1>2, <1>3, <1>4

\* ... and of the review, which looks at what was translated.
LEMMA ReviewWrites ==
    ASSUME TypeOK, Asked, NEW p \in Paragraphs
    PROVE  /\ ApproveCached(p) \/ Pass(p) \/ Corrected(p) =>
                 Records(p, "succeeded", current[p].text, "approved", current[p].text)
           /\ Select(p) \/ Exhausted(p) \/ Uncheck(p) =>
                 Records(p, "succeeded", current[p].text, "none", 0)
           /\ Correct(p) => Records(p, "succeeded", texts[p] + 1, current[p].quality,
                                    current[p].of)
           /\ Condemn(p) => Records(p, "failed", current[p].text, "failed", 0)
           /\ Reserve(p) \/ Send(p) => RecordsNothing
           /\ Send(p) => file' = file
           /\ Review(p) => current[p].status = "succeeded"
<1>1. Review(p) => current[p].status = "succeeded"
  BY DEF Asked, Review, Select, ApproveCached, Reserve, Exhausted, Send, Pass, Correct,
         Corrected, Uncheck, Condemn, Judges, Candidates
<1>2. ASSUME ApproveCached(p) \/ Pass(p) \/ Corrected(p)
      PROVE  Records(p, "succeeded", current[p].text, "approved", current[p].text)
  BY <1>1, <1>2, RecordingVerdict DEF Review, ApproveCached, Pass, Corrected
<1>3. ASSUME Select(p) \/ Exhausted(p) \/ Uncheck(p)
      PROVE  Records(p, "succeeded", current[p].text, "none", 0)
  BY <1>1, <1>3, RecordingVerdict DEF Review, Select, Exhausted, Uncheck
<1>4. ASSUME Correct(p)
      PROVE  Records(p, "succeeded", texts[p] + 1, current[p].quality, current[p].of)
  <2>1. texts[p] + 1 \in Texts BY <1>4, NextText DEF Correct
  <2> QED BY <1>4, <2>1, RecordingOutput DEF Correct
<1>5. ASSUME Condemn(p) PROVE Records(p, "failed", current[p].text, "failed", 0)
  <2> DEFINE row == [current[p] EXCEPT !.status = "failed", !.quality = "failed", !.of = 0]
  <2>1. current[p] \in Row BY DEF TypeOK
  <2>0. 0 \in Texts BY BoundsAssumption DEF Texts
  <2>2. row \in Row BY <2>0, <2>1, RecordedRow
  <2>3. /\ row.status = "failed" /\ row.text = current[p].text
        /\ row.quality = "failed" /\ row.of = 0
    BY <2>1 DEF Row
  <2>4. Commit(p, row) BY <1>5 DEF Condemn
  <2> HIDE DEF row
  <2>5. Records(p, row.status, row.text, row.quality, row.of)
    BY <2>2, <2>3, <2>4, Recording
  <2> QED BY <2>3, <2>5
<1>6. ASSUME Reserve(p) PROVE RecordsNothing
  <2>1. file' = [file EXCEPT !.used = [file.used EXCEPT ![run.attempt] = @ + 1]]
    BY <1>6 DEF Reserve
  <2> QED BY <1>6, <2>1 DEF Reserve, RecordsNothing, TypeOK, Generation
<1>7. Send(p) => RecordsNothing /\ file' = file
  BY DEF Send, RecordsNothing, store
<1> QED BY <1>1, <1>2, <1>3, <1>4, <1>5, <1>6, <1>7

-----------------------------------------------------------------------------
(* The run and its memory. *)

\* In which phase the actions happen; the phase is theirs alone to leave.
LEMMA Phases ==
    ASSUME NEW p \in Paragraphs
    PROVE  /\ Translate(p) =>
                 run.phase = "work" /\ run' = run /\ mark' = mark /\ cached' = cached
           /\ Review(p) =>
                 run.phase = "review" /\ run' = run /\ stage' = stage /\ cached' = cached
<1>1. Translate(p) => run.phase = "work" /\ run' = run /\ mark' = mark /\ cached' = cached
  BY DEF Translate, Restore, Overlook, Ask, Answer, Reject, Fail, Goes
<1>2. Review(p) =>
         run.phase = "review" /\ run' = run /\ stage' = stage /\ cached' = cached
  BY DEF Review, Select, ApproveCached, Reserve, Exhausted, Send, Pass, Correct,
         Corrected, Uncheck, Condemn, Judges
<1> QED BY <1>1, <1>2

\* Nothing is left of a run that is over.
LEMMA OverIsIdle ==
    ASSUME TypeOK, Over
    PROVE  /\ run'.phase = "none" /\ run'.attempt = run.attempt /\ cached' = {}
           /\ \A q \in Paragraphs :
                 current'[q] = NoRow /\ stage'[q] = "new" /\ mark'[q] = "none"
BY DEF TypeOK, Over

LEMMA IdleStep == TypeOK /\ Idle /\ [Next]_vars => Idle'
<1> SUFFICES ASSUME TypeOK, Idle, [Next]_vars PROVE Idle' OBVIOUS
<1> USE DEF Idle
<1>1. CASE UNCHANGED vars BY <1>1 DEF vars, work
<1>2. ASSUME NEW f \in Fingerprints, NEW attempt \in Attempts, Open(f, attempt)
      PROVE  Idle'
  BY <1>2 DEF Open, work
<1>3. CASE Register BY <1>3 DEF Register, work, TypeOK
<1>4. CASE StartReview BY <1>4 DEF StartReview, TypeOK
<1>5. CASE Finish \/ End
  <2>1. Over BY <1>5 DEF Finish, End
  <2> QED BY <2>1, OverIsIdle
<1>6. ASSUME NEW p \in Paragraphs, Translate(p) PROVE Idle'
  BY <1>6, Phases
<1>7. ASSUME NEW p \in Paragraphs, Review(p) PROVE Idle'
  BY <1>7, Phases
<1> QED BY <1>1, <1>2, <1>3, <1>4, <1>5, <1>6, <1>7 DEF Next

\* A row that is recorded is the same in memory and in the file.
LEMMA RecordingKeepsFile ==
    ASSUME MemoryIsFile, run' = run, NEW p \in Paragraphs, NEW status, NEW text,
           NEW quality, NEW of, Records(p, status, text, quality, of)
    PROVE  MemoryIsFile'
BY DEF MemoryIsFile, Records

\* What register writes, row by row.
LEMMA RegisterWrites ==
    ASSUME TypeOK, Register
    PROVE  \A p \in Paragraphs :
              /\ current'[p].status = "pending" /\ current'[p].text = 0
              /\ current'[p].quality = file.rows[p].quality
              /\ current'[p].of = file.rows[p].of
              /\ file'.rows[p].quality = file.rows[p].quality
              /\ file'.rows[p].of = file.rows[p].of
              /\ \/ file.rows[p].status = "succeeded" /\ file'.rows[p] = file.rows[p]
                 \/ /\ file.rows[p].status # "succeeded"
                    /\ file'.rows[p].status = "pending" /\ file'.rows[p].text = 0
<1> SUFFICES ASSUME NEW p \in Paragraphs
             PROVE  /\ current'[p].status = "pending" /\ current'[p].text = 0
                    /\ current'[p].quality = file.rows[p].quality
                    /\ current'[p].of = file.rows[p].of
                    /\ file'.rows[p].quality = file.rows[p].quality
                    /\ file'.rows[p].of = file.rows[p].of
                    /\ \/ file.rows[p].status = "succeeded" /\ file'.rows[p] = file.rows[p]
                       \/ /\ file.rows[p].status # "succeeded"
                          /\ file'.rows[p].status = "pending" /\ file'.rows[p].text = 0
  OBVIOUS
<1> DEFINE row == file.rows[p]
           pending == [NoRow EXCEPT !.status = "pending", !.quality = row.quality,
                                    !.of = row.of]
<1>1. /\ pending.status = "pending" /\ pending.text = 0
      /\ pending.quality = row.quality /\ pending.of = row.of
  BY DEF NoRow
<1>2. current'[p] = pending BY DEF Register
<1>3. file' = [file EXCEPT !.rows = [q \in Paragraphs |-> Registered(file.rows[q])]]
  BY DEF Register
<1>4. file'.rows[p] = Registered(row) BY <1>3 DEF TypeOK, Generation
<1>5. Registered(row) = IF row.status = "succeeded" THEN row ELSE pending
  BY DEF Registered
<1> HIDE DEF pending
<1> QED BY <1>1, <1>2, <1>4, <1>5

LEMMA FileStep == TypeOK /\ WorkInv /\ [Next]_vars => MemoryIsFile'
<1> SUFFICES ASSUME TypeOK, WorkInv, [Next]_vars PROVE MemoryIsFile' OBVIOUS
<1> USE DEF WorkInv
<1>1. CASE UNCHANGED vars BY <1>1 DEF vars, store, MemoryIsFile
<1>2. ASSUME NEW f \in Fingerprints, NEW attempt \in Attempts, Open(f, attempt)
      PROVE  MemoryIsFile'
  BY <1>2 DEF Open, Idle, MemoryIsFile, NoRow
<1>3. CASE Register
  <2>1. run'.phase = "work" BY <1>3 DEF Register, TypeOK
  <2> QED BY <1>3, RegisterWrites DEF MemoryIsFile
<1>4. CASE StartReview
  BY <1>4 DEF StartReview, MemoryIsFile, store
<1>5. CASE Finish \/ End
  <2>1. Over BY <1>5 DEF Finish, End
  <2> QED BY <2>1, OverIsIdle DEF MemoryIsFile, NoRow
<1>6. ASSUME NEW p \in Paragraphs, Translate(p) PROVE MemoryIsFile'
  <2>1. run' = run BY <1>6, Phases
  <2>2. CASE Restore(p) BY <2>1, <2>2, TranslateWrites, RecordingKeepsFile
  <2>3. CASE Answer(p) BY <2>1, <2>3, TranslateWrites, RecordingKeepsFile
  <2>4. CASE Fail(p) BY <2>1, <2>4, TranslateWrites, RecordingKeepsFile
  <2>5. CASE Ask(p) \/ Overlook(p) \/ Reject(p)
    BY <2>1, <2>5, TranslateWrites DEF RecordsNothing, MemoryIsFile
  <2> QED BY <1>6, <2>2, <2>3, <2>4, <2>5 DEF Translate
<1>7. ASSUME NEW p \in Paragraphs, Review(p) PROVE MemoryIsFile'
  <2>1. run' = run BY <1>7, Phases
  <2>2. CASE ApproveCached(p) \/ Pass(p) \/ Corrected(p)
    BY <2>1, <2>2, ReviewWrites, RecordingKeepsFile
  <2>3. CASE Select(p) \/ Exhausted(p) \/ Uncheck(p)
    BY <2>1, <2>3, ReviewWrites, RecordingKeepsFile
  <2>4. CASE Correct(p) BY <2>1, <2>4, ReviewWrites, RecordingKeepsFile
  <2>5. CASE Condemn(p) BY <2>1, <2>5, ReviewWrites, RecordingKeepsFile
  <2>6. CASE Reserve(p) \/ Send(p)
    BY <2>1, <2>6, ReviewWrites DEF RecordsNothing, MemoryIsFile
  <2> QED BY <1>7, <2>2, <2>3, <2>4, <2>5, <2>6 DEF Review
<1> QED BY <1>1, <1>2, <1>3, <1>4, <1>5, <1>6, <1>7 DEF Next

\* What a recorded row leaves of the requests that workers have under way.
LEMMA AskedStep == TypeOK /\ WorkInv /\ [Next]_vars => Asked'
<1> SUFFICES ASSUME TypeOK, WorkInv, [Next]_vars PROVE Asked' OBVIOUS
<1> USE DEF WorkInv
<1>1. CASE UNCHANGED vars
  BY <1>1 DEF vars, store, work, Asked, Restorable
<1>2. ASSUME NEW f \in Fingerprints, NEW attempt \in Attempts, Open(f, attempt)
      PROVE  Asked'
  BY <1>2 DEF Open, work, Idle, Asked
<1>3. CASE Register
  BY <1>3 DEF Register, work, Idle, Asked
<1>4. CASE StartReview
  <2>1. run'.phase = "review" BY <1>4 DEF StartReview, TypeOK
  <2>2. mark' = mark /\ current' = current BY <1>4 DEF StartReview
  <2> QED BY <2>1, <2>2 DEF Asked
<1>5. CASE Finish \/ End
  <2>1. Over BY <1>5 DEF Finish, End
  <2> QED BY <2>1, OverIsIdle DEF Asked
<1>6. ASSUME NEW p \in Paragraphs, Translate(p) PROVE Asked'
  <2>1. run.phase = "work" /\ run' = run /\ mark' = mark BY <1>6, Phases
  <2>2. \A q \in Paragraphs : mark'[q] = "none" BY <2>1 DEF Idle
  <2>3. \A q \in Paragraphs \ {p} : stage'[q] = stage[q] /\ file'.rows[q] = file.rows[q]
    BY <1>6, TranslateWrites
    DEF Translate, Records, RecordsNothing, Restore, Overlook, Ask, Answer, Reject, Fail,
        Goes, TypeOK
  <2>4. stage'[p] \in {"batch", "again", "single"} => ~Restorable(p) /\ file' = file
    <3>1. CASE Restore(p) \/ Overlook(p) \/ Answer(p) \/ Fail(p)
      BY <3>1 DEF Restore, Overlook, Answer, Fail, Goes, TypeOK
    <3>2. CASE Ask(p) BY <3>2 DEF Ask, store
    <3>3. CASE Reject(p) BY <2>1, <3>3 DEF Reject, store, Goes, Asked
    <3> QED BY <1>6, <3>1, <3>2, <3>3 DEF Translate
  <2>5. \A q \in Paragraphs :
          stage'[q] \in {"batch", "again", "single"} => ~Restorable(q)'
    BY <2>1, <2>3, <2>4 DEF Asked, Restorable
  <2> QED BY <2>2, <2>5 DEF Asked
<1>7. ASSUME NEW p \in Paragraphs, Review(p) PROVE Asked'
  <2>1. run'.phase = "review" BY <1>7, Phases
  <2>2. current[p].status = "succeeded" BY <1>7, ReviewWrites
  <2>3. \A q \in Paragraphs \ {p} : mark'[q] = mark[q] /\ current'[q] = current[q]
    BY <1>7, ReviewWrites
    DEF Review, Records, RecordsNothing, ApproveCached, Pass, Corrected, Select,
        Exhausted, Uncheck, Correct, Condemn, Reserve, Send, Judges, TypeOK
  <2>4. mark'[p] \notin {"none", "settled"} => current'[p].status = "succeeded"
    <3>1. CASE Condemn(p) BY <3>1 DEF Condemn, Judges, TypeOK
    <3>2. CASE ~Condemn(p)
      BY <1>7, <2>2, <3>2, ReviewWrites DEF Review, Records, RecordsNothing
    <3> QED BY <3>1, <3>2
  <2> DEFINE busy == {"reserved", "asked", "corrected"}
  <2>5. mark'[p] \in busy =>
          \/ mark[p] \in busy
          \/ \A q \in Paragraphs \ {p} : mark[q] \notin busy
    <3>1. CASE Reserve(p) BY <3>1 DEF Reserve, Turn
    <3>2. CASE Send(p) \/ Correct(p) BY <3>2 DEF Send, Correct, Judges
    <3>3. CASE ApproveCached(p) \/ Pass(p) \/ Corrected(p) \/ Select(p) \/ Exhausted(p)
               \/ Uncheck(p) \/ Condemn(p)
      BY <3>3 DEF ApproveCached, Pass, Corrected, Select, Exhausted, Uncheck, Condemn,
                  Judges, TypeOK
    <3> QED BY <1>7, <3>1, <3>2, <3>3 DEF Review
  <2>6. \A q, r \in Paragraphs : mark'[q] \in busy /\ mark'[r] \in busy => q = r
    BY <2>3, <2>5 DEF Asked
  <2>7. \A q \in Paragraphs :
          mark'[q] \notin {"none", "settled"} => current'[q].status = "succeeded"
    BY <2>3, <2>4 DEF Asked
  <2> QED BY <2>1, <2>6, <2>7 DEF Asked
<1> QED BY <1>1, <1>2, <1>3, <1>4, <1>5, <1>6, <1>7 DEF Next

LEMMA WorkStep == TypeOK /\ WorkInv /\ [Next]_vars => WorkInv'
BY IdleStep, FileStep, AskedStep DEF WorkInv

LEMMA InitWork == Init => WorkInv
BY DEF Init, WorkInv, Idle, MemoryIsFile, Asked, NoRow

-----------------------------------------------------------------------------
(* The generations. *)

\* To switch generations changes none of them.
LEMMA OpenKeeps ==
    ASSUME TypeOK, NEW f \in Fingerprints, NEW attempt \in Attempts, Open(f, attempt)
    PROVE  \A g \in Fingerprints : Of(g)' = Of(g)
<1>1. CASE f = active BY <1>1 DEF Open, Of
<1>2. CASE f # active
  <2>1. active' = f /\ file' = archive[f] /\ archive' = [archive EXCEPT ![active] = file]
    BY <1>2 DEF Open, Archived
  <2> QED BY <1>2, <2>1 DEF Of, TypeOK
<1> QED BY <1>1, <1>2

\* What is written is written to the active generation.
LEMMA ActiveChanges ==
    ASSUME active' = active, archive' = archive
    PROVE  \A g \in Fingerprints : Of(g)' = IF g = active THEN file' ELSE Of(g)
BY DEF Of

LEMMA Numbers ==
    ASSUME TypeOK, NEW p \in Paragraphs
    PROVE  /\ texts[p] \in Nat /\ current[p].text \in Nat /\ current[p].of \in Nat
           /\ file.rows[p].text \in Nat /\ file.rows[p].of \in Nat
           /\ \A f \in Fingerprints :
                 Of(f).rows[p].text \in Nat /\ Of(f).rows[p].of \in Nat
<1>1. Texts \subseteq Nat BY BoundsAssumption DEF Texts
<1>2. texts[p] \in Texts /\ current[p] \in Row /\ file.rows[p] \in Row
  BY DEF TypeOK, Generation
<1>3. ASSUME NEW f \in Fingerprints PROVE Of(f).rows[p] \in Row
  BY DEF TypeOK, Generation, Of
<1> QED BY <1>1, <1>2, <1>3 DEF Row

\* A row that is recorded is not of a later text than the last.
LEMMA RecordingOld ==
    ASSUME TypeOK, TypeOK', TextsAreOld, NEW p \in Paragraphs, NEW status, NEW text \in Nat,
           NEW quality, NEW of \in Nat, Records(p, status, text, quality, of),
           texts' = texts \/ texts' = [texts EXCEPT ![p] = @ + 1],
           text <= texts'[p], of <= texts'[p]
    PROVE  TextsAreOld'
<1> SUFFICES ASSUME NEW q \in Paragraphs
             PROVE  /\ current'[q].text <= texts'[q] /\ current'[q].of <= texts'[q]
                    /\ \A f \in Fingerprints :
                          /\ (Of(f)').rows[q].text <= texts'[q]
                          /\ (Of(f)').rows[q].of <= texts'[q]
  BY DEF TextsAreOld
<1>1. texts[q] \in Nat /\ texts'[q] \in Nat /\ texts[q] <= texts'[q]
  <2>1. texts[q] \in Nat /\ texts[p] \in Nat BY Numbers
  <2>2. texts'[q] \in {texts[q], texts[q] + 1} BY DEF TypeOK
  <2> QED BY <2>1, <2>2
<1>2. /\ current'[q].text <= texts'[q] /\ current'[q].of <= texts'[q]
      /\ file'.rows[q].text <= texts'[q] /\ file'.rows[q].of <= texts'[q]
  <2>1. CASE q = p BY <2>1 DEF Records
  <2>2. CASE q # p
    <3>1. texts'[q] = texts[q] BY <2>2 DEF TypeOK
    <3>2. file.rows[q].text <= texts[q] /\ file.rows[q].of <= texts[q]
      BY DEF TextsAreOld, Of, TypeOK
    <3> QED BY <2>2, <3>1, <3>2 DEF Records, TextsAreOld
  <2> QED BY <2>1, <2>2
<1>3. ASSUME NEW f \in Fingerprints
      PROVE  (Of(f)').rows[q].text <= texts'[q] /\ (Of(f)').rows[q].of <= texts'[q]
  <2>1. CASE f = active BY <1>2, <2>1, ActiveChanges DEF Records
  <2>2. CASE f # active
    <3>1. Of(f)' = Of(f) BY <2>2, ActiveChanges DEF Records
    <3>2. Of(f).rows[q].text <= texts[q] /\ Of(f).rows[q].of <= texts[q]
      BY DEF TextsAreOld
    <3> QED BY <1>1, <3>1, <3>2, Numbers
  <2> QED BY <2>1, <2>2
<1> QED BY <1>2, <1>3

\* The same where only the rows of the active generation change.
LEMMA RowsOld ==
    ASSUME TypeOK, TextsAreOld, texts' = texts,
           \A f \in Fingerprints : Of(f)' = Of(f) \/ Of(f)' = file',
           \A q \in Paragraphs : /\ current'[q].text <= texts[q]
                                 /\ current'[q].of <= texts[q]
                                 /\ file'.rows[q].text <= texts[q]
                                 /\ file'.rows[q].of <= texts[q]
    PROVE  TextsAreOld'
BY DEF TextsAreOld

LEMMA OldStep == TypeOK /\ WorkInv /\ TextsAreOld /\ TypeOK' /\ [Next]_vars => TextsAreOld'
<1> SUFFICES ASSUME TypeOK, TypeOK', WorkInv, TextsAreOld, [Next]_vars
             PROVE  TextsAreOld'
  OBVIOUS
<1> USE DEF WorkInv
<1>0. \A q \in Paragraphs :
        /\ current[q].text <= texts[q] /\ current[q].of <= texts[q]
        /\ file.rows[q].text <= texts[q] /\ file.rows[q].of <= texts[q]
        /\ 0 <= texts[q]
  BY Numbers DEF TextsAreOld, Of, TypeOK
<1>1. CASE UNCHANGED vars
  BY <1>1 DEF vars, store, history, TextsAreOld, Of
<1>2. ASSUME NEW f \in Fingerprints, NEW attempt \in Attempts, Open(f, attempt)
      PROVE  TextsAreOld'
  BY <1>2, OpenKeeps DEF Open, history, TextsAreOld
<1>3. CASE Register
  <2>1. texts' = texts /\ active' = active /\ archive' = archive
    BY <1>3 DEF Register, history
  <2>2. \A q \in Paragraphs :
          /\ current'[q].text <= texts[q] /\ current'[q].of <= texts[q]
          /\ file'.rows[q].text <= texts[q] /\ file'.rows[q].of <= texts[q]
    BY <1>0, <1>3, RegisterWrites
  <2> QED BY <2>1, <2>2, ActiveChanges, RowsOld
<1>4. CASE StartReview BY <1>4 DEF StartReview, store, history, TextsAreOld, Of
<1>5. CASE Finish \/ End
  <2>1. Over /\ texts' = texts /\ active' = active /\ archive' = archive
    BY <1>5 DEF Finish, End, store, history
  <2>2. \A q \in Paragraphs : current'[q].text <= texts[q] /\ current'[q].of <= texts[q]
    BY <1>0, <2>1, OverIsIdle DEF NoRow
  <2>3. \A q \in Paragraphs :
          file'.rows[q].text <= texts[q] /\ file'.rows[q].of <= texts[q]
    <3>1. CASE End BY <1>0, <3>1 DEF End, store
    <3>2. CASE Finish
      <4> DEFINE left(q) == [current[q] EXCEPT !.status = "failed"]
      <4>1. \A q \in Paragraphs : file'.rows[q] \in {file.rows[q], left(q)}
        BY <3>2 DEF Finish, TypeOK, Generation
      <4>2. \A q \in Paragraphs :
              left(q).text = current[q].text /\ left(q).of = current[q].of
        BY DEF TypeOK, Row
      <4> HIDE DEF left
      <4> QED BY <1>0, <4>1, <4>2
    <3> QED BY <1>5, <3>1, <3>2
  <2> QED BY <2>1, <2>2, <2>3, ActiveChanges, RowsOld
<1>6. ASSUME NEW p \in Paragraphs, Translate(p) PROVE TextsAreOld'
  <2>1. CASE Restore(p)
    <3>1. texts' = texts BY <2>1 DEF Restore
    <3> QED BY <1>0, <2>1, <3>1, TranslateWrites, RecordingOld, Numbers
  <2>2. CASE Answer(p)
    <3>1. texts' = [texts EXCEPT ![p] = @ + 1] /\ texts'[p] = texts[p] + 1
      BY <2>2 DEF Answer, TypeOK
    <3>2. /\ texts[p] + 1 \in Nat /\ current[p].of \in Nat
          /\ texts[p] + 1 <= texts'[p] /\ current[p].of <= texts'[p]
      BY <1>0, <3>1, Numbers
    <3> QED BY <2>2, <3>1, <3>2, TranslateWrites, RecordingOld
  <2>3. CASE Fail(p)
    <3>1. texts' = texts BY <2>3 DEF Fail, history
    <3> QED BY <1>0, <2>3, <3>1, TranslateWrites, RecordingOld, Numbers
  <2>4. CASE Ask(p) \/ Overlook(p) \/ Reject(p)
    BY <2>4 DEF Ask, Overlook, Reject, store, history, TextsAreOld, Of
  <2> QED BY <1>6, <2>1, <2>2, <2>3, <2>4 DEF Translate
<1>7. ASSUME NEW p \in Paragraphs, Review(p) PROVE TextsAreOld'
  <2>1. CASE ApproveCached(p) \/ Pass(p) \/ Corrected(p)
    <3>1. texts' = texts BY <2>1 DEF ApproveCached, Pass, Corrected, history
    <3> QED BY <1>0, <2>1, <3>1, ReviewWrites, RecordingOld, Numbers
  <2>2. CASE Select(p) \/ Exhausted(p) \/ Uncheck(p)
    <3>1. texts' = texts BY <2>2 DEF Select, Exhausted, Uncheck, history
    <3> QED BY <1>0, <2>2, <3>1, ReviewWrites, RecordingOld, Numbers
  <2>3. CASE Correct(p)
    <3>1. texts' = [texts EXCEPT ![p] = @ + 1] /\ texts'[p] = texts[p] + 1
      BY <2>3 DEF Correct, TypeOK
    <3>2. /\ texts[p] + 1 \in Nat /\ current[p].of \in Nat
          /\ texts[p] + 1 <= texts'[p] /\ current[p].of <= texts'[p]
      BY <1>0, <3>1, Numbers
    <3> QED BY <2>3, <3>1, <3>2, ReviewWrites, RecordingOld
  <2>4. CASE Condemn(p)
    <3>1. texts' = texts BY <2>4 DEF Condemn
    <3> QED BY <1>0, <2>4, <3>1, ReviewWrites, RecordingOld, Numbers
  <2>5. CASE Reserve(p) \/ Send(p)
    <3>1. texts' = texts BY <2>5 DEF Reserve, Send, history
    <3>2. RecordsNothing BY <2>5, ReviewWrites
    <3> QED BY <1>0, <3>1, <3>2, ActiveChanges, RowsOld DEF RecordsNothing
  <2> QED BY <1>7, <2>1, <2>2, <2>3, <2>4, <2>5 DEF Review
<1> QED BY <1>1, <1>2, <1>3, <1>4, <1>5, <1>6, <1>7 DEF Next

-----------------------------------------------------------------------------
(* Translations are kept. *)

\* A recorded row holds the last good translation, or says that there is none.
LEMMA RecordingKept ==
    ASSUME TypeOK, MemoryIsKept, TranslationsKept, NEW p \in Paragraphs, NEW status,
           NEW text, NEW quality, NEW of, Records(p, status, text, quality, of),
           \A f \in Fingerprints, q \in Paragraphs :
              f # active \/ q # p => kept'[f][q] = kept[f][q],
           status = "succeeded" => kept'[active][p] = text,
           status # "succeeded" => quality = "failed" \/ kept'[active][p] = 0
    PROVE  MemoryIsKept' /\ TranslationsKept'
<1>1. active \in Fingerprints /\ active' = active BY DEF TypeOK, Records
<1>2. MemoryIsKept' BY <1>1 DEF MemoryIsKept, Records
<1>3. ASSUME NEW f \in Fingerprints, NEW q \in Paragraphs, kept'[f][q] # 0,
             (Of(f)').rows[q].quality # "failed"
      PROVE  (Of(f)').rows[q].status = "succeeded" /\ (Of(f)').rows[q].text = kept'[f][q]
  <2>1. CASE f = active /\ q = p BY <1>3, <2>1, ActiveChanges DEF Records
  <2>2. CASE f = active /\ q # p
    <3>1. Of(f) = file /\ Of(f)' = file' BY <1>1, <2>2 DEF Of
    <3> QED BY <1>3, <2>2, <3>1 DEF Records, TranslationsKept, Holds
  <2>3. CASE f # active
    <3>1. Of(f)' = Of(f) BY <2>3, ActiveChanges DEF Records
    <3> QED BY <1>3, <2>3, <3>1 DEF TranslationsKept, Holds
  <2> QED BY <2>1, <2>2, <2>3
<1> QED BY <1>2, <1>3 DEF TranslationsKept, Holds

\* A paragraph that was asked for had no translation that would have done.
LEMMA AskedForNothing ==
    ASSUME TypeOK, TranslationsKept, NEW p \in Paragraphs, ~Restorable(p),
           file.rows[p].quality # "failed"
    PROVE  kept[active][p] = 0
<1>1. active \in Fingerprints /\ Of(active) = file BY DEF TypeOK, Of
<1> QED BY <1>1 DEF TranslationsKept, Holds, Restorable

LEMMA KeptStep ==
    TypeOK /\ WorkInv /\ MemoryIsKept /\ TranslationsKept /\ [Next]_vars
    => (MemoryIsKept /\ TranslationsKept)'
<1> SUFFICES ASSUME TypeOK, WorkInv, MemoryIsKept, TranslationsKept, [Next]_vars
             PROVE  MemoryIsKept' /\ TranslationsKept'
  OBVIOUS
<1> USE DEF WorkInv
<1>0. active \in Fingerprints /\ Of(active) = file BY DEF TypeOK, Of
<1>1. CASE UNCHANGED vars
  BY <1>1 DEF vars, store, history, MemoryIsKept, TranslationsKept, Holds, Of
<1>2. ASSUME NEW f \in Fingerprints, NEW attempt \in Attempts, Open(f, attempt)
      PROVE  MemoryIsKept' /\ TranslationsKept'
  <2>1. kept' = kept /\ current' = current BY <1>2 DEF Open, history
  <2>2. MemoryIsKept' BY <1>2, <2>1 DEF Open, Idle, MemoryIsKept, NoRow
  <2>3. TranslationsKept' BY <1>2, <2>1, OpenKeeps DEF TranslationsKept, Holds
  <2> QED BY <2>2, <2>3
<1>3. CASE Register
  <2>1. kept' = kept /\ active' = active /\ archive' = archive
    BY <1>3 DEF Register, history
  <2>2. MemoryIsKept' BY <1>3, RegisterWrites DEF MemoryIsKept
  <2>3. ASSUME NEW f \in Fingerprints, NEW q \in Paragraphs, kept[f][q] # 0,
               (Of(f)').rows[q].quality # "failed"
        PROVE  (Of(f)').rows[q].status = "succeeded" /\ (Of(f)').rows[q].text = kept[f][q]
    <3>1. CASE f = active
      <4>1. Of(f)' = file' BY <2>1, <3>1, ActiveChanges
      <4>2. file.rows[q].quality # "failed" BY <1>3, <2>3, <4>1, RegisterWrites
      <4>3. file.rows[q].status = "succeeded" /\ file.rows[q].text = kept[f][q]
        BY <1>0, <2>3, <3>1, <4>2 DEF TranslationsKept, Holds
      <4> QED BY <1>3, <4>1, <4>3, RegisterWrites
    <3>2. CASE f # active
      <4>1. Of(f)' = Of(f) BY <2>1, <3>2, ActiveChanges
      <4> QED BY <2>3, <4>1 DEF TranslationsKept, Holds
    <3> QED BY <3>1, <3>2
  <2> QED BY <2>1, <2>2, <2>3 DEF TranslationsKept, Holds
<1>4. CASE StartReview
  BY <1>4 DEF StartReview, store, history, MemoryIsKept, TranslationsKept, Holds, Of
<1>5. CASE Finish \/ End
  <2>1. Over BY <1>5 DEF Finish, End
  <2>2. MemoryIsKept' BY <2>1, OverIsIdle DEF MemoryIsKept, NoRow
  <2>3. CASE End BY <2>2, <2>3 DEF End, store, history, TranslationsKept, Holds, Of
  <2>4. CASE Finish
    <3>1. active' = active /\ archive' = archive BY <2>4 DEF Finish
    <3>2. \A q \in Paragraphs :
            \/ current[q].status = "pending" /\ kept'[active][q] = 0
            \/ file'.rows[q] = file.rows[q] /\ kept'[active][q] = kept[active][q]
      BY <1>0, <2>4 DEF Finish, TypeOK, Generation
    <3>3. \A f \in Fingerprints : f # active => kept'[f] = kept[f]
      BY <2>4 DEF Finish, TypeOK
    <3>4. ASSUME NEW f \in Fingerprints, NEW q \in Paragraphs, kept'[f][q] # 0,
                 (Of(f)').rows[q].quality # "failed"
          PROVE  /\ (Of(f)').rows[q].status = "succeeded"
                 /\ (Of(f)').rows[q].text = kept'[f][q]
      <4>1. CASE f = active
        <5>1. Of(f)' = file' BY <3>1, <4>1, ActiveChanges
        <5> QED BY <1>0, <3>2, <3>4, <4>1, <5>1 DEF TranslationsKept, Holds
      <4>2. CASE f # active
        <5>1. Of(f)' = Of(f) BY <3>1, <4>2, ActiveChanges
        <5> QED BY <3>3, <3>4, <4>2, <5>1 DEF TranslationsKept, Holds
      <4> QED BY <4>1, <4>2
    <3> QED BY <2>2, <3>4 DEF TranslationsKept, Holds
  <2> QED BY <1>5, <2>3, <2>4
<1>6. ASSUME NEW p \in Paragraphs, Translate(p) PROVE MemoryIsKept' /\ TranslationsKept'
  <2>0. ASSUME NEW text, Succeeds(p, text)
        PROVE  /\ \A f \in Fingerprints, q \in Paragraphs :
                     f # active \/ q # p => kept'[f][q] = kept[f][q]
               /\ kept'[active][p] = text
    BY <1>0, <2>0 DEF Succeeds, TypeOK
  <2>1. CASE Restore(p)
    BY <2>0, <2>1, TranslateWrites, RecordingKept DEF Restore
  <2>2. CASE Answer(p)
    BY <2>0, <2>2, TranslateWrites, RecordingKept DEF Answer
  <2>3. CASE Fail(p)
    <3>1. kept' = kept BY <2>3 DEF Fail, history
    <3>2. ~Restorable(p) /\ current[p].quality = file.rows[p].quality
      BY <2>3 DEF Fail, Goes, Asked, MemoryIsFile
    <3>3. current[p].quality = "failed" \/ kept[active][p] = 0
      BY <3>2, AskedForNothing
    <3> QED BY <2>3, <3>1, <3>3, TranslateWrites, RecordingKept
  <2>4. CASE Ask(p) \/ Overlook(p) \/ Reject(p)
    BY <2>4 DEF Ask, Overlook, Reject, store, history, MemoryIsKept, TranslationsKept,
                Holds, Of
  <2> QED BY <1>6, <2>1, <2>2, <2>3, <2>4 DEF Translate
<1>7. ASSUME NEW p \in Paragraphs, Review(p) PROVE MemoryIsKept' /\ TranslationsKept'
  <2>0. kept[active][p] = current[p].text BY <1>7, ReviewWrites DEF MemoryIsKept
  <2>1. CASE ApproveCached(p) \/ Pass(p) \/ Corrected(p)
    <3>1. kept' = kept BY <2>1 DEF ApproveCached, Pass, Corrected, history
    <3> QED BY <2>0, <2>1, <3>1, ReviewWrites, RecordingKept
  <2>2. CASE Select(p) \/ Exhausted(p) \/ Uncheck(p)
    <3>1. kept' = kept BY <2>2 DEF Select, Exhausted, Uncheck, history
    <3> QED BY <2>0, <2>2, <3>1, ReviewWrites, RecordingKept
  <2>3. CASE Correct(p)
    <3>1. /\ \A f \in Fingerprints, q \in Paragraphs :
                f # active \/ q # p => kept'[f][q] = kept[f][q]
          /\ kept'[active][p] = texts[p] + 1
      BY <1>0, <2>3 DEF Correct, Succeeds, TypeOK
    <3> QED BY <2>3, <3>1, ReviewWrites, RecordingKept
  <2>4. CASE Condemn(p)
    <3>1. \A f \in Fingerprints, q \in Paragraphs :
             f # active \/ q # p => kept'[f][q] = kept[f][q]
      BY <1>0, <2>4 DEF Condemn, TypeOK
    <3> QED BY <2>4, <3>1, ReviewWrites, RecordingKept
  <2>5. CASE Reserve(p) \/ Send(p)
    <3>1. kept' = kept BY <2>5 DEF Reserve, Send, history
    <3>2. RecordsNothing BY <2>5, ReviewWrites
    <3>3. MemoryIsKept' BY <3>1, <3>2 DEF RecordsNothing, MemoryIsKept
    <3>4. \A f \in Fingerprints : (Of(f)').rows = Of(f).rows
      BY <3>2 DEF RecordsNothing, Of
    <3> QED BY <3>1, <3>3, <3>4 DEF TranslationsKept, Holds
  <2> QED BY <1>7, <2>1, <2>2, <2>3, <2>4, <2>5 DEF Review
<1> QED BY <1>1, <1>2, <1>3, <1>4, <1>5, <1>6, <1>7 DEF Next

-----------------------------------------------------------------------------
(* Approvals are of texts. *)

\* A recorded row is reusable only if its text was approved.
LEMMA RecordingApproved ==
    ASSUME TypeOK, ApprovalIsOfText, NEW p \in Paragraphs, NEW status, NEW text,
           NEW quality, NEW of, Records(p, status, text, quality, of),
           approved \subseteq approved',
           status = "succeeded" /\ quality = "approved" /\ of = text
           => <<p, text>> \in approved'
    PROVE  ApprovalIsOfText'
<1> SUFFICES ASSUME NEW f \in Fingerprints, NEW q \in Paragraphs,
                    Reusable((Of(f)').rows[q])
             PROVE  <<q, (Of(f)').rows[q].text>> \in approved'
  BY DEF ApprovalIsOfText, Reusable
<1>1. CASE f = active /\ q = p BY <1>1, ActiveChanges DEF Records, Reusable
<1>2. CASE f = active /\ q # p
  <2>1. Of(f) = file /\ Of(f)' = file' BY <1>2 DEF Of, Records
  <2> QED BY <1>2, <2>1 DEF Records, ApprovalIsOfText
<1>3. CASE f # active
  <2>1. Of(f)' = Of(f) BY <1>3, ActiveChanges DEF Records
  <2> QED BY <2>1 DEF ApprovalIsOfText
<1> QED BY <1>1, <1>2, <1>3

LEMMA ApprovalStep ==
    TypeOK /\ WorkInv /\ TextsAreOld /\ CachedIsApproved /\ ApprovalIsOfText /\ [Next]_vars
    => ApprovalIsOfText'
<1> SUFFICES ASSUME TypeOK, WorkInv, TextsAreOld, CachedIsApproved, ApprovalIsOfText,
                    [Next]_vars
             PROVE  ApprovalIsOfText'
  OBVIOUS
<1> USE DEF WorkInv
<1>0. active \in Fingerprints /\ Of(active) = file BY DEF TypeOK, Of
<1>1. CASE UNCHANGED vars
  BY <1>1 DEF vars, store, history, ApprovalIsOfText, Of
<1>2. ASSUME NEW f \in Fingerprints, NEW attempt \in Attempts, Open(f, attempt)
      PROVE  ApprovalIsOfText'
  BY <1>2, OpenKeeps DEF Open, history, ApprovalIsOfText
<1>3. CASE Register
  <2>1. approved' = approved /\ active' = active /\ archive' = archive
    BY <1>3 DEF Register, history
  <2>2. ASSUME NEW f \in Fingerprints, NEW q \in Paragraphs, Reusable((Of(f)').rows[q])
        PROVE  <<q, (Of(f)').rows[q].text>> \in approved
    <3>1. CASE f = active
      <4>1. Of(f)' = file' BY <2>1, <3>1, ActiveChanges
      <4>2. file'.rows[q] = file.rows[q]
        BY <1>3, <2>2, <4>1, RegisterWrites DEF Reusable
      <4> QED BY <1>0, <2>2, <3>1, <4>1, <4>2 DEF ApprovalIsOfText
    <3>2. CASE f # active
      <4>1. Of(f)' = Of(f) BY <2>1, <3>2, ActiveChanges
      <4> QED BY <2>2, <4>1 DEF ApprovalIsOfText
    <3> QED BY <3>1, <3>2
  <2> QED BY <2>1, <2>2 DEF ApprovalIsOfText, Reusable
<1>4. CASE StartReview BY <1>4 DEF StartReview, store, history, ApprovalIsOfText, Of
<1>5. CASE End BY <1>5 DEF End, store, history, ApprovalIsOfText, Of
<1>6. CASE Finish
  <2>1. approved' = approved /\ active' = active /\ archive' = archive
    BY <1>6 DEF Finish
  <2>2. \A q \in Paragraphs :
          file'.rows[q].status = "failed" \/ file'.rows[q] = file.rows[q]
    <3>1. \A q \in Paragraphs :
            file'.rows[q] \in {file.rows[q], [current[q] EXCEPT !.status = "failed"]}
      BY <1>6 DEF Finish, TypeOK, Generation
    <3> QED BY <3>1 DEF TypeOK, Row
  <2>3. ASSUME NEW f \in Fingerprints, NEW q \in Paragraphs, Reusable((Of(f)').rows[q])
        PROVE  <<q, (Of(f)').rows[q].text>> \in approved
    <3>1. CASE f = active
      <4>1. Of(f)' = file' BY <2>1, <3>1, ActiveChanges
      <4>2. file'.rows[q] = file.rows[q] BY <2>2, <2>3, <4>1 DEF Reusable
      <4> QED BY <1>0, <2>3, <3>1, <4>1, <4>2 DEF ApprovalIsOfText
    <3>2. CASE f # active
      <4>1. Of(f)' = Of(f) BY <2>1, <3>2, ActiveChanges
      <4> QED BY <2>3, <4>1 DEF ApprovalIsOfText
    <3> QED BY <3>1, <3>2
  <2> QED BY <2>1, <2>3 DEF ApprovalIsOfText, Reusable
<1>7. ASSUME NEW p \in Paragraphs, Translate(p) PROVE ApprovalIsOfText'
  <2>0. approved' = approved
    BY <1>7 DEF Translate, Restore, Overlook, Ask, Answer, Reject, Fail, history
  <2>1. CASE Restore(p)
    <3>1. /\ file.rows[p].status = "succeeded" /\ run.phase = "work"
          /\ current[p].quality = file.rows[p].quality
          /\ current[p].of = file.rows[p].of
      BY <2>1 DEF Restore, Goes, Restorable, MemoryIsFile
    <3>2. current[p].quality = "approved" /\ current[p].of = file.rows[p].text
          => <<p, file.rows[p].text>> \in approved
      BY <1>0, <3>1 DEF ApprovalIsOfText, Reusable
    <3> QED BY <2>0, <2>1, <3>2, TranslateWrites, RecordingApproved
  <2>2. CASE Answer(p)
    <3>1. current[p].of # texts[p] + 1 BY Numbers DEF TextsAreOld
    <3> QED BY <2>0, <2>2, <3>1, TranslateWrites, RecordingApproved
  <2>3. CASE Fail(p) BY <2>0, <2>3, TranslateWrites, RecordingApproved
  <2>4. CASE Ask(p) \/ Overlook(p) \/ Reject(p)
    BY <2>0, <2>4 DEF Ask, Overlook, Reject, store, ApprovalIsOfText, Of
  <2> QED BY <1>7, <2>1, <2>2, <2>3, <2>4 DEF Translate
<1>8. ASSUME NEW p \in Paragraphs, Review(p) PROVE ApprovalIsOfText'
  <2>1. CASE ApproveCached(p)
    <3>1. <<p, current[p].text>> \in approved
      BY <2>1 DEF ApproveCached, Judges, CachedIsApproved
    <3>2. approved' = approved BY <2>1 DEF ApproveCached, history
    <3> QED BY <2>1, <3>1, <3>2, ReviewWrites, RecordingApproved
  <2>2. CASE Pass(p) \/ Corrected(p)
    <3>1. approved' = approved \cup {<<p, current[p].text>>}
      BY <2>2 DEF Pass, Corrected
    <3> QED BY <2>2, <3>1, ReviewWrites, RecordingApproved
  <2>3. CASE Select(p) \/ Exhausted(p) \/ Uncheck(p)
    <3>1. approved' = approved BY <2>3 DEF Select, Exhausted, Uncheck, history
    <3> QED BY <2>3, <3>1, ReviewWrites, RecordingApproved
  <2>4. CASE Correct(p)
    <3>1. approved' = approved BY <2>4 DEF Correct
    <3>2. current[p].of # texts[p] + 1 BY Numbers DEF TextsAreOld
    <3> QED BY <2>4, <3>1, <3>2, ReviewWrites, RecordingApproved
  <2>5. CASE Condemn(p)
    <3>1. approved' = approved BY <2>5 DEF Condemn
    <3> QED BY <2>5, <3>1, ReviewWrites, RecordingApproved
  <2>6. CASE Reserve(p) \/ Send(p)
    <3>1. approved' = approved BY <2>6 DEF Reserve, Send, history
    <3>2. RecordsNothing BY <2>6, ReviewWrites
    <3>3. \A f \in Fingerprints : (Of(f)').rows = Of(f).rows
      BY <3>2 DEF RecordsNothing, Of
    <3> QED BY <3>1, <3>3 DEF ApprovalIsOfText, Reusable
  <2> QED BY <1>8, <2>1, <2>2, <2>3, <2>4, <2>5, <2>6 DEF Review
<1> QED BY <1>1, <1>2, <1>3, <1>4, <1>5, <1>6, <1>7, <1>8 DEF Next

LEMMA CachedStep ==
    TypeOK /\ WorkInv /\ CachedIsApproved /\ ApprovalIsOfText /\ [Next]_vars
    => CachedIsApproved'
<1> SUFFICES ASSUME TypeOK, WorkInv, CachedIsApproved, ApprovalIsOfText, [Next]_vars
             PROVE  CachedIsApproved'
  OBVIOUS
<1> USE DEF WorkInv
<1>1. CASE UNCHANGED vars BY <1>1 DEF vars, work, history, CachedIsApproved
<1>2. ASSUME NEW f \in Fingerprints, NEW attempt \in Attempts, Open(f, attempt)
      PROVE  CachedIsApproved'
  BY <1>2 DEF Open, work, Idle, CachedIsApproved
<1>3. CASE Register BY <1>3 DEF Register, work, Idle, CachedIsApproved
<1>4. CASE StartReview
  <2>1. ASSUME NEW p \in cached'
        PROVE  <<p, current'[p].text>> \in approved'
    <3>1. p \in Paragraphs /\ current[p].status = "succeeded" /\ Reusable(file.rows[p])
      BY <1>4, <2>1 DEF StartReview, Candidates
    <3>2. file.rows[p] = current[p] BY <3>1 DEF MemoryIsFile
    <3>3. active \in Fingerprints /\ Of(active) = file BY DEF TypeOK, Of
    <3>4. <<p, file.rows[p].text>> \in approved BY <3>1, <3>3 DEF ApprovalIsOfText
    <3> QED BY <1>4, <3>2, <3>4 DEF StartReview, history
  <2> QED BY <2>1 DEF CachedIsApproved
<1>5. CASE Finish \/ End
  <2>1. Over BY <1>5 DEF Finish, End
  <2> QED BY <2>1, OverIsIdle DEF CachedIsApproved
<1>6. ASSUME NEW p \in Paragraphs, Translate(p) PROVE CachedIsApproved'
  BY <1>6, Phases DEF Idle, CachedIsApproved
<1>7. ASSUME NEW p \in Paragraphs, Review(p) PROVE CachedIsApproved'
  <2>1. cached' = cached /\ cached \subseteq Paragraphs BY <1>7, Phases DEF TypeOK
  <2>2. approved \subseteq approved'
    BY <1>7 DEF Review, ApproveCached, Pass, Corrected, Select, Exhausted, Uncheck,
                Correct, Condemn, Reserve, Send, history
  <2>3. \A q \in Paragraphs \ {p} : mark'[q] = mark[q] /\ current'[q] = current[q]
    BY <1>7, ReviewWrites
    DEF Review, Records, RecordsNothing, ApproveCached, Pass, Corrected, Select,
        Exhausted, Uncheck, Correct, Condemn, Reserve, Send, Judges, TypeOK
  <2>4. CASE Select(p)
    <3>1. mark[p] = "none" BY <2>4 DEF Select, Judges
    <3>2. current'[p].text = current[p].text BY <2>4, ReviewWrites DEF Records
    <3> QED BY <2>1, <2>2, <2>3, <3>1, <3>2 DEF CachedIsApproved
  <2>5. CASE ~Select(p)
    <3>1. mark'[p] \notin {"none", "selected"}
      BY <1>7, <2>5 DEF Review, ApproveCached, Pass, Corrected, Exhausted, Uncheck,
                        Correct, Condemn, Reserve, Send, Judges, TypeOK
    <3> QED BY <2>1, <2>2, <2>3, <3>1 DEF CachedIsApproved
  <2> QED BY <2>4, <2>5
<1> QED BY <1>1, <1>2, <1>3, <1>4, <1>5, <1>6, <1>7 DEF Next

-----------------------------------------------------------------------------
(* The budget of the review. *)

LEMMA Amounts ==
    ASSUME TypeOK, NEW f \in Fingerprints, NEW a \in Attempts
    PROVE  /\ sent[f][a] \in Nat /\ Of(f).used[a] \in Nat /\ Of(f).used[a] <= Limit
           /\ Outstanding(f, a) \in {0, 1}
<1>1. sent[f][a] \in Nat BY DEF TypeOK
<1>2. Of(f).used[a] \in 0..Limit BY DEF TypeOK, Generation, Of
<1>3. Of(f).used[a] \in Nat /\ Of(f).used[a] <= Limit BY <1>2, BoundsAssumption
<1> QED BY <1>1, <1>3 DEF Outstanding

\* Steps that reserve and send nothing.
LEMMA BudgetUntouched ==
    ASSUME SentWasReserved, sent' = sent,
           \A f \in Fingerprints : (Of(f)').used = Of(f).used,
           \A f \in Fingerprints, a \in Attempts :
              Outstanding(f, a)' = Outstanding(f, a) \/ Outstanding(f, a)' = 0,
           TypeOK
    PROVE  SentWasReserved'
<1> SUFFICES ASSUME NEW f \in Fingerprints, NEW a \in Attempts
             PROVE  sent'[f][a] + Outstanding(f, a)' <= (Of(f)').used[a]
  BY DEF SentWasReserved
<1>1. sent[f][a] + Outstanding(f, a) <= Of(f).used[a] BY DEF SentWasReserved
<1> QED BY <1>1, Amounts

\* No request is outstanding while nothing is reserved.
LEMMA NothingOutstanding ==
    ASSUME \A q \in Paragraphs : mark[q] # "reserved"
    PROVE  \A f \in Fingerprints, a \in Attempts : Outstanding(f, a) = 0
BY DEF Outstanding

LEMMA NothingOutstandingNext ==
    ASSUME \A q \in Paragraphs : mark'[q] # "reserved"
    PROVE  \A f \in Fingerprints, a \in Attempts : Outstanding(f, a)' = 0
BY DEF Outstanding

LEMMA BudgetStep ==
    TypeOK /\ WorkInv /\ SentWasReserved /\ [Next]_vars => SentWasReserved'
<1> SUFFICES ASSUME TypeOK, WorkInv, SentWasReserved, [Next]_vars
             PROVE  SentWasReserved'
  OBVIOUS
<1> USE DEF WorkInv
<1>1. CASE UNCHANGED vars
  BY <1>1 DEF vars, store, work, history, SentWasReserved, Outstanding, Of
<1>2. ASSUME NEW f \in Fingerprints, NEW attempt \in Attempts, Open(f, attempt)
      PROVE  SentWasReserved'
  <2>1. \A q \in Paragraphs : mark'[q] # "reserved" BY <1>2 DEF Open, work, Idle
  <2>2. sent' = sent BY <1>2 DEF Open, history
  <2>3. \A g \in Fingerprints : (Of(g)').used = Of(g).used BY <1>2, OpenKeeps
  <2> QED BY <2>1, <2>2, <2>3, NothingOutstandingNext, BudgetUntouched
<1>3. CASE Register
  <2>1. \A q \in Paragraphs : mark'[q] # "reserved" BY <1>3 DEF Register, work, Idle
  <2>2. sent' = sent /\ active' = active /\ archive' = archive
    BY <1>3 DEF Register, history
  <2>3. file'.used = file.used BY <1>3 DEF Register, TypeOK, Generation
  <2>4. \A g \in Fingerprints : (Of(g)').used = Of(g).used BY <2>2, <2>3 DEF Of
  <2> QED BY <2>1, <2>2, <2>4, NothingOutstandingNext, BudgetUntouched
<1>4. CASE StartReview
  <2>1. \A q \in Paragraphs : mark'[q] # "reserved" BY <1>4 DEF StartReview, Idle
  <2>2. sent' = sent BY <1>4 DEF StartReview, history
  <2>3. \A g \in Fingerprints : (Of(g)').used = Of(g).used
    BY <1>4 DEF StartReview, store, Of
  <2> QED BY <2>1, <2>2, <2>3, NothingOutstandingNext, BudgetUntouched
<1>5. CASE Finish \/ End
  <2>1. Over BY <1>5 DEF Finish, End
  <2>2. \A q \in Paragraphs : mark'[q] # "reserved" BY <2>1, OverIsIdle
  <2>3. sent' = sent /\ active' = active /\ archive' = archive
    BY <1>5 DEF Finish, End, store, history
  <2>4. file'.used = file.used BY <1>5 DEF Finish, End, store, TypeOK, Generation
  <2>5. \A g \in Fingerprints : (Of(g)').used = Of(g).used BY <2>3, <2>4 DEF Of
  <2> QED BY <2>2, <2>3, <2>5, NothingOutstandingNext, BudgetUntouched
<1>6. ASSUME NEW p \in Paragraphs, Translate(p) PROVE SentWasReserved'
  <2>1. \A q \in Paragraphs : mark'[q] # "reserved" BY <1>6, Phases DEF Idle
  <2>2. sent' = sent
    BY <1>6 DEF Translate, Restore, Overlook, Ask, Answer, Reject, Fail, history
  <2>3. active' = active /\ archive' = archive /\ file'.used = file.used
    BY <1>6, TranslateWrites DEF Translate, Records, RecordsNothing
  <2>4. \A g \in Fingerprints : (Of(g)').used = Of(g).used BY <2>3 DEF Of
  <2> QED BY <2>1, <2>2, <2>4, NothingOutstandingNext, BudgetUntouched
<1>7. ASSUME NEW p \in Paragraphs, Review(p) PROVE SentWasReserved'
  <2>0. active \in Fingerprints /\ run.attempt \in Attempts /\ run' = run
    BY <1>7, Phases DEF TypeOK
  <2>1. CASE Reserve(p)
    <3>1. \A q \in Paragraphs : mark[q] # "reserved"
      BY <2>1 DEF Reserve, Turn, Judges
    <3>2. active' = active /\ archive' = archive /\ sent' = sent
      BY <2>1 DEF Reserve, history
    <3>3. file' = [file EXCEPT !.used = [file.used EXCEPT ![run.attempt] = @ + 1]]
      BY <2>1 DEF Reserve
    <3>4. file'.used = [file.used EXCEPT ![run.attempt] = @ + 1]
      BY <3>3 DEF TypeOK, Generation
    <3>5. SUFFICES ASSUME NEW f \in Fingerprints, NEW a \in Attempts
                   PROVE  sent'[f][a] + Outstanding(f, a)' <= (Of(f)').used[a]
      BY DEF SentWasReserved
    <3>6. sent[f][a] <= Of(f).used[a]
      BY <3>1, NothingOutstanding, Amounts DEF SentWasReserved
    <3>7. CASE f = active /\ a = run.attempt
      <4>1. (Of(f)').used[a] = Of(f).used[a] + 1
        BY <2>0, <3>2, <3>4, <3>7 DEF Of, TypeOK, Generation
      <4>2. Outstanding(f, a)' \in {0, 1} BY DEF Outstanding
      <4> QED BY <3>2, <3>6, <4>1, <4>2, Amounts
    <3>8. CASE ~(f = active /\ a = run.attempt)
      <4>1. Outstanding(f, a)' = 0 BY <2>0, <3>2, <3>8 DEF Outstanding
      <4>2. (Of(f)').used[a] = Of(f).used[a]
        BY <3>2, <3>4, <3>8 DEF Of, TypeOK, Generation
      <4> QED BY <3>2, <3>6, <4>1, <4>2, Amounts
    <3> QED BY <3>7, <3>8
  <2>2. CASE Send(p)
    <3>1. mark[p] = "reserved" /\ mark'[p] = "asked" BY <2>2 DEF Send, Judges, TypeOK
    <3>2. \A q \in Paragraphs \ {p} : mark[q] # "reserved" /\ mark'[q] = mark[q]
      BY <2>2, <3>1 DEF Send, Judges, TypeOK, Asked
    <3>3. \A q \in Paragraphs : mark'[q] # "reserved" BY <3>1, <3>2
    <3>4. sent' = [sent EXCEPT ![active][run.attempt] = @ + 1] BY <2>2 DEF Send
    <3>5. SUFFICES ASSUME NEW f \in Fingerprints, NEW a \in Attempts
                   PROVE  sent'[f][a] + Outstanding(f, a)' <= (Of(f)').used[a]
      BY DEF SentWasReserved
    <3>6. Of(f)' = Of(f) BY <2>2 DEF Send, store, Of
    <3>7. Outstanding(f, a)' = 0 BY <3>3, NothingOutstandingNext
    <3>8. sent[f][a] + Outstanding(f, a) <= Of(f).used[a] BY DEF SentWasReserved
    <3>9. CASE f = active /\ a = run.attempt
      <4>1. Outstanding(f, a) = 1 BY <3>1, <3>9 DEF Outstanding
      <4>2. sent'[f][a] = sent[f][a] + 1 BY <3>4, <3>9 DEF TypeOK
      <4> QED BY <3>6, <3>7, <3>8, <4>1, <4>2, Amounts
    <3>10. CASE ~(f = active /\ a = run.attempt)
      <4>1. sent'[f][a] = sent[f][a] BY <3>4, <3>10 DEF TypeOK
      <4> QED BY <3>6, <3>7, <3>8, <4>1, Amounts
    <3> QED BY <3>9, <3>10
  <2>3. CASE ~Reserve(p) /\ ~Send(p)
    <3>1. sent' = sent
      BY <1>7, <2>3 DEF Review, ApproveCached, Pass, Corrected, Select, Exhausted,
                        Uncheck, Correct, Condemn, history
    <3>2. active' = active /\ archive' = archive /\ file'.used = file.used
      BY <1>7, <2>3, ReviewWrites DEF Review, Records
    <3>3. \A g \in Fingerprints : (Of(g)').used = Of(g).used BY <3>2 DEF Of
    <3>4. \A q \in Paragraphs : mark'[q] = "reserved" => mark[q] = "reserved"
      BY <1>7, <2>3 DEF Review, ApproveCached, Pass, Corrected, Select, Exhausted,
                        Uncheck, Correct, Condemn, Judges, TypeOK
    <3>5. \A f \in Fingerprints, a \in Attempts :
            Outstanding(f, a)' = Outstanding(f, a) \/ Outstanding(f, a)' = 0
      BY <2>0, <3>2, <3>4 DEF Outstanding
    <3> QED BY <3>1, <3>3, <3>5, BudgetUntouched
  <2> QED BY <2>1, <2>2, <2>3
<1> QED BY <1>1, <1>2, <1>3, <1>4, <1>5, <1>6, <1>7 DEF Next

-----------------------------------------------------------------------------
(* The theorems. *)

LEMMA InitInv == Init => Inv
<1> SUFFICES ASSUME Init PROVE Inv OBVIOUS
<1>1. TypeOK BY InitType
<1>2. WorkInv BY InitWork
<1>3. \A f \in Fingerprints : Of(f) = Empty BY DEF Init, Of
<1>4. TextsAreOld
  <2> SUFFICES ASSUME NEW p \in Paragraphs
               PROVE  /\ current[p].text <= texts[p] /\ current[p].of <= texts[p]
                      /\ \A f \in Fingerprints :
                            /\ Of(f).rows[p].text <= texts[p]
                            /\ Of(f).rows[p].of <= texts[p]
    BY DEF TextsAreOld
  <2>1. texts[p] = 0 BY DEF Init
  <2>2. current[p] = NoRow BY DEF Init
  <2>3. Empty.rows[p] = NoRow BY DEF Empty
  <2>4. NoRow.text = 0 /\ NoRow.of = 0 BY DEF NoRow
  <2> QED BY <1>3, <2>1, <2>2, <2>3, <2>4
<1>5. MemoryIsKept /\ TranslationsKept
  BY <1>3 DEF Init, MemoryIsKept, TranslationsKept, Empty, NoRow
<1>6. CachedIsApproved /\ ApprovalIsOfText
  BY <1>3 DEF Init, CachedIsApproved, ApprovalIsOfText, Reusable, Empty, NoRow
<1>7. SentWasReserved
  BY <1>3 DEF Init, SentWasReserved, Outstanding, Empty
<1> QED BY <1>1, <1>2, <1>4, <1>5, <1>6, <1>7 DEF Inv

LEMMA InvStep == Inv /\ [Next]_vars => Inv'
<1> SUFFICES ASSUME Inv, [Next]_vars PROVE Inv' OBVIOUS
<1> USE DEF Inv
<1>1. TypeOK' BY TypeStep
<1>2. WorkInv' BY WorkStep
<1>3. TextsAreOld' BY <1>1, OldStep
<1>4. (MemoryIsKept /\ TranslationsKept)' BY KeptStep
<1>5. CachedIsApproved' BY CachedStep
<1>6. ApprovalIsOfText' BY ApprovalStep
<1>7. SentWasReserved' BY BudgetStep
<1> QED BY <1>1, <1>2, <1>3, <1>4, <1>5, <1>6, <1>7

\* The inductive invariant: what a run has in memory is what it has recorded,
\* what it asks for is not there, and every request is paid for.
THEOREM Invariance == Spec => []Inv
BY InitInv, InvStep, PTL DEF Spec

\* No end of a run, crash or change of the configuration loses a translation:
\* _switch_generation archives it, register leaves it and restored takes it.
THEOREM NothingIsLost == Spec => []TranslationsKept
BY Invariance, PTL DEF Inv

\* reviewed_output takes no approval over to a text it was not given to.
THEOREM ApprovalsAreOfTexts == Spec => []ApprovalIsOfText
BY Invariance, PTL DEF Inv

\* reserve_review_request keeps an attempt to its review requests.
THEOREM BudgetIsKept == Spec => []ReviewBudgetHolds
<1>1. Inv => ReviewBudgetHolds
  <2> SUFFICES ASSUME Inv, NEW f \in Fingerprints, NEW a \in Attempts
               PROVE  sent[f][a] <= Limit
    BY DEF ReviewBudgetHolds
  <2>1. sent[f][a] + Outstanding(f, a) <= Of(f).used[a] BY DEF Inv, SentWasReserved
  <2> QED BY <2>1, Amounts, BoundsAssumption DEF Inv
<1> QED BY <1>1, Invariance, PTL

\* pre_translate_paragraph asks for no paragraph that it could have restored.
THEOREM NothingIsPaidTwice == Spec => PaidOnce
<1> DEFINE A == \A p \in Paragraphs :
                  Asks(p) /\ file.rows[p].quality # "failed" => kept[active][p] = 0
<1>1. Inv /\ [Next]_vars => [A]_vars
  <2> SUFFICES ASSUME Inv, Next, NEW p \in Paragraphs, Asks(p),
                      file.rows[p].quality # "failed"
               PROVE  kept[active][p] = 0
    OBVIOUS
  <2>1. TypeOK /\ TranslationsKept BY DEF Inv
  <2>2. ~Restorable(p)
    <3>1. ASSUME NEW f \in Fingerprints, NEW attempt \in Attempts, Open(f, attempt)
          PROVE  FALSE
      BY <3>1 DEF Asks, Open, work
    <3>2. CASE Register BY <3>2 DEF Asks, Register, work
    <3>3. CASE StartReview BY <3>3 DEF Asks, StartReview
    <3>4. CASE Finish \/ End
      <4>1. Over BY <3>4 DEF Finish, End
      <4> QED BY <2>1, <4>1, OverIsIdle DEF Asks
    <3>5. ASSUME NEW q \in Paragraphs, Review(q) PROVE FALSE
      BY <3>5, Phases DEF Asks
    <3>6. ASSUME NEW q \in Paragraphs, Translate(q) PROVE ~Restorable(p)
      BY <2>1, <3>6 DEF Asks, Translate, Restore, Overlook, Ask, Answer, Reject, Fail,
                        Goes, TypeOK
    <3> QED BY <3>1, <3>2, <3>3, <3>4, <3>5, <3>6 DEF Next
  <2> QED BY <2>1, <2>2, AskedForNothing
<1>2. Spec => [][A]_vars BY <1>1, Invariance, PTL DEF Spec
<1> QED BY <1>2 DEF PaidOnce

=============================================================================

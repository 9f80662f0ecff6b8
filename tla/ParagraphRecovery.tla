-------------------------- MODULE ParagraphRecovery --------------------------
(***************************************************************************)
(* How the paragraphs of one document are translated and checkpointed:     *)
(* translation_recovery.py, the workers of il_translator.py and            *)
(* il_translator_llm_only.py, and quality_review.py.                       *)
(*                                                                         *)
(* A run opens the checkpoint of the task, restores what it can, asks the  *)
(* model for the rest in threads that share one lock, has translations     *)
(* reviewed and settles what is left.  It can end between any two steps,   *)
(* by a crash, a cancellation or an error, and be followed by another, of  *)
(* the same attempt or the next, with the same configuration or another.   *)
(* What holds the lock of the checkpoint is one action: the transaction    *)
(* and the copy of it in memory (`entries`, here the rows of `file`).      *)
(***************************************************************************)
EXTENDS Naturals

CONSTANTS
    Paragraphs,     \* paragraphs to be translated, by their keys
    Fingerprints,   \* of the document with a configuration and parser
    Reviewed,       \* the fingerprints with semantic_review
    Limit,          \* REQUEST_LIMIT of the review
    MaxAttempt,     \* bound: attempts of the task
    MaxTexts        \* bound: translations of a paragraph ever received

ASSUME ReviewedAssumption == Reviewed \subseteq Fingerprints
ASSUME BoundsAssumption ==
    /\ Limit \in Nat
    /\ MaxAttempt \in Nat \ {0}
    /\ MaxTexts \in Nat

VARIABLES
    active,         \* the fingerprint in the metadata of the file
    file,           \* the generation in the active tables
    archive,        \* recovery_history and recovery_history_metadata
    run,            \* phase and attempt of the run under way
    current,        \* `current`: the rows as this run has them
    stage,          \* where the worker of a paragraph is
    mark,           \* where the review of a paragraph is
    cached,         \* paragraphs whose approval the review found
    texts,          \* history: translations received per paragraph
    kept,           \* history: the last good translation per fingerprint
    approved,       \* history: the translations a review approved
    sent            \* history: review requests sent

store == <<active, file, archive>>
work == <<stage, mark, cached>>
history == <<texts, kept, approved, sent>>
vars == <<store, run, current, work, history>>

Attempts == 1..MaxAttempt
Texts == 0..MaxTexts

\* quality: "none" is any state but approved (passed, corrected) and failed;
\* `of` is the text that an approval is about.
Row == [status : {"none", "pending", "succeeded", "failed"}, text : Texts,
        quality : {"none", "approved", "failed"}, of : Texts]
NoRow == [status |-> "none", text |-> 0, quality |-> "none", of |-> 0]

Generation == [rows : [Paragraphs -> Row], used : [Attempts -> 0..Limit]]
Empty == [rows |-> [p \in Paragraphs |-> NoRow], used |-> [a \in Attempts |-> 0]]

Phase == {"none", "open", "work", "review"}
Stage == {"new", "batch", "again", "single", "done"}
Mark == {"none", "selected", "reserved", "asked", "corrected", "settled"}

Init ==
    /\ active \in Fingerprints
    /\ file = Empty
    /\ archive = [f \in Fingerprints |-> Empty]
    /\ run = [phase |-> "none", attempt |-> 1]
    /\ current = [p \in Paragraphs |-> NoRow]
    /\ stage = [p \in Paragraphs |-> "new"]
    /\ mark = [p \in Paragraphs |-> "none"]
    /\ cached = {}
    /\ texts = [p \in Paragraphs |-> 0]
    /\ kept = [f \in Fingerprints |-> [p \in Paragraphs |-> 0]]
    /\ approved = {}
    /\ sent = [f \in Fingerprints |-> [a \in Attempts |-> 0]]

-----------------------------------------------------------------------------
(* The checkpoint. *)

\* _commit for one paragraph: an output is never overwritten by "pending".
Commit(p, row) ==
    /\ current' = [current EXCEPT ![p] = row]
    /\ file' = IF row.status = "pending" /\ file.rows[p].status = "succeeded"
               THEN file ELSE [file EXCEPT !.rows[p] = row]
    /\ UNCHANGED <<active, archive>>

\* Mutant: the restored output is looked for among the rows of this run.
RestorableCurrent(p) ==
    /\ current[p].status = "succeeded"
    /\ current[p].quality # "failed"

\* restored: the translation of an earlier run that can be taken as it is.
Restorable(p) ==
    /\ file.rows[p].status = "succeeded"
    /\ file.rows[p].quality # "failed"

\* Mutant: an approval is taken for whatever the text has become.
ReusableForAnyText(row) == row.status = "succeeded" /\ row.quality = "approved"

\* reviewed_output: an approval counts for the text it was given to.
Reusable(row) ==
    /\ row.status = "succeeded"
    /\ row.quality = "approved"
    /\ row.of = row.text

\* Mutant: the budget of the review is not archived.
ArchivedRows(f) == [archive EXCEPT ![f] = [file EXCEPT !.used = Empty.used]]

\* _switch_generation: the active tables replace what was archived of them.
Archived(f) == [archive EXCEPT ![f] = file]

-----------------------------------------------------------------------------
(* The beginning and the end of a run. *)

\* The file is opened, with another generation if the configuration is another.
\* A resumed run has the attempt of the one before it, a repair the next.
Open(f, attempt) ==
    /\ run.phase = "none"
    /\ attempt \in {run.attempt, run.attempt + 1} \cap Attempts
    /\ run' = [phase |-> "open", attempt |-> attempt]
    /\ active' = f
    /\ IF f = active
       THEN UNCHANGED <<file, archive>>
       ELSE /\ archive' = Archived(active)
            /\ file' = archive[f]
    /\ UNCHANGED <<current, work, history>>

\* Mutant: the paragraphs are written as pending whatever is there.
RegisteredOver(row) == [NoRow EXCEPT !.status = "pending"]

\* What register leaves in the file.
Registered(row) ==
    IF row.status = "succeeded" THEN row
    ELSE [NoRow EXCEPT !.status = "pending", !.quality = row.quality, !.of = row.of]

\* register: every paragraph becomes pending, and keeps its quality.
Register ==
    /\ run.phase = "open"
    /\ run' = [run EXCEPT !.phase = "work"]
    /\ file' = [file EXCEPT !.rows = [p \in Paragraphs |-> Registered(@[p])]]
    /\ current' = [p \in Paragraphs |->
          [NoRow EXCEPT !.status = "pending", !.quality = file.rows[p].quality,
                        !.of = file.rows[p].of]]
    /\ UNCHANGED <<active, archive, work, history>>

Over ==
    /\ run' = [run EXCEPT !.phase = "none"]
    /\ current' = [p \in Paragraphs |-> NoRow]
    /\ stage' = [p \in Paragraphs |-> "new"]
    /\ mark' = [p \in Paragraphs |-> "none"]
    /\ cached' = {}

\* The run is cut short.  A cancellation stops its threads one by one, so that
\* what the last of them has recorded is the step before this.
End ==
    /\ run.phase # "none"
    /\ Over
    /\ UNCHANGED <<store, history>>

-----------------------------------------------------------------------------
(* The workers.  The paragraphs of a batch share a request, but each is      *)
(* prepared, judged and recorded by itself.                                  *)

Goes(p, from, to) ==
    /\ run.phase = "work"
    /\ stage[p] = from
    /\ stage' = [stage EXCEPT ![p] = to]
    /\ UNCHANGED <<run, mark, cached>>

\* post_translate_paragraph records the output.
Succeeds(p, text) ==
    /\ Commit(p, [current[p] EXCEPT !.status = "succeeded", !.text = text])
    /\ kept' = [kept EXCEPT ![active][p] = text]

\* pre_translate_paragraph: the paragraph is restored ...
Restore(p) ==
    /\ Goes(p, "new", "done")
    /\ Restorable(p)
    /\ Succeeds(p, file.rows[p].text)
    /\ UNCHANGED <<texts, approved, sent>>

\* ... or asked for, in a batch, and after that perhaps by itself.
Ask(p) ==
    /\ Goes(p, "new", "batch") \/ Goes(p, "again", "single")
    /\ ~Restorable(p)
    /\ UNCHANGED <<store, current, history>>

\* A paragraph that no worker takes up, as its batch could not be prepared.
Overlook(p) ==
    /\ Goes(p, "new", "done")
    /\ UNCHANGED <<store, current, history>>

Answer(p) ==
    /\ Goes(p, "batch", "done") \/ Goes(p, "single", "done")
    /\ texts[p] < MaxTexts
    /\ texts' = [texts EXCEPT ![p] = @ + 1]
    /\ Succeeds(p, texts[p] + 1)
    /\ UNCHANGED <<approved, sent>>

\* An output of a batch that is not valid is asked for again, by itself.
Reject(p) ==
    /\ Goes(p, "batch", "again")
    /\ UNCHANGED <<store, current, history>>

Fail(p) ==
    /\ Goes(p, "batch", "done") \/ Goes(p, "single", "done")
    /\ Commit(p, [current[p] EXCEPT !.status = "failed"])
    /\ UNCHANGED history

-----------------------------------------------------------------------------
(* The review, after the workers are done. *)

Candidates == {p \in Paragraphs : current[p].status = "succeeded"}

\* run reads the approvals first ...
StartReview ==
    /\ run.phase = "work"
    /\ \A p \in Paragraphs : stage[p] = "done"
    /\ active \in Reviewed
    /\ run' = [run EXCEPT !.phase = "review"]
    /\ cached' = {p \in Candidates : Reusable(file.rows[p])}
    /\ UNCHANGED <<store, current, stage, mark, history>>

Judges(p, from, to) ==
    /\ run.phase = "review"
    /\ mark[p] \in from
    /\ mark' = [mark EXCEPT ![p] = to]
    /\ UNCHANGED <<run, stage, cached>>

\* record_quality of a verdict.
Approves(p) ==
    Commit(p, [current[p] EXCEPT !.quality = "approved", !.of = current[p].text])
Leaves(p) ==
    Commit(p, [current[p] EXCEPT !.quality = "none", !.of = 0])

\* ... records which paragraphs it is going to look at, and which not ...
Select(p) ==
    /\ p \in Candidates
    /\ \E to \in {"selected", "settled"} : Judges(p, {"none"}, to)
    /\ Leaves(p)
    /\ UNCHANGED history

Selected == run.phase = "review" /\ \A p \in Candidates : mark[p] # "none"

\* ... approves again what had an approval ...
ApproveCached(p) ==
    /\ Selected /\ p \in cached
    /\ Judges(p, {"selected"}, "settled")
    /\ Approves(p)
    /\ UNCHANGED history

\* One request is answered and its verdicts are recorded before the next.
Turn(p) ==
    /\ Selected /\ p \notin cached
    /\ \A q \in cached : mark[q] # "selected"
    /\ \A q \in Paragraphs \ {p} : mark[q] \notin {"reserved", "asked", "corrected"}

\* ... and asks for the rest, also again after an error of the provider, as
\* long as the budget of the attempt has a request left: _reserve.
Reserve(p) ==
    /\ Turn(p)
    /\ file.used[run.attempt] < Limit
    /\ Judges(p, {"selected", "asked"}, "reserved")
    /\ file' = [file EXCEPT !.used[run.attempt] = @ + 1]
    /\ UNCHANGED <<active, archive, current, history>>

Exhausted(p) ==
    /\ Turn(p)
    /\ file.used[run.attempt] = Limit
    /\ Judges(p, {"selected", "asked"}, "settled")
    /\ Leaves(p)
    /\ UNCHANGED history

Send(p) ==
    /\ Judges(p, {"reserved"}, "asked")
    /\ sent' = [sent EXCEPT ![active][run.attempt] = @ + 1]
    /\ UNCHANGED <<store, current, texts, kept, approved>>

Pass(p) ==
    /\ Judges(p, {"asked"}, "settled")
    /\ Approves(p)
    /\ approved' = approved \cup {<<p, current[p].text>>}
    /\ UNCHANGED <<texts, kept, sent>>

\* A correction is recorded as a translation, and after that as approved.
Correct(p) ==
    /\ Judges(p, {"asked"}, "corrected")
    /\ texts[p] < MaxTexts
    /\ texts' = [texts EXCEPT ![p] = @ + 1]
    /\ Succeeds(p, texts[p] + 1)
    /\ UNCHANGED <<approved, sent>>

Corrected(p) ==
    /\ Judges(p, {"corrected"}, "settled")
    /\ Approves(p)
    /\ approved' = approved \cup {<<p, current[p].text>>}
    /\ UNCHANGED <<texts, kept, sent>>

\* An error, or an answer that proves nothing.
Uncheck(p) ==
    /\ Judges(p, {"asked"}, "settled")
    /\ Leaves(p)
    /\ UNCHANGED history

\* The translation is wrong and cannot be corrected.
Condemn(p) ==
    /\ Judges(p, {"asked"}, "settled")
    /\ Commit(p, [current[p] EXCEPT !.status = "failed", !.quality = "failed", !.of = 0])
    /\ kept' = [kept EXCEPT ![active][p] = 0]
    /\ UNCHANGED <<texts, approved, sent>>

-----------------------------------------------------------------------------

\* finish: what is still pending has failed, and is not in the result.
Finish ==
    /\ \A p \in Paragraphs : stage[p] = "done"
    /\ \/ run.phase = "work" /\ active \notin Reviewed
       \/ Selected /\ \A p \in Candidates : mark[p] = "settled"
    /\ Over
    /\ LET left == {p \in Paragraphs : current[p].status = "pending"}
       IN  /\ file' = [file EXCEPT !.rows = [p \in Paragraphs |->
                 IF p \in left THEN [current[p] EXCEPT !.status = "failed"] ELSE @[p]]]
           /\ kept' = [kept EXCEPT ![active] = [p \in Paragraphs |->
                 IF p \in left THEN 0 ELSE @[p]]]
    /\ UNCHANGED <<active, archive, texts, approved, sent>>

Translate(p) ==
    Restore(p) \/ Overlook(p) \/ Ask(p) \/ Answer(p) \/ Reject(p) \/ Fail(p)

Review(p) ==
    \/ Select(p) \/ ApproveCached(p) \/ Reserve(p) \/ Exhausted(p) \/ Send(p)
    \/ Pass(p) \/ Correct(p) \/ Corrected(p) \/ Uncheck(p) \/ Condemn(p)

Next ==
    \/ \E f \in Fingerprints, attempt \in Attempts : Open(f, attempt)
    \/ Register \/ StartReview \/ Finish \/ End
    \/ \E p \in Paragraphs : Translate(p) \/ Review(p)

Spec == Init /\ [][Next]_vars

-----------------------------------------------------------------------------
(* Properties. *)

\* The generation of a fingerprint, wherever it is.
Of(f) == IF f = active THEN file ELSE archive[f]

TypeOK ==
    /\ active \in Fingerprints
    /\ file \in Generation /\ archive \in [Fingerprints -> Generation]
    /\ run \in [phase : Phase, attempt : Attempts]
    /\ current \in [Paragraphs -> Row]
    /\ stage \in [Paragraphs -> Stage] /\ mark \in [Paragraphs -> Mark]
    /\ cached \subseteq Paragraphs
    /\ texts \in [Paragraphs -> Texts]
    /\ kept \in [Fingerprints -> [Paragraphs -> Texts]]
    /\ approved \subseteq Paragraphs \X Texts
    /\ sent \in [Fingerprints -> [Attempts -> Nat]]

\* The checkpoint of f holds the last good translation of p.
Holds(f, p) ==
    /\ Of(f).rows[p].status = "succeeded"
    /\ Of(f).rows[p].text = kept[f][p]

\* Once a translation was recorded the checkpoint keeps it, until a later
\* translation replaces it, a review condemns it or a run comes to its end
\* without it: no new run, crash, cancellation or other configuration takes it
\* away, unless a verdict on an earlier translation still stands in its row.
TranslationsKept ==
    \A f \in Fingerprints, p \in Paragraphs :
        kept[f][p] # 0 /\ Of(f).rows[p].quality # "failed" => Holds(f, p)

Asks(p) == stage[p] \in {"new", "again"} /\ stage'[p] \in {"batch", "single"}

\* A paragraph that has a translation is not paid for again, unless a review
\* has condemned an earlier one and has not come to look at this one.
PaidOnce ==
    [][\A p \in Paragraphs :
         Asks(p) /\ file.rows[p].quality # "failed" => kept[active][p] = 0]_vars

\* No attempt sends more review requests than it may, however often its run is
\* cut short and begun again, and whatever other configuration ran in between.
ReviewBudgetHolds ==
    \A f \in Fingerprints, a \in Attempts : sent[f][a] <= Limit

\* An approval that a later run would take over is of a text that a review has
\* seen and approved, never of one that replaced it.
ApprovalIsOfText ==
    \A f \in Fingerprints, p \in Paragraphs :
        Reusable(Of(f).rows[p]) => <<p, Of(f).rows[p].text>> \in approved

\* A repair preserves validated translations, whatever came of earlier ones.
RepairPreserves ==
    \A f \in Fingerprints, p \in Paragraphs : kept[f][p] # 0 => Holds(f, p)
=============================================================================

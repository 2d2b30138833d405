--------------------------------- MODULE Study ---------------------------------
(***************************************************************************)
(* A learner over the lessons of Content, while the scripts rewrite them:  *)
(* completions and their events, onboarding (modules/me/onboardingStart),  *)
(* what counts as learned (modules/me/learnedSourates), the achievements   *)
(* (core/achievements, modules/achievements) and the revisions             *)
(* (modules/revision, core/revision, core/revisionChain).                  *)
(*                                                                         *)
(* One learner, whose requests overlap; several handlers may work on his   *)
(* events, and on the same event (Outbox).  Hearts, XP and gems of a       *)
(* completion are in Learner.                                              *)
(***************************************************************************)
EXTENDS Content

CONSTANTS Worker,      \* overlapping requests and handlers
          Quality,     \* the answers the learner gives: "facile", "difficile", "oublie"
          MaxRequests,    \* bound on the learner's requests
          MaxAborts,   \* bound on handlers and requests that die
          MaxMixed     \* bound on scripts, requests and faults where there are both

ASSUME StudyAssumption ==
    /\ Quality \subseteq {"facile", "difficile", "oublie"}
    /\ {MaxRequests, MaxAborts, MaxMixed} \subseteq Nat

SegmentSize == 10      \* SEGMENT_SIZE
MinDays == 1           \* MIN_INTERVAL_DAYS
MaxDays == 90          \* MAX_INTERVAL_DAYS
NoOp == [step |-> "none"]

VARIABLES
    pending,    \* lesson.completed events still to be handled, by their lesson
    achieved,   \* Achievement: <<"sourate", s>> and <<"section", k>>
    chain,      \* SourateChainProgress: lessonsConsolidees and terminee
    revision,   \* SourateRevision and LettreRevision: score and intervalleJours
    op,         \* what each worker has read and has still to write
    requests, aborts,
    owed,       \* history: surahs whose last lesson was completed by studying it
    dropped,    \* history: surahs an event of which was lost when they were owed already
    divided     \* history: surahs whose lessons a script has changed

studyVars == <<contentVars, pending, achieved, chain, revision, op, requests, aborts,
               owed, dropped, divided>>

-----------------------------------------------------------------------------
(* What a learner has learned. *)

InSection(k) == {l \in LessonKeys : l[1] = k}
LessonAt(l) == lesson[l[1]][l[2]]
Tagged(s) == {l \in LessonKeys : LessonAt(l).sourate = s}
Before(l, m) == l[1] < m[1] \/ (l[1] = m[1] /\ l[2] < m[2])

\* getLearnedSourates: all the lessons of the surah, or, when it has none of its
\* own, all those of the sections it is linked to.
LessonsToLearn(s) ==
    IF Tagged(s) # {} THEN Tagged(s)
    ELSE UNION {InSection(k) : k \in {j \in DOMAIN links : s \in ToSet(links[j])}}
LearnedSourates ==
    {s \in sourates : LessonsToLearn(s) # {} /\ LessonsToLearn(s) \subseteq progress}

\* getLearnedLettreLessons.
LearnedLettres == progress \cap Tagged(NoSurah)

\* loadChainLessons and countLearnedChainLessons: by ordre, whatever the section,
\* and the completed ones from the first without a gap.
ChainBefore(s, l) == {m \in Tagged(s) : m[2] < l[2] \/ (m[2] = l[2] /\ m[1] < l[1])}
LearnedChain(s)   == {l \in Tagged(s) \cap progress : ChainBefore(s, l) \subseteq progress}
LearnedCount(s)   == Cardinality(LearnedChain(s))
ChainLength(s)    == Cardinality(Tagged(s))

\* computeChainStep: the verses the learner is asked to recite next in one go.
Assembled(s, count) ==
    LET At(i) == CHOOSE l \in Tagged(s) : Cardinality(ChainBefore(s, l)) = i
    IN IF count >= ChainLength(s) THEN {}
       ELSE (LessonAt(At(0)).debut)..(LessonAt(At(count)).fin)

\* computeNextRevision.
NextRevision(row, quality) ==
    CASE quality = "facile"    -> [score |-> Min({100, row.score + 15}),
                                   days  |-> Min({MaxDays, (22 * row.days + 5) \div 10})]
      [] quality = "difficile" -> [score |-> Max({0, row.score - 5}),
                                   days  |-> Max({MinDays, (12 * row.days + 5) \div 10})]
      [] OTHER                 -> [score |-> Max({0, row.score - 25}), days |-> MinDays]

\* segmentCount, and the items that are revised: segments and lessons of letters.
SegmentCount(s) == Max({1, (Len(Words[s]) + SegmentSize - 1) \div SegmentSize})
Segments(s) == {<<"segment", s, i>> : i \in 0..(SegmentCount(s) - 1)}
Lettre(l) == <<"lettre", l[1], l[2]>>
NewRevision == [score |-> 0, days |-> 1]
WithRows(items) == revision @@ [i \in items |-> NewRevision]

\* The cursor of a surah, created at 0 when first asked for.
Cursor(s) == IF s \in DOMAIN chain THEN chain[s] ELSE [count |-> 0, done |-> FALSE]
WithCursor(s) == [t \in DOMAIN chain \cup {s} |-> Cursor(t)]

-----------------------------------------------------------------------------
Call == requests < MaxRequests /\ requests' = requests + 1

\* lessonService.complete, the first time: every lesson before it is completed.
\* Progress and event are one transaction.
CompleteLesson(l) ==
    /\ Call /\ l \in LessonKeys \ progress
    /\ \A m \in LessonKeys : Before(m, l) => m \in progress
    /\ progress' = progress \cup {l}
    /\ pending' = pending \cup {l}
    /\ owed' = LET s == LessonAt(l).sourate
               IN IF s # NoSurah /\ Tagged(s) \subseteq progress' THEN owed \cup {s} ELSE owed
    /\ UNCHANGED <<sourates, verset, section, links, lesson, script, again, runs, faults, fresh,
                   achieved, chain, revision, op, aborts, dropped, divided>>

\* applyOnboardingStart: who can read is past the alphabet; who knows surahs is
\* past all that comes before the first lesson of the furthest of them, and past
\* their lessons in the sections up to there.  No event.
Onboard(reads, known) ==
    LET Firsts == {l \in LessonKeys : LessonAt(l).sourate \in known /\
                     \A m \in Tagged(LessonAt(l).sourate) : ~Before(m, l)}
        UpTo(f) == {l \in LessonKeys : ~Before(f, l)}
                   \cup {l \in LessonKeys : LessonAt(l).sourate \in known /\ l[1] <= f[1]}
        furthest == {f \in Firsts : \A g \in Firsts : ~Before(f, g)}
    IN /\ Call
       /\ progress' = progress \cup (IF reads /\ Alphabet \in DOMAIN section
                                     THEN InSection(Alphabet) ELSE {})
                               \cup UNION {UpTo(f) : f \in furthest}
       /\ UNCHANGED <<sourates, verset, section, links, lesson, script, again, runs, faults, fresh,
                      pending, achieved, chain, revision, op, aborts, owed, dropped, divided>>

-----------------------------------------------------------------------------
(* Achievements: the handler of lesson.completed.  An event stays in the     *)
(* outbox until a handler ends, and may be handled several times; or it      *)
(* leaves the outbox with no handler having run to its end.                  *)

HandlerFrame == UNCHANGED <<contentVars, chain, revision, requests, owed, dropped, divided>>

\* Mutant: the event is done before what it brings is recorded.
DetectDone(w, l) ==
    LET s == LessonAt(l).sourate
        mastered == s # NoSurah /\ Tagged(s) \subseteq progress /\ <<"sourate", s>> \notin achieved
    IN /\ op[w] = NoOp /\ l \in pending
       /\ op' = [op EXCEPT ![w] =
              [step |-> IF mastered THEN "record" ELSE "section", l |-> l, s |-> s]]
       /\ pending' = pending \ {l}
       /\ UNCHANGED <<achieved, aborts>> /\ HandlerFrame

\* detectNewlyMasteredSourate.
Detect(w, l) ==
    LET s == LessonAt(l).sourate
        mastered == s # NoSurah /\ Tagged(s) \subseteq progress /\ <<"sourate", s>> \notin achieved
    IN /\ op[w] = NoOp /\ l \in pending
       /\ op' = [op EXCEPT ![w] =
              [step |-> IF mastered THEN "record" ELSE "section", l |-> l, s |-> s]]
       /\ UNCHANGED <<pending, achieved, aborts>> /\ HandlerFrame

\* recordMastery: finds it recorded, or fails on the unique key when another
\* handler records it in between; the event is then handled again.
Record(w) ==
    LET a == <<"sourate", op[w].s>>
    IN /\ op[w].step = "record"
       /\ achieved' = achieved \cup {a}
       /\ \/ op' = [op EXCEPT ![w] = [step |-> "section", l |-> op[w].l, s |-> op[w].s]]
          \/ a \in achieved /\ op' = [op EXCEPT ![w] = NoOp]
       /\ UNCHANGED <<pending, aborts>> /\ HandlerFrame

\* recordSectionIfCompleted, after which the event is done.
RecordSection(w) ==
    LET l == op[w].l
    IN /\ op[w].step = "section"
       /\ achieved' = achieved \cup
              IF l \in LessonKeys /\ InSection(l[1]) \subseteq progress
              THEN {<<"section", l[1]>>} ELSE {}
       /\ pending' = pending \ {l}
       /\ op' = [op EXCEPT ![w] = NoOp]
       /\ UNCHANGED aborts /\ HandlerFrame

\* The maintenance job drains the event: no handler is registered in its process,
\* and it marks the event processed all the same (Discard of EventDelivery).  An
\* event that is given up, its last attempt having failed, is lost in the same way:
\* attempts are not counted here, as the job may take the event at any attempt.
LeaveUnhandled(l) ==
    /\ l \in pending
    /\ pending' = pending \ {l}
    /\ dropped' = dropped \cup ({LessonAt(l).sourate} \cap owed)
    /\ UNCHANGED <<contentVars, achieved, chain, revision, op, requests, aborts, owed, divided>>

\* A handler or a request dies: what it read is lost.
Die(w) ==
    /\ op[w] # NoOp /\ aborts < MaxAborts /\ aborts' = aborts + 1
    /\ op' = [op EXCEPT ![w] = NoOp]
    /\ UNCHANGED <<pending, achieved>> /\ HandlerFrame

-----------------------------------------------------------------------------
(* Guided revision: the cursor is read, and written with no lock.           *)

GuidedFrame == UNCHANGED <<contentVars, pending, achieved, revision, aborts, owed, dropped, divided>>

\* getGuided: brings the cursor back to what is learned, if it must.
GetGuided(w, s) ==
    LET row    == Cursor(s)
        capped == Min({row.count, LearnedCount(s)})
        new    == [count |-> capped, done |-> capped >= ChainLength(s)]
    IN /\ Call /\ op[w] = NoOp /\ s \in sourates /\ LearnedCount(s) > 0
       /\ chain' = WithCursor(s)
       /\ op' = IF new = row THEN op
                ELSE [op EXCEPT ![w] = [step |-> "guided", s |-> s, new |-> new]]
       /\ GuidedFrame

\* Mutant: one lesson further, whatever is learned.
AdvanceUncapped(w, s, forgot) ==
    LET learned == LearnedCount(s)
        total   == ChainLength(s)
        next    == Cursor(s).count + IF forgot THEN 0 ELSE 1
    IN /\ Call /\ op[w] = NoOp /\ s \in sourates /\ learned > 0 /\ Cursor(s).count < total
       /\ op' = [op EXCEPT ![w] =
              [step |-> "guided", s |-> s, new |-> [count |-> next, done |-> next >= total]]]
       /\ chain' = WithCursor(s) /\ GuidedFrame

\* advanceGuided: one lesson further, unless forgotten, and never past what is
\* learned.
AdvanceGuided(w, s, forgot) ==
    LET learned == LearnedCount(s)
        total   == ChainLength(s)
        current == Min({Cursor(s).count, learned})
        next    == Min({current + IF forgot THEN 0 ELSE 1, learned})
    IN /\ Call /\ op[w] = NoOp /\ s \in sourates /\ learned > 0 /\ current < total
       /\ op' = [op EXCEPT ![w] =
              [step |-> "guided", s |-> s, new |-> [count |-> next, done |-> next >= total]]]
       /\ chain' = WithCursor(s) /\ GuidedFrame

WriteGuided(w) ==
    /\ op[w].step = "guided"
    /\ chain' = [chain EXCEPT ![op[w].s] = op[w].new]
    /\ op' = [op EXCEPT ![w] = NoOp]
    /\ UNCHANGED requests /\ GuidedFrame

-----------------------------------------------------------------------------
(* Spaced revision. *)

RevisionFrame == UNCHANGED <<contentVars, pending, achieved, chain, aborts, owed, dropped, divided>>

\* list, getSegments and listLettres: rows for what is learned are created as
\* they are asked for.
ListSegments(S) ==
    /\ Call /\ S \subseteq LearnedSourates
    /\ revision' = WithRows(UNION {Segments(s) : s \in S}) /\ revision' # revision
    /\ UNCHANGED op /\ RevisionFrame

ListLettres ==
    /\ Call
    /\ revision' = WithRows({Lettre(l) : l \in LearnedLettres}) /\ revision' # revision
    /\ UNCHANGED op /\ RevisionFrame

\* reviewSegment and reviewLettre: the row is created or read, then written from
\* what was read.
ReviewItem(w, item, quality) ==
    /\ Call /\ op[w] = NoOp
    /\ revision' = WithRows({item})
    /\ op' = [op EXCEPT ![w] = [step |-> "review", item |-> item,
                                new |-> NextRevision(revision'[item], quality)]]
    /\ RevisionFrame

ReviewSegment(w, s, quality) ==
    s \in LearnedSourates /\ \E item \in Segments(s) : ReviewItem(w, item, quality)
ReviewLettre(w, l, quality) == l \in LearnedLettres /\ ReviewItem(w, Lettre(l), quality)

WriteReview(w) ==
    /\ op[w].step = "review"
    /\ revision' = IF op[w].item \in DOMAIN revision
                   THEN [revision EXCEPT ![op[w].item] = op[w].new] ELSE revision
    /\ op' = [op EXCEPT ![w] = NoOp]
    /\ UNCHANGED requests /\ RevisionFrame

-----------------------------------------------------------------------------
\* A deleted lesson takes its revisions along, and its events find nothing.
Scripted ==
    LET Of(s) == [l \in Tagged(s) |-> <<LessonAt(l).debut, LessonAt(l).fin>>]
    IN /\ ScriptStep
       /\ pending' = pending \cap LessonKeys'
       /\ revision' = [i \in {j \in DOMAIN revision :
                          j[1] = "lettre" => <<j[2], j[3]>> \in LessonKeys'} |-> revision[i]]
       /\ divided' = divided \cup {s \in Surah : Of(s) # Of(s)'}
       /\ UNCHANGED <<achieved, chain, op, requests, aborts, owed, dropped>>

StudyInit ==
    /\ ContentInit
    /\ pending = {} /\ revision = <<>>
    /\ achieved = {<<"sourate", s>> : s \in {r \in Surah : LearnedCount(r) > 0}}
    /\ chain = [s \in {r \in Surah : LearnedCount(r) > 0} |->
                    [count |-> LearnedCount(s), done |-> TRUE]]
    /\ op = [w \in Worker |-> NoOp]
    /\ requests = 0 /\ aborts = 0 /\ owed = {} /\ dropped = {} /\ divided = {}

Bounded ==
    runs = 0 \/ requests = 0 \/ runs + faults + requests + aborts <= MaxMixed

StudyStep ==
    \/ Scripted
    \/ \E l \in LessonKeys : CompleteLesson(l)
    \/ \E reads \in BOOLEAN, known \in SUBSET Surah : Onboard(reads, known)
    \/ \E S \in SUBSET Surah : ListSegments(S)
    \/ ListLettres
    \/ \E l \in pending : LeaveUnhandled(l)
    \/ \E w \in Worker :
          \/ \E l \in pending : Detect(w, l)
          \/ Record(w) \/ RecordSection(w) \/ Die(w)
          \/ \E s \in Surah : GetGuided(w, s) \/ \E forgot \in BOOLEAN : AdvanceGuided(w, s, forgot)
          \/ WriteGuided(w)
          \/ \E q \in Quality :
                \/ \E s \in Surah : ReviewSegment(w, s, q)
                \/ \E l \in LessonKeys : ReviewLettre(w, l, q)
          \/ WriteReview(w)

StudyNext == StudyStep /\ Bounded'

StudySpec == StudyInit /\ [][StudyNext]_studyVars

-----------------------------------------------------------------------------
\* A surah whose last missing lesson was studied is recorded as mastered, or an
\* event that will record it is still to be handled, unless the outbox has since
\* lost an event of it (the job that handles nothing, the last attempt); handlers
\* that overlap, fail on the unique key or die lose none by themselves.  And
\* nothing is recorded as mastered that is not (achievements.ts).
MasteryRecorded ==
    \A s \in Surah \ divided :
        /\ s \in owed \ dropped =>
              <<"sourate", s>> \in achieved \/ \E l \in pending : LessonAt(l).sourate = s
        /\ <<"sourate", s>> \in achieved => Tagged(s) \subseteq progress

\* What lesson.service.ts expects of the job, and the job does not do: an event
\* whose handling failed waits until a handler has recorded what it brings.
MasteryAwaited ==
    \A s \in owed \ divided :
        <<"sourate", s>> \in achieved \/ \E l \in pending : LessonAt(l).sourate = s

\* The learner is never considered to have consolidated lessons he has not
\* completed, with overlapping requests that write what they computed from
\* cursors read before.
GuidedNeverAhead ==
    \A s \in DOMAIN chain \ divided : chain[s].count <= LearnedCount(s)

\* What countLearnedChainLessons says of itself: the learner is only asked to
\* assemble verses of lessons he has completed.  The code does not do this: once
\* the cursor has reached the last completed lesson, the next one is offered.
GuidedOffersLearned ==
    \A s \in Surah \ divided :
        LearnedCount(s) > 0 =>
            \A n \in Assembled(s, Min({Cursor(s).count, LearnedCount(s)})) :
                \E l \in Tagged(s) \cap progress : n \in LessonAt(l).debut..LessonAt(l).fin

=============================================================================

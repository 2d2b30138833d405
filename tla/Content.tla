-------------------------------- MODULE Content --------------------------------
(***************************************************************************)
(* The verses, the lessons made of them and the scripts that write both:   *)
(* prisma/importQuran.ts, addMissingTranslations.ts, seed.ts,              *)
(* generateLessons.ts, generateAlphabet.ts and lessonBuilder.ts.           *)
(*                                                                         *)
(* A script has no transaction: it is a sequence of writes, and may stop   *)
(* between any two of them and be started again.  Here a script is what it *)
(* has left to do: a sequence of batches, each a set of pipelines that run *)
(* at the same time (Promise.all), each pipeline a sequence of tasks, one  *)
(* task one write.  Some tasks read and put batches in front.  One script  *)
(* runs at a time, as an operator starts them by hand.                     *)
(*                                                                         *)
(* A verse is the number of its words and the languages it is translated   *)
(* to; a step of a lesson is its type; titles and texts are left out.      *)
(***************************************************************************)
EXTENDS Integers, FiniteSets, Sequences, SequencesExt, FiniteSetsExt, TLC

CONSTANTS
    Surah,           \* the numbers of the surahs
    Words,           \* Words[s][n]: words of verse n of surah s in the sources
    Hizb,            \* Hizb[s]: the hizb in which surah s starts
    Lang,            \* languages of the translations, "fr" among them
    Letters,         \* LETTERS: 28
    LetterLessons,   \* LETTER_LESSONS: 7
    SignLetters,     \* HARAKA_LETTERS: 11
    Signs,           \* the lessons on signs, in their order
    SeedLessons,     \* lessons seeded in the alphabet: 10
    DemoSteps,       \* types of the steps of the demo lesson
    Concurrency,     \* VERSE_CONCURRENCY and CONCURRENCY: 8
    Scripts,         \* the scripts that may be started
    MaxScripts, MaxFaults,   \* bounds on runs of scripts, on crashes and retries
    Starts           \* how the database is at first: "empty", "full", or "unlinked"

ASSUME ContentAssumption ==
    /\ Surah \subseteq Nat \ {0} /\ IsFiniteSet(Surah) /\ "fr" \in Lang
    /\ DOMAIN Words = Surah /\ Hizb \in [Surah -> Nat \ {0}]
    /\ {Letters, LetterLessons, SignLetters, SeedLessons, Concurrency} \subseteq Nat \ {0}
    /\ {MaxScripts, MaxFaults} \subseteq Nat 
    /\ Starts \subseteq {"empty", "full", "unlinked"}
    /\ Scripts \subseteq {"import", "reimport", "translate", "seed", "lessons", "alphabet"}

LongVerse   == 7     \* LONG_VERSE_THRESHOLD
MinOrdering == 3     \* MIN_ORDERING_WORDS
Fatiha      == 1
Alphabet    == 1     \* the ordre of the section of the alphabet
NoSurah     == 0     \* sourateNumero null
Absent      == [mots |-> -1, langs |-> {}]

VARIABLES
    sourates,   \* the surahs with a row
    verset,     \* verset[s][n]: words and translations of a verse, or Absent
    section,    \* section[k]: the hizb of section k, 0 for the alphabet
    links,      \* links[k]: SectionSourate, the surahs of section k in their order
    lesson,     \* lesson[k]: Lesson, from ordre to surah, verses and types of the steps
    progress,   \* LessonProgress: the completed lessons of a learner, <<section, ordre>>
    script,     \* what the running script has left
    again,      \* what withRetry would start over
    runs, faults,
    fresh       \* history: sections generated since the content last changed

database    == <<sourates, verset, section, links, lesson, progress>>
contentVars == <<database, script, again, runs, faults, fresh>>

-----------------------------------------------------------------------------
(* From verses to lessons (lessonBuilder.ts, generateAlphabet.ts). *)

VersesOf(s) == DOMAIN Words[s]
Descending(S) == SetToSortSeq(S, >)

\* loadVersets: the numbers of the stored verses, in order.
Loaded(s) == SetToSortSeq({n \in VersesOf(s) : verset[s][n] # Absent}, <)

\* groupVerses: a long verse alone, two short neighbours together.
GroupVerses(s) ==
    LET list == Loaded(s)
        Short(i) == i <= Len(list) /\ verset[s][list[i]].mots <= LongVerse
        from[i \in 1..(Len(list) + 2)] ==
            IF i > Len(list) THEN <<>>
            ELSE IF Short(i) /\ Short(i + 1)
                 THEN << <<list[i], list[i + 1]>> >> \o from[i + 2]
                 ELSE << <<list[i]>> >> \o from[i + 1]
    IN from[1]

\* makeOrdering and makeWritten: a step that may have no ground to exist on.
Discover(v) == <<"discovery">> \o IF v.mots >= MinOrdering THEN <<"ordering">> ELSE <<>>
Written(v)  == IF "fr" \in v.langs THEN <<"written">> ELSE <<>>

Matching(v) == IF Len(v) = 2 /\ \A i \in DOMAIN v : "fr" \in v[i].langs THEN <<"matching">> ELSE <<>>
Voice == <<"voice">>

\* buildGroupSteps: the types of the steps for one or two verses.
GroupSteps(s, group) ==
    LET v == [i \in DOMAIN group |-> verset[s][group[i]]]
        Each(Op(_)) == FlattenSeq([i \in DOMAIN v |-> Op(v[i])])
    IN Each(Discover) \o Matching(v) \o Each(Written) \o Voice

NoVerses(steps) == [sourate |-> NoSurah, debut |-> 0, fin |-> 0, steps |-> steps]
LessonsOf(s) ==
    LET groups == GroupVerses(s)
    IN [i \in DOMAIN groups |->
            [sourate |-> s, debut |-> groups[i][1], fin |-> Last(groups[i]),
             steps |-> GroupSteps(s, groups[i])]]

Quiz(n) == FlattenSeq([i \in 1..n |-> <<"discovery", "written">>])

\* chunkEven: n letters in as equal parts as possible.
ChunkEven(n, parts) ==
    [i \in 1..parts |-> n \div parts + IF i <= n % parts THEN 1 ELSE 0]

\* buildLetterSteps.
LetterSteps(n) == Quiz(n) \o (IF n >= 3 THEN <<"ordering">> ELSE <<>>)
                          \o (IF n >= 2 THEN <<"matching">> ELSE <<>>)

HarakaIntro == <<"discovery">>

\* buildSimpleHarakaSteps.
SimpleHarakaSteps(n) ==
    HarakaIntro \o Quiz(n) \o IF n >= 2 THEN <<"matching">> ELSE <<>>

\* buildTanwinSteps: three signs, each with its introduction.
TanwinSteps(n) ==
    FlattenSeq([t \in 1..3 |-> HarakaIntro \o Quiz(n)]) \o <<"matching">>

\* buildHarakaSummarySteps.
HarakaSummarySteps(n) ==
    [i \in 1..4 |-> "discovery"] \o <<"matching">> \o [i \in 1..Min({n, 6}) |-> "written"]

SignSteps(sign) ==
    CASE sign = "tanwin"  -> TanwinSteps(Min({SignLetters, 6}))
      [] sign = "summary" -> HarakaSummarySteps(SignLetters)
      [] OTHER            -> SimpleHarakaSteps(SignLetters)

\* The lessons of the alphabet: letters, signs, then Al-Fatiha.
AlphabetBlueprints ==
    LET groups == SelectSeq(ChunkEven(Letters, LetterLessons), LAMBDA n : n > 0)
    IN [i \in DOMAIN groups |-> NoVerses(LetterSteps(groups[i]))]
       \o [i \in DOMAIN Signs |-> NoVerses(SignSteps(Signs[i]))]
       \o (IF Fatiha \in sourates THEN LessonsOf(Fatiha) ELSE <<>>)

\* The lessons of a hizb: those of its surahs, in the order of the links.
HizbBlueprints(list) == FlattenSeq([i \in DOMAIN list |-> LessonsOf(list[i])])

-----------------------------------------------------------------------------
(* Batches. *)

InSequence(tasks) == IF tasks = <<>> THEN <<>> ELSE << {tasks} >>

\* The pipelines of a sequence, Concurrency at a time.
InBatches(pipes) ==
    LET size == (Len(pipes) + Concurrency - 1) \div Concurrency
    IN [b \in 1..size |->
            {pipes[i] : i \in {j \in DOMAIN pipes : (j - 1) \div Concurrency + 1 = b}}]

\* What is left once the first task of pipeline p is done.
Done(p) ==
    LET left == (Head(script) \ {p}) \cup (IF Len(p) = 1 THEN {} ELSE {Tail(p)})
    IN (IF left = {} THEN <<>> ELSE <<left>>) \o Tail(script)

NoScript == script = <<>>

\* The writes of one verse (importVerset), in their order.
VersePipeline(s, n) ==
    LET langs == SetToSeq(Lang)
        Task(what, l) == [do |-> what, s |-> s, n |-> n, l |-> l]
    IN <<Task("row", "")>>
       \o FlattenSeq([i \in DOMAIN langs |-> <<Task("clear", langs[i]), Task("text", langs[i])>>])
       \o <<Task("unword", ""), Task("word", "")>>

LessonPipeline(k, o, bp) ==
    LET Task(what) == [do |-> what, k |-> k, o |-> o, bp |-> bp]
    IN <<Task("lesson"), Task("steps"), Task("trim")>>

-----------------------------------------------------------------------------
(* Starting a script. *)

Start(name, batches) ==
    /\ name \in Scripts /\ NoScript /\ runs < MaxScripts /\ runs' = runs + 1
    /\ script' = batches /\ again' = <<>>
    /\ UNCHANGED <<database, faults, fresh>>

\* importQuran: the last `limit` surahs, the last one first.
StartImport(force, limit) ==
    LET list == SubSeq(Descending(Surah), 1, limit)
    IN Start(IF force THEN "reimport" ELSE "import",
             InSequence([i \in DOMAIN list |-> [do |-> "surah", s |-> list[i], force |-> force]]))

\* addMissingTranslations: creates what has no row in that language, nothing else.
StartTranslate(l) ==
    LET Lacking(s) == SelectSeq(Loaded(s), LAMBDA n : l \notin verset[s][n].langs)
        list == Descending(sourates)
        Of(s) == [i \in DOMAIN Lacking(s) |->
                    [do |-> "text", s |-> s, n |-> Lacking(s)[i], l |-> l]]
    IN Start("translate", InSequence(FlattenSeq([i \in DOMAIN list |-> Of(list[i])])))

\* seed: the alphabet, one section for each hizb from the last, the demo lesson.
StartSeed ==
    LET hizbs == Descending({Hizb[s] : s \in sourates})
        Placeholders(k, n) == [i \in 1..n |-> [do |-> "placeholder", k |-> k, o |-> i]]
        Section(k, h) == <<[do |-> "section", k |-> k, hizb |-> h]>>
        OfHizb(h) == Descending({s \in sourates : Hizb[s] = h})
        HizbTasks(i) ==
            LET k == i + 1
                list == OfHizb(hizbs[i])
            IN Section(k, hizbs[i])
               \o <<[do |-> "unlink", k |-> k], [do |-> "link", k |-> k, list |-> list]>>
               \o Placeholders(k, Len(list))
    IN Start("seed", InSequence(
           Section(Alphabet, 0) \o Placeholders(Alphabet, SeedLessons)
           \o FlattenSeq([i \in DOMAIN hizbs |-> HizbTasks(i)])
           \o <<[do |-> "undemo"]>> \o [i \in DOMAIN DemoSteps |-> [do |-> "demo", i |-> i]]))

Collects(list) == InSequence([i \in DOMAIN list |-> [do |-> "collect", k |-> list[i]]])

\* generateLessons: every section of a hizb.
StartLessons ==
    Start("lessons", Collects(SelectSeq([k \in DOMAIN section |-> k], LAMBDA k : section[k] # 0)))

\* generateAlphabet, which fails without the section.
StartAlphabet == Alphabet \in DOMAIN section /\ Start("alphabet", Collects(<<Alphabet>>))

-----------------------------------------------------------------------------
(* The tasks.  Each performs the first task t of pipeline p. *)

\* The resume check of an import: a surah with all its verses, each with words,
\* is passed over, whatever its translations.
AlreadyImported(s) ==
    /\ s \in sourates
    /\ \A n \in VersesOf(s) : verset[s][n] # Absent /\ verset[s][n].mots > 0

ImportSurah(p, t) ==
    /\ t.do = "surah"
    /\ IF ~t.force /\ AlreadyImported(t.s)
       THEN script' = Done(p) /\ UNCHANGED sourates
       ELSE /\ sourates' = sourates \cup {t.s}
            /\ script' = InBatches([n \in VersesOf(t.s) |-> VersePipeline(t.s, n)]) \o Done(p)
    /\ UNCHANGED <<verset, section, links, lesson, progress, again, fresh>>

\* The writes of importVerset: the row, each language cleared then written, the words.
ImportVerset(p, t) ==
    LET v == verset[t.s][t.n]
        new == CASE t.do = "row"    -> IF v = Absent THEN [mots |-> 0, langs |-> {}] ELSE v
                 [] t.do = "clear"  -> [v EXCEPT !.langs = @ \ {t.l}]
                 [] t.do = "text"   -> [v EXCEPT !.langs = @ \cup {t.l}]
                 [] t.do = "unword" -> [v EXCEPT !.mots = 0]
                 [] OTHER           -> [v EXCEPT !.mots = Words[t.s][t.n]]
    IN /\ t.do \in {"row", "clear", "text", "unword", "word"}
       /\ verset' = [verset EXCEPT ![t.s][t.n] = new]
       /\ fresh' = IF new = v THEN fresh ELSE {}
       /\ script' = Done(p)
       /\ UNCHANGED <<sourates, section, links, lesson, progress, again>>

\* seedSections: a section keeps the hizb it was created with.
SeedSection(p, t) ==
    /\ t.do = "section"
    /\ IF t.k \in DOMAIN section
       THEN UNCHANGED <<section, links, lesson>>
       ELSE /\ section' = Append(section, t.hizb)
            /\ links' = Append(links, <<>>) /\ lesson' = Append(lesson, <<>>)
    /\ script' = Done(p)
    /\ UNCHANGED <<sourates, verset, progress, again, fresh>>

\* The links of a section are deleted, then created.
SeedLinks(p, t) ==
    /\ t.do \in {"unlink", "link"}
    /\ links' = [links EXCEPT ![t.k] = IF t.do = "link" THEN t.list ELSE <<>>]
    /\ fresh' = fresh \ {t.k}
    /\ script' = Done(p)
    /\ UNCHANGED <<sourates, verset, section, lesson, progress, again>>

\* ensureLessons and the lessons of a hizb: a lesson that exists only gets its title.
SeedPlaceholder(p, t) ==
    /\ t.do = "placeholder"
    /\ IF t.o \in DOMAIN lesson[t.k]
       THEN UNCHANGED <<lesson, fresh>>
       ELSE /\ lesson' = [lesson EXCEPT ![t.k] = @ @@ (t.o :> NoVerses(<<>>))]
            /\ fresh' = fresh \ {t.k}
    /\ script' = Done(p)
    /\ UNCHANGED <<sourates, verset, section, links, progress, again>>

\* seedDemoLesson: the steps of the first lesson are deleted and created one by one.
SeedDemo(p, t) ==
    /\ t.do \in {"undemo", "demo"}
    /\ lesson' = [lesson EXCEPT ![Alphabet][1].steps =
                    IF t.do = "demo" THEN Append(@, DemoSteps[t.i]) ELSE <<>>]
    /\ fresh' = fresh \ {Alphabet}
    /\ script' = Done(p)
    /\ UNCHANGED <<sourates, verset, section, links, progress, again>>

\* A section is generated from what its surahs are when its turn comes.  A
\* retry collects a hizb again, but writes the same lessons of the alphabet.
CollectSection(p, t) ==
    LET bps   == IF t.k = Alphabet THEN AlphabetBlueprints ELSE HizbBlueprints(links[t.k])
        pipes == [o \in DOMAIN bps |-> LessonPipeline(t.k, o, bps[o])]
        write == (IF t.k = Alphabet THEN InSequence(FlattenSeq(pipes)) ELSE InBatches(pipes))
                 \o << {<<[do |-> "surplus", k |-> t.k, n |-> Len(bps)]>>} >> \o Done(p)
    IN /\ t.do = "collect"
       /\ script' = write
       /\ again' = IF t.k = Alphabet THEN write ELSE script
       /\ fresh' = fresh \ {t.k}
       /\ UNCHANGED database

\* Upserted in place by (section, ordre): the row, and with it the progress, stays.
WriteLesson(p, t) ==
    /\ t.do = "lesson"
    /\ lesson' = [lesson EXCEPT ![t.k] =
            (t.o :> [t.bp EXCEPT !.steps =
                        IF t.o \in DOMAIN lesson[t.k] THEN lesson[t.k][t.o].steps ELSE <<>>]) @@ @]
    /\ script' = Done(p)
    /\ UNCHANGED <<sourates, verset, section, links, progress, again, fresh>>

\* The steps are upserted by position; those beyond the last are deleted after.
Upserted(old, new) == new \o SubSeq(old, Len(new) + 1, Len(old))

\* Mutant: the steps beyond the last are kept.
WriteStepsUntrimmed(p, t) ==
    /\ t.do \in {"steps", "trim"}
    /\ lesson' = [lesson EXCEPT ![t.k][t.o].steps = Upserted(@, t.bp.steps)]
    /\ script' = Done(p)
    /\ UNCHANGED <<sourates, verset, section, links, progress, again, fresh>>

WriteSteps(p, t) ==
    /\ t.do \in {"steps", "trim"}
    /\ lesson' = [lesson EXCEPT ![t.k][t.o].steps =
            IF t.do = "steps" THEN Upserted(@, t.bp.steps) ELSE SubSeq(@, 1, Len(t.bp.steps))]
    /\ script' = Done(p)
    /\ UNCHANGED <<sourates, verset, section, links, progress, again, fresh>>

\* Lessons beyond the last are deleted, and with them what learners did of them.
DeleteSurplus(p, t) ==
    /\ t.do = "surplus"
    /\ lesson' = [lesson EXCEPT ![t.k] = [o \in {i \in DOMAIN @ : i <= t.n} |-> @[o]]]
    /\ progress' = {l \in progress : l[1] = t.k => l[2] <= t.n}
    /\ fresh' = fresh \cup {t.k}
    /\ script' = Done(p) /\ again' = <<>>
    /\ UNCHANGED <<sourates, verset, section, links>>

Task ==
    /\ ~NoScript
    /\ \E p \in Head(script) :
          \/ ImportSurah(p, Head(p)) \/ ImportVerset(p, Head(p))
          \/ SeedSection(p, Head(p)) \/ SeedLinks(p, Head(p)) \/ SeedPlaceholder(p, Head(p))
          \/ SeedDemo(p, Head(p)) \/ CollectSection(p, Head(p))
          \/ WriteLesson(p, Head(p)) \/ WriteSteps(p, Head(p)) \/ DeleteSurplus(p, Head(p))
    /\ UNCHANGED <<runs, faults>>

\* The steps of the lessons being written when a script stops: some are done.
SomeSteps ==
    \/ UNCHANGED lesson
    \/ \E p \in {q \in Head(script) : Head(q).do = "steps"} :
          LET t == Head(p)
          IN \E n \in 1..(Len(t.bp.steps) - 1) :
                lesson' = [lesson EXCEPT ![t.k][t.o].steps = Upserted(@, SubSeq(t.bp.steps, 1, n))]

\* A script dies, or a lost connection makes withRetry start its part over.
Interrupted(left) ==
    /\ ~NoScript /\ faults < MaxFaults /\ faults' = faults + 1
    /\ script' = left /\ SomeSteps
    /\ UNCHANGED <<sourates, verset, section, links, progress, again, runs, fresh>>

Crash == Interrupted(<<>>)
Retry == again # <<>> /\ Interrupted(again)

ScriptStep ==
    \/ \E limit \in 1..Cardinality(Surah), force \in BOOLEAN : StartImport(force, limit)
    \/ \E l \in Lang : StartTranslate(l)
    \/ StartSeed \/ StartLessons \/ StartAlphabet
    \/ Task \/ Crash \/ Retry

-----------------------------------------------------------------------------
\* All the content is what the scripts leave when none of them was disturbed;
\* "unlinked": a learner has completed all of it, and a seed has stopped after
\* deleting the links of the last section.
LessonKeys == UNION {{<<k, o>> : o \in DOMAIN lesson[k]} : k \in DOMAIN lesson}
ContentInit ==
    LET all     == Descending({Hizb[s] : s \in Surah})
        Within(h) == Descending({s \in Surah : Hizb[s] = h})
    IN \E start \in Starts :
        /\ sourates = IF start = "empty" THEN {} ELSE Surah
        /\ verset = [s \in Surah |-> [n \in VersesOf(s) |->
                IF start = "empty" THEN Absent ELSE [mots |-> Words[s][n], langs |-> Lang]]]
        /\ section = IF start = "empty" THEN <<>> ELSE <<0>> \o all
        /\ lesson = [k \in DOMAIN section |->
                IF k = Alphabet THEN AlphabetBlueprints ELSE HizbBlueprints(Within(section[k]))]
        /\ links = [k \in DOMAIN section |->
                IF start = "unlinked" /\ k = Len(all) + 1 THEN <<>> ELSE Within(section[k])]
        /\ progress = IF start = "unlinked" THEN LessonKeys ELSE {}
        /\ fresh = {k \in DOMAIN section : links[k] = Within(section[k])}
        /\ script = <<>> /\ again = <<>> /\ runs = 0 /\ faults = 0

\* Once a section has been generated to the end, after whatever crashes and
\* retries, and as long as its verses do not change: its lessons are numbered
\* without gap, teach each stored verse of its surahs once and in order, pair
\* only short verses, and have just the steps that fit, without any left over
\* from an earlier division of the surah.
TaughtIn(k) == IF k = Alphabet THEN {Fatiha} \cap sourates ELSE ToSet(links[k])
LessonsMatchVerses ==
    \A k \in fresh :
        LET ls == lesson[k]
            Teaches(o, s, n) == ls[o].sourate = s /\ n \in ls[o].debut..ls[o].fin
            Count(steps, type) == Cardinality({i \in DOMAIN steps : steps[i] = type})
        IN /\ DOMAIN ls = 1..Cardinality(DOMAIN ls)
           /\ \A s \in TaughtIn(k) : \A n \in ToSet(Loaded(s)) :
                 Cardinality({o \in DOMAIN ls : Teaches(o, s, n)}) = 1
           /\ \A o, q \in DOMAIN ls :
                 o < q /\ ls[o].sourate = ls[q].sourate /\ ls[o].sourate # NoSurah
                     => ls[o].fin < ls[q].debut
           /\ \A o \in DOMAIN ls : ls[o].sourate # NoSurah =>
                 LET of    == {n \in ToSet(Loaded(ls[o].sourate)) : Teaches(o, ls[o].sourate, n)}
                     words == [n \in of |-> verset[ls[o].sourate][n].mots]
                 IN /\ Cardinality(of) = 1 \/ (Cardinality(of) = 2 /\ \A n \in of : words[n] <= LongVerse)
                    /\ Count(ls[o].steps, "discovery") = Cardinality(of)
                    /\ Count(ls[o].steps, "ordering") = Cardinality({n \in of : words[n] >= MinOrdering})
                    /\ Count(ls[o].steps, "voice") = 1 /\ Last(ls[o].steps) = "voice"

=============================================================================

-------------------------------- MODULE MCStudy --------------------------------
(* Small instances of Study for TLC. *)
EXTENDS Study

\* Al-Fatiha, taught in the alphabet and again in its hizb, and a surah with a
\* long verse and two short ones.
StudyWords == 1 :> <<4, 2>> @@ 114 :> <<8, 2, 3>>
StudyHizb  == 1 :> 1 @@ 114 :> 60
StudySigns == <<"fatha", "tanwin", "summary">>
StudyDemo  == <<"discovery", "written">>

WorkerSymmetry == Permutations(Worker)

=============================================================================

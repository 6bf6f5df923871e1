--------------------------- MODULE MCDiscourseWave ---------------------------
(* Model-checking instances of DiscourseWave. *)
EXTENDS DiscourseWave

\* Crashes, failures and stops: two while the job is the peer's, one in a wave
\* that has reached the author's.
FewTroubles == crashes + faults + stops <= 3 - phase
=============================================================================

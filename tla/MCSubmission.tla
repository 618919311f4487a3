---------------------------- MODULE MCSubmission -----------------------------
(* Two clients; or two schedulers and a schedule; or one scheduler that takes *)
(* two schedules at once.                                                     *)
EXTENDS Submission

CONSTANTS c1, c2, s1, s2, daily, hourly, weekly

MCDeployments == {{c1, c2}, {s1, s2, daily}, {s1, hourly, weekly}}

=============================================================================

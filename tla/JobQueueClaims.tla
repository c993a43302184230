---------------------------- MODULE JobQueueClaims ----------------------------
(***************************************************************************)
(* What the repository's tests say of the job queue and the code does not  *)
(* do in every behaviour; README.md tells the counterexample.              *)
(***************************************************************************)
EXTENDS JobQueue

\* TestWorker_HandleFailedJob_DeadLettersAfterMaxAttempts (worker_pdf_test.go:1286):
\* a job that keeps failing is dead-lettered once its attempts are used up, so
\* every job ends, also after a crash that RecoverStale repairs.
AttemptsRunOut == SettlesUnlessStranded
===============================================================================

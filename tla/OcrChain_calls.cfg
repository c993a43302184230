\* PDFs and an image, four providers, from no fallback to three.
SPECIFICATION FairSpec
CONSTANT Requests <- MCRequests
CHECK_DEADLOCK FALSE
INVARIANTS TypeOK WithinBudget FailsOnlyExhausted AnswerIsOwn CopyWhileWaiting
PROPERTIES CallReturns GoroutinesEnd

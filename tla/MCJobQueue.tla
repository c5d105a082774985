----------------------------- MODULE MCJobQueue -----------------------------
EXTENDS JobQueue, TLC

\* Delivery tasks are interchangeable; their names are compared with nothing.
WorkerSymmetry == Permutations(Workers)
=============================================================================

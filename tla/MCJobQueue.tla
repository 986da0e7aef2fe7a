----------------------------- MODULE MCJobQueue ------------------------------
(* JobQueue on small instances: the constants are given in the .cfg files.    *)
EXTENDS JobQueue, TLC

\* The workers are interchangeable: nothing in the queue names one.
WorkerSymmetry == Permutations(Workers)
===============================================================================

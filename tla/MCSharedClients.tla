-------------------------- MODULE MCSharedClients --------------------------
(* Instances of SharedClients for TLC.                                       *)
EXTENDS SharedClients, TLC

ClientSymmetry == Permutations(Requests) \cup Permutations(Jobs) \cup Permutations(Workers)

\* "usable from either the Celery task below or directly (e.g. FastAPI
\* BackgroundTasks) when Celery isn't available" (workers/tasks.py:92-93): run
\* directly, the pipeline leaves the API's requests a client they can use.
DirectlyUsable == refused \cap Requests = {}
=============================================================================

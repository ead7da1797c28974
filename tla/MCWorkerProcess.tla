-------------------------- MODULE MCWorkerProcess ---------------------------
EXTENDS WorkerProcess, MCWorker
=============================================================================

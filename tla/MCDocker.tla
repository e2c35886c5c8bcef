------------------------------- MODULE MCDocker -------------------------------
(* More containers than the semaphore lets through, frames of up to two       *)
(* characters, two retries.                                                   *)
EXTENDS Docker
=============================================================================

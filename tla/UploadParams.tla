---------------------------- MODULE UploadParams ----------------------------
(***************************************************************************)
(* The sessions that upload, the users, and their upload jobs.             *)
(***************************************************************************)
EXTENDS Integers, Sequences, FiniteSets

CONSTANTS Sessions, Users, Jobs,
          UserOf,  \* the user, or the target chat, a job uploads for
          Stop,    \* the sentinel None in a worker's queue
          None     \* no job, no worker, no session

ASSUME UploadParamsAssumption ==
    /\ IsFiniteSet(Jobs) /\ IsFiniteSet(Users)
    /\ \A j \in Jobs : UserOf[j] \in Users
    /\ None \notin Jobs /\ Stop \notin Jobs
    /\ None \notin Sessions /\ None \notin Jobs \X Sessions
=============================================================================

--------------------------- MODULE RideCompletion ---------------------------
(***************************************************************************)
(* What settlement may take for granted about rides: how a ride comes to   *)
(* be completed and to have completion jobs in the queue.  Module          *)
(* Settlement is built on this specification and module Rides implements   *)
(* it, so that the two make up one system.                                 *)
(***************************************************************************)
EXTENDS Naturals

CONSTANTS
  Rides,      \* ids of rides
  MaxJobs,    \* completion jobs a ride may get when its confirmations overlap
  Overlap     \* TRUE: the handlers of one ride overlap as in module Rides

VARIABLES
  status,    \* of each ride, as far as it matters here
  job        \* queue ride-completion

\* OVERWRITTEN: a handler that had read the ride before it was completed has
\* put another status over COMPLETED.
Status == {"IN_PROGRESS", "COMPLETED", "OVERWRITTEN"}

JobNo == 1..MaxJobs
NoJob == [state |-> "none", stalls |-> 0]

CompletionInit ==
  /\ status = [r \in Rides |-> "IN_PROGRESS"]
  /\ job = [r \in Rides |-> [n \in JobNo |-> NoJob]]

\* The second confirmation is written.  Two that overlap both count as such.
ConfirmRide(r) ==
  /\ status[r] = "IN_PROGRESS" \/ Overlap
  /\ status' = [status EXCEPT ![r] = "COMPLETED"]
  /\ UNCHANGED job

\* ... and its completion job is added, unless the handler fails first.
AddCompletionJob(r) ==
  /\ status[r] # "IN_PROGRESS"
  /\ \E n \in JobNo :
       /\ job[r][n].state = "none"
       /\ n > 1 => Overlap /\ job[r][n - 1].state # "none"
       /\ job' = [job EXCEPT ![r][n].state = "waiting"]
  /\ UNCHANGED status

OverwriteStatus(r) ==
  /\ Overlap
  /\ status[r] = "COMPLETED"
  /\ status' = [status EXCEPT ![r] = "OVERWRITTEN"]
  /\ UNCHANGED job

RideCompletes(r) == ConfirmRide(r) \/ AddCompletionJob(r) \/ OverwriteStatus(r)

CompletionNext == \E r \in Rides : RideCompletes(r)

CompletionSpec == CompletionInit /\ [][CompletionNext]_<<status, job>>
=============================================================================

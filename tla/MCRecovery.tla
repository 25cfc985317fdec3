------------------------------ MODULE MCRecovery ------------------------------
(* Two recoveries that share nothing here but the run of TLC: the pollers of *)
(* evidence requests and scopes, and the cycle that resumes renewals. One of *)
(* them moves in a behaviour and the other rests, so the states add up.      *)
EXTENDS MCFactRequest

CONSTANTS Member, Worker, Asker, Renewal, MaxExecution

VARIABLES maintainers, paused, expired, renewal, call

Renewals == INSTANCE SourceRenewal

renewalVars == <<maintainers, paused, expired, renewal, call>>

\* Nothing is left to do for the pollers, nor has a renewal been confirmed.
FactsRest == Alive({}) /\ UNCHANGED vars
RenewalsRest == Renewals!Init /\ UNCHANGED renewalVars

\* The ordinary scope, one request or the renewals are alive.
RecoveryInit == (Alive({}) \/ \E s \in Scope : Alive({s})) /\ Renewals!Init

RecoveryNext ==
  \/ RenewalsRest /\ Next
  \/ FactsRest /\ Renewals!Next

FairRecovery ==
  RecoveryInit /\ [][RecoveryNext]_<<vars, renewalVars>> /\ Fairness /\ Renewals!Fairness

(* A renewal that was asked for is issued or waits for its member with a     *)
(* diagnosis, whatever process died with it (recover() and recordFailure()   *)
(* of renewal-service.js).                                                   *)
RenewalsSettle == Renewals!RenewalsSettle
===============================================================================

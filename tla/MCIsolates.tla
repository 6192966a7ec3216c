------------------------------ MODULE MCIsolates ------------------------------
(***************************************************************************)
(* What isolates that share one database decide and remember each on its   *)
(* own: the requests of ReplayGuard, the assertions of Exchange and the    *)
(* copies of the two directories, over small sets. They share no state:    *)
(* each behaviour is one of a single part.                                 *)
(***************************************************************************)
EXTENDS MCReplayGuard, Exchange, TenantDirectory, SpDirectory

VARIABLE part

Parts == {"replay guard", "exchange", "tenant directory", "SP directory"}

WellTyped ==
  /\ part \in Parts
  /\ part = "replay guard" => TypeOK
  /\ part = "exchange" => ExchangeTypeOK
  /\ part = "tenant directory" => DirectoryTypeOK
  /\ part = "SP directory" => SpTypeOK

(* The parts that are not at work rest in one of their initial states. *)
IsolatesInit ==
  /\ part \in Parts
  /\ Init /\ ExchangeInit /\ DirectoryInit /\ SpInit
  /\ part # "replay guard" => issued = [r \in Requests |-> 0]
  /\ part # "exchange" => optIn = Nil

IsolatesNext ==
  /\ UNCHANGED part
  /\ \/ part = "replay guard" /\ Next /\ UNCHANGED <<exchangeVars, directoryVars, spVars>>
     \/ part = "exchange" /\ ExchangeNext /\ UNCHANGED <<vars, directoryVars, spVars>>
     \/ part = "tenant directory" /\ DirectoryNext /\ UNCHANGED <<vars, exchangeVars, spVars>>
     \/ part = "SP directory" /\ SpNext /\ UNCHANGED <<vars, exchangeVars, directoryVars>>

IsolatesSpec == IsolatesInit /\ [][IsolatesNext]_<<vars, exchangeVars, directoryVars, spVars, part>>
=============================================================================

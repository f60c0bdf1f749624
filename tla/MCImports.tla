----------------------------- MODULE MCImports ------------------------------
(* Two jobs that may use the same branch name, another name, and a client;   *)
(* and, apart from them, the conversions of two columns or two documents.    *)
EXTENDS Imports, ImportTypes, TLC

CONSTANTS j1, j2

Import(k) == [load |-> k, pipeline |-> FALSE]
Pipeline(k) == [load |-> k, pipeline |-> TRUE]

MCPlans == (j1 :> {Pipeline("mongo"), Import("continuous"), Import("csv"), Import("pgloader")})
           @@ (j2 :> {Import("postgres")})

MCInit == Init /\ columns = <<>> /\ docs = <<>>

Convert ==
  /\ \A j \in Jobs : job[j].pc = "idle"
  /\ events = 0 /\ conversions = <<<<>>, <<>>>>
  /\ \/ columns' \in [1..2 -> MySQLColumns] /\ docs' = <<>>
     \/ docs' \in [1..2 -> Documents] /\ columns' = <<>>
  /\ UNCHANGED vars

MCNext == (Next /\ conversions = <<<<>>, <<>>>> /\ UNCHANGED conversions) \/ Convert

MCSpec == MCInit /\ [][MCNext]_<<vars, conversions>>
=============================================================================

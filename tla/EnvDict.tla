------------------------------ MODULE EnvDict ------------------------------
(***************************************************************************)
(* What env_map promises its callers: a dictionary of environment          *)
(* variables.  put sets a variable; ensure sets it only if it has no value *)
(* yet and the new one is not empty.  A map whose memory could not be      *)
(* allocated, or that was freed, stays empty and ignores its callers.      *)
(***************************************************************************)
CONSTANTS
  Keys,    \* names of environment variables
  Vals,    \* values
  Empty,   \* the empty string, one of Vals
  Absent   \* no value (NULL)

VARIABLES
  dict,    \* the value of each variable
  live,    \* whether the map has its memory
  call     \* the call in progress, or Absent

dvars == <<dict, live, call>>

Calls == [op : {"put", "ensure"}, k : Keys, v : Vals]
Nothing == [k \in Keys |-> Absent]

DInit == dict = Nothing /\ live = FALSE /\ call = Absent

DCreate ==
  /\ dict = Nothing
  /\ live' = TRUE
  /\ UNCHANGED <<dict, call>>

DCall ==
  /\ call = Absent
  /\ call' \in Calls
  /\ UNCHANGED <<dict, live>>

DReturn ==
  /\ call # Absent
  /\ dict' = IF live /\ (call.op = "put" \/ (dict[call.k] = Absent /\ call.v # Empty))
               THEN [dict EXCEPT ![call.k] = call.v] ELSE dict
  /\ call' = Absent
  /\ UNCHANGED live

DFree ==
  /\ call = Absent
  /\ dict' = Nothing
  /\ live' = FALSE
  /\ UNCHANGED call

DNext == DCreate \/ DCall \/ DReturn \/ DFree

DSpec == DInit /\ [][DNext]_dvars
=============================================================================

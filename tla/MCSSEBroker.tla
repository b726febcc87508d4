---------------------------- MODULE MCSSEBroker -----------------------------
(* Two streams of two users, one other caller, buffers of one.             *)
EXTENDS SSEBroker, TLC

CONSTANTS c1, c2, p, u1, u2

MCOwner == (c1 :> u1) @@ (c2 :> u2) @@ (p :> u1)

(* The streams differ in their user and in what happens to them: c1 gets   *)
(* p's messages, its write may fail and its connection ends first; c2      *)
(* sends heartbeats.  None of the steps left out is fair.                  *)
Scene ==
  /\ pc'[c1] # "beat"
  /\ pc[p] = "idle" /\ pc'[p] = "send" => sending'[p].to # {c1}
  /\ pc[c2] = "write" => pc'[c2] # "broken"
  /\ leave'[c2] # leave[c2] => leave[c1] # "no"
=============================================================================

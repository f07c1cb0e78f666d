----------------------------- MODULE MCNetChan -----------------------------
(* Instances of NetChan for the model checker. *)
EXTENDS NetChan

CONSTANTS c1, c2

MCCommands == {c1, c2}

Bounds(client, server) ==
  [e \in Endpoint |-> IF e = "client" THEN client ELSE server]

(* Safety: the client writes up to three commands, and has datagrams enough *)
(* to lose one, learn of it, and send it again; the server answers.         *)
SafetySequence == Bounds(5, 2)
SafetyWrites == Bounds(3, 1)
(* Liveness: datagrams enough for every loss to be repaired in time. *)
LiveSequence == Bounds(15, 15)
LiveWrites == Bounds(1, 0)
=============================================================================

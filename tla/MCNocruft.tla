----------------------------- MODULE MCNocruft ------------------------------
(* The instance of Nocruft that TLC checks, with the places of MCTracer.    *)
EXTENDS Nocruft, MCTracer

(* A creation, and a move that may take its place in a full ring.           *)
CreationAndMove == {MakeFile, GoIn}
=============================================================================

----------------------------- MODULE MCStartup -----------------------------
(* Instances of Startup for TLC.  With direct communication a thread has   *)
(* a second Player for MAC checks, whose base is mc_base_id(1, thread).     *)
EXTENDS Startup

Star == <<0>>
WithCheckPlayer == <<0, 285212672>>
=============================================================================

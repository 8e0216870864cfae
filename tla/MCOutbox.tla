------------------------------ MODULE MCOutbox ------------------------------
(* A small instance of Outbox.  Its run checks liveness, for which a symmetry
   would not be sound. *)
EXTENDS Outbox, TLC

=============================================================================

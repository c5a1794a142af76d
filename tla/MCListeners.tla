----------------------------- MODULE MCListeners -----------------------------
(* Small instances of the listener properties. *)
EXTENDS Listeners

\* Every order of up to three listeners; two names are also protocols.
MCNames == {"PLAINTEXT", "SASL_SSL", "BROKER"}

MCOrders ==
  { o \in UNION {[1..n -> Names] : n \in 1..3} :
      \A k, l \in 1..Len(o) : k # l => o[k] # o[l] }
=============================================================================

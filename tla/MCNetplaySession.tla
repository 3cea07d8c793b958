-------------------------- MODULE MCNetplaySession --------------------------
(***************************************************************************)
(* One input device.  The server wants it for itself, the first client     *)
(* takes any and would share it, the second wants this one, to share.      *)
(***************************************************************************)
EXTENDS NetplaySession

Wants(ds, sh) == [devs |-> ds, share |-> sh]
OneDevice == [p \in Peer |-> CASE p = 0 -> {Wants({0}, FALSE)}
                               [] p = 1 -> {Wants({}, TRUE)}
                               [] OTHER -> {Wants({0}, TRUE)}]
=============================================================================

------------------------------ MODULE MCAccess ------------------------------
(***************************************************************************)
(* TLC instance of Access.  Behaviours differ in the operations that       *)
(* clients mix, and in whether they send first requests together; each set *)
(* is explored for itself.                                                 *)
(***************************************************************************)
EXTENDS Access

MixedOperations ==
    {{"burst", "create_org", "delete_org"},
     {"burst", "join", "change"},
     {"create_org", "delete_org", "join", "change"},
     {"join", "change", "code"},
     {"key", "revoked"},
     {"key", "lasting_key", "gone"},
     {"lasting_key", "project"},
     {"code", "update"},
     {"delete_org", "code"},
     {"delete_org", "lasting_key"}}

=============================================================================

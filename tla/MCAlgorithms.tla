---------------------------- MODULE MCAlgorithms ----------------------------
(* One call of any of the functions: of the fields, the protocols, the data *)
(* structures or the encryption; small numbers in one to three limbs, and   *)
(* the code's binary fields.                                                *)
EXTENDS FieldCalls, ProtocolCalls, DataCalls, CipherCalls

Next == FieldCall \/ ProtocolCall \/ DataCall \/ CipherCall

Spec == Init /\ [][Next]_call

MCModuli == {<<11, TRUE, 16>>, <<13, TRUE, 4>>, <<17, TRUE, 4>>, <<13, FALSE, 4>>, <<7, TRUE, 8>>}
MCRootModuli == {<<17, TRUE, 4>>, <<13, TRUE, 16>>, <<41, TRUE, 4>>, <<73, FALSE, 4>>}
=============================================================================

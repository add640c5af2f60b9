-------------------------- MODULE MCClientSession --------------------------
(* ClientSession with a login of one profile, and of another.              *)
EXTENDS ClientSession

TwoNames == <<"ana", "ben">>
=============================================================================

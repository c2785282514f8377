-------------------------- MODULE MCDigestScheduler --------------------------
(* DigestScheduler with two users of one site. *)
EXTENDS DigestScheduler

MCSubscriber == {<<"ann", "s">>, <<"bob", "s">>}
=============================================================================

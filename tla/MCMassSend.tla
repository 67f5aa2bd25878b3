----------------------------- MODULE MCMassSend -----------------------------
(***************************************************************************)
(* MassSend with a list of three, one of which is no public key, two        *)
(* addresses to a transaction and one to a resend, so that groups are cut. *)
(***************************************************************************)
EXTENDS MassSend

CONSTANTS a1, a2, typo

MCAddresses == <<a1, a2, typo>>
MCPubkeys == {a1, a2}
=============================================================================

--------------------------- MODULE MCUserManager ----------------------------
(* The sources of two users for TLC; the first one logs in twice and may do *)
(* so without a BYE, so it has three sources for two slots.                 *)
EXTENDS UserManager

CONSTANTS video, audio, alice, bob

Sources == {[via |-> video, ssrc |-> 1, name |-> alice],
            [via |-> audio, ssrc |-> 2, name |-> alice],
            [via |-> video, ssrc |-> 3, name |-> alice],
            [via |-> video, ssrc |-> 4, name |-> bob]}
=============================================================================

--------------------------- MODULE MCImageDelivery ---------------------------
(* Two passwords for .env; each command from a terminal of its own.          *)
EXTENDS ImageDelivery
=============================================================================

-------------------------- MODULE MCReaderDelivery --------------------------
(* Small instances of ReaderDelivery for TLC. *)
EXTENDS ReaderDelivery

CONSTANTS d1

OneReader == {d1}
Tokens == 1 .. 6
=============================================================================

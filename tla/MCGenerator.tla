---------------------------- MODULE MCGenerator ----------------------------
(***************************************************************************)
(* Generator for TLC: two cards of two channels, and files of up to three  *)
(* events that hit a card, one channel of each card or all channels.       *)
(***************************************************************************)
EXTENDS Generator

EventsOfFile == {{<<0, 0>>, <<0, 1>>}, {<<0, 1>>, <<1, 0>>}, Channel}
MCFiles == UNION {[1 .. n -> EventsOfFile] : n \in 1 .. 3}
=============================================================================

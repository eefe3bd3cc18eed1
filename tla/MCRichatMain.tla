---------------------------- MODULE MCRichatMain ----------------------------
(***************************************************************************)
(* RichatMain with the mask of Shared::new.                                *)
(***************************************************************************)
EXTENDS RichatMain, Bitwise

CONSTANT MaxMessages  \* parser_channel_size

Indices == 0 .. MaxMessages - 1

Masked(pos) == pos & (MaxMessages - 1)

=============================================================================

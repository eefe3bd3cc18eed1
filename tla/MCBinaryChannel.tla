-------------------------- MODULE MCBinaryChannel --------------------------
(***************************************************************************)
(* BinaryChannel with the mask of Shared::new.                             *)
(***************************************************************************)
EXTENDS BinaryChannel, Bitwise

CONSTANT MaxMessages  \* the argument of binary::channel

Indices == 0 .. MaxMessages - 1

Masked(pos) == pos & (MaxMessages - 1)

=============================================================================

------------------------------- MODULE MCCircQ -------------------------------
(***************************************************************************)
(* A ring of twelve bytes and a header that is the length alone: one       *)
(* message of seven bytes, two of five or six, and two of six fill it, and *)
(* head and tail come to every offset, so that every byte of a header is   *)
(* split off by the end of the buffer.                                     *)
(***************************************************************************)
EXTENDS CircQ

LittleEndian(n) == <<n, 0, 0, 0>>

Sent(body) == LittleEndian(Len(body) + 4) \o body

MCMessages == {Sent(<<1>>), Sent(<<2>>), Sent(<<1, 2>>), Sent(<<2, 1, 2>>)}
=============================================================================

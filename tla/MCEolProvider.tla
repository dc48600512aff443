---------------------------- MODULE MCEolProvider ----------------------------
(* Model-checking instances of EolProvider. *)
EXTENDS EolProvider

Plain(parts) == String(FALSE, FALSE, parts)
Cycle(name, wellFormed) == [name |-> name, wellFormed |-> wellFormed]

(* Cycles "8" and "8.0" of a product, either of them with a field that is  *)
(* no date, one of them gone, and a name with whitespace.                  *)
Served ==
    {NotFound,
     {Cycle(Plain(<<8>>), TRUE), Cycle(Plain(<<8, 0>>), TRUE)},
     {Cycle(Plain(<<8>>), TRUE), Cycle(Plain(<<8, 0>>), FALSE)},
     {Cycle(Plain(<<8>>), FALSE), Cycle(String(TRUE, FALSE, <<8, 0>>), TRUE)}}

Inventory ==
    {Blank, Plain(<<8, 0>>), Plain(<<8, 0, 35>>), Plain(<<8, 1>>), Plain(<<9, 8, 0>>),
     String(TRUE, FALSE, <<8, 0>>), String(FALSE, TRUE, <<8, 0>>), String(TRUE, TRUE, <<8, 0>>)}
=============================================================================

----------------------------- MODULE MCFirmware -----------------------------
(* Bytes of four bits and words of eight; messages of seven bytes.  Two    *)
(* devices, whose sections 2 and 3 hold matches that overlap, repeat an    *)
(* offset and reach past Far, and whose sections 4 and 5 are plain or look *)
(* like something else.  patchimg knows the first bootstrap by what it     *)
(* contains, the second by its digest and the third not at all.            *)
EXTENDS Firmware

Tokens(ts) == [stored |-> StockSection(ts), holds |-> Meaning(ts)]

Files ==
  {[device |-> 1, magic |-> <<4, 5>>, boot |-> Tokens(<<<<0, 8>>, <<0, 0>>, <<1, 3>>>>),
    main |-> Tokens(<<<<0, 7>>, <<0, 0>>, <<2, 7>>, <<0, 15>>, <<2, 2>>, <<9, 4>>>>),
    updater |-> <<1, 0>>, meta |-> <<1, 2, 0, 0, 5>>],
   [device |-> 2, magic |-> <<4, 6>>, boot |-> Tokens(<<<<0, 8>>, <<0, 0>>>>),
    main |-> Tokens(<<<<0, 7>>, <<0, 0>>>>), updater |-> <<1, 0>>, meta |-> <<9>>],
   [device |-> 2, magic |-> <<4, 6>>, boot |-> Tokens(<<<<0, 8>>, <<0, 0>>, <<0, 3>>>>),
    main |-> Tokens(<<>>), updater |-> <<0, 0>>, meta |-> <<9>>]}

Digests == [image \in {<<8, 0>>, <<7, 0>>} |-> IF image = <<8, 0>> THEN 2 ELSE 3]

Texts == {<<8>>, <<0, 0>>}

Zero1 == <<0>>

Asks ==
  {{[at |-> 1, old |-> <<7>>, new |-> <<9>>, str |-> TRUE]},
   {[at |-> 1, old |-> <<8>>, new |-> <<7>>, str |-> FALSE],
    [at |-> 2, old |-> <<0>>, new |-> <<15>>, str |-> FALSE]}}
=============================================================================

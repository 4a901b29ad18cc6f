------------------------ MODULE MCElectionSchedulers ------------------------
EXTENDS ElectionSchedulers

MCAccount == {1, 2}
MCLength == <<1, 1>>
MCSource == [b \in Block |-> IF b = <<2, 1>> THEN {<<1, 1>>} ELSE {}]
MCBalance == [b \in Block |-> 1]
MCMinimum == <<0>>
MCOrder(b) == 10 * b[1] + b[2]
=============================================================================

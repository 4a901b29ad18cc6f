---- MODULE MCWallets ----
(* Two wallets, two accounts, one caller: a wallet with one ad-hoc key and  *)
(* two coins, a second that may be created or imported, one id, and one     *)
(* send of someone else.                                                    *)
EXTENDS Wallets, TLC

CONSTANTS w1, w2, a1, a2, s1, s2, e1, p1

MCDerived == s1 :> <<a2>> @@ s2 :> <<a1, a2>>

MCStore == [keys |-> a1 :> ADHOC, seed |-> s1, index |-> 1, wrapped |-> Empty]

MCInitStore == w1 :> MCStore @@ w2 :> Fresh

MCOpen(a, h) == [account |-> a, height |-> h, kind |-> "receive", link |-> None]

MCInitChain == a1 :> <<MCOpen(a1, 1), MCOpen(a1, 2)>> @@ a2 :> <<>>

MCImported == [keys |-> a2 :> ADHOC, seed |-> s2, index |-> 1, wrapped |-> p1]

MCExternal == {[hash |-> e1, account |-> a1]}
====

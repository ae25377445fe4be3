------------------------- MODULE ClockPropagationMC -------------------------
(* Rank 0's clock, as the levels of Topo1 and Topo2 build it.              *)
EXTENDS ClockPropagation

Coefs == {"a", "b"}
Offsets == [kind : {"Offset"}, coefs : {<<c>> : c \in Coefs}]
LMs == [kind : {"LM"}, coefs : {<<"a", "b">>, <<"b", "a">>}]

\* One level above: any algorithm.
Single == {<<m>> : m \in Offsets \cup LMs}

\* Two levels above, the lower of them HCA3, HCA2, HCA or JK.
LMOverAny == {<<m, n>> : m \in LMs, n \in Offsets \cup LMs}
MCNests == Single \cup LMOverAny

\* Two levels above, the lower of them HCA3O or SKaMPI.
MCOffsetNests == {<<m, n>> : m \in Offsets, n \in LMs}
=============================================================================

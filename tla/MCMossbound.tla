---- MODULE MCMossbound ----
EXTENDS Mossbound
Near == [p \in Places |-> Places \ {p}]
Folk == [p \in Places |-> IF p = Home THEN {"haven", "shop", "lune", "marwick"} ELSE {"vey"}]
Grass == [p \in Places |-> IF p = Home THEN {} ELSE {"cub"}]
Hidden == [p \in Places |-> IF p = Home THEN {} ELSE {"bear"}]
Teams == [lune |-> <<"cub">>, marwick |-> <<"bear", "cub">>, vey |-> <<"bear">>]
Rewards == [lune |-> <<1, 0>>, marwick |-> <<1, 1>>, vey |-> <<0, 1>>]
Health == [cub |-> 2, bear |-> 3]
Speeds == [cub |-> 1, bear |-> 2]
Grows == [cub |-> {"bear"}, bear |-> {}]
====

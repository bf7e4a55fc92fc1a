-------------------------- MODULE MCMediaDelivery ---------------------------
(***************************************************************************)
(* Two jobs, a pool of two sessions, and the links the jobs serve.         *)
(***************************************************************************)
EXTENDS MediaDelivery

CONSTANTS j1, j2, s1, s2

MCPool  == <<s1, s2>>
MCPools == {<<s2>>, <<>>}

Link(mode, vip, premium, override, posts) ==
    [mode |-> mode, vip |-> vip, premium |-> premium, override |-> override, posts |-> posts]

Pair(a, b) == [j \in {j1, j2} |-> IF j = j1 THEN a ELSE b]

Nothing  == Link("private", FALSE, FALSE, FALSE, <<>>)
VipSmall == Link("private", TRUE, FALSE, FALSE, <<"small">>)
BotSmall == Link("bot", TRUE, FALSE, FALSE, <<"small">>)

\* The two jobs compete for the pool.
Rivals == {Pair(VipSmall, BotSmall)}

\* One job, and each way its files can go.
Singles ==
    {Pair(l, Nothing) : l \in
        {VipSmall,
         Link("private", TRUE, TRUE, FALSE, <<"big", "text">>),
         Link("public", FALSE, FALSE, FALSE, <<"big", "small">>),
         Link("private", FALSE, FALSE, FALSE, <<"small", "big">>),
         Link("private", TRUE, FALSE, TRUE, <<"big">>)}}

\* The owner downloads with another account.
OverrideWorkloads ==
    {Pair(Link("private", TRUE, FALSE, TRUE, <<"big">>), Nothing),
     Pair(Link("private", TRUE, FALSE, TRUE, <<"small">>), Nothing)}

Everything == Singles \cup Rivals

Full == [floods |-> 2, losses |-> 1, stops |-> 1]
MCBudget ==
    [w \in Everything |-> IF w \in Rivals THEN [floods |-> 1, losses |-> 0, stops |-> 0] ELSE Full]
OverrideBudget == [w \in OverrideWorkloads |-> Full]
=============================================================================

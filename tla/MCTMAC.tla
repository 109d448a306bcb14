------------------------------- MODULE MCTMAC -------------------------------
(* Nodes 1 (the sink) and 2; a third address, 3, never answers, so that     *)
(* frames for it are overheard and its packets are given up.                *)
EXTENDS TMAC

\* The default settings, and those of SMAC.
Default(traffic) ==
    [useRtsCts |-> TRUE, disableTAextension |-> FALSE, conservativeTA |-> TRUE,
     collisionResolution |-> 1, traffic |-> traffic, synced |-> TRUE,
     maxPackets |-> 2, maxSN |-> 0]
Smac(traffic) ==
    [Default(traffic) EXCEPT !.useRtsCts = FALSE, !.disableTAextension = TRUE,
                             !.conservativeTA = FALSE, !.collisionResolution = 0]

\* Startup without traffic; packets both ways; unicast, broadcast and packets
\* for the stranger, once with immediate retries, once with silent listeners.
MCPars ==
    {[Default({}) EXCEPT !.synced = FALSE, !.maxSN = 1],
     Default({<<1, 2>>, <<2, 1>>}),
     Smac({<<2, 1>>, <<2, BROADCAST>>, <<1, 3>>}),
     [Default({<<2, 1>>, <<2, 3>>}) EXCEPT !.collisionResolution = 2,
                                           !.conservativeTA = FALSE]}

OneWay == {Default({<<2, 1>>})}

FromStartup == {[Default({<<1, 2>>}) EXCEPT !.synced = FALSE, !.maxPackets = 1]}
=============================================================================

----------------------------- MODULE MCRedQueue -----------------------------
(* Instances of RedQueue for TLC. *)
EXTENDS RedQueue

MCKeep == [m \in 0 .. MaxIdle |->
              FoldLeft(LAMBDA k, i : (k * (One - Weight)) \div One, One,
                       [i \in 1 .. m |-> i])]

Plain == [size |-> 1, ect |-> FALSE, ce |-> FALSE]
Ecn == [Plain EXCEPT !.ect = TRUE]
BigEcn == [Ecn EXCEPT !.size = 3]
OneKind == {Ecn}
TwoSizes == {Ecn, BigEcn}

\* ns-default.tcl with small thresholds and a small limit.
Default ==
    [bytes |-> FALSE, qib |-> FALSE, wait |-> TRUE, setbit |-> FALSE,
     gentle |-> TRUE, use_mark_p |-> TRUE, adaptive |-> FALSE,
     feng_adaptive |-> FALSE, is_modifiedRed |-> FALSE, linked |-> TRUE,
     ns1_compat |-> FALSE, drop |-> "tail", cautious |-> 0,
     mark_p |-> One \div 10, alpha |-> One \div 100, beta |-> (9 * One) \div 10,
     top |-> One \div 2, bottom |-> 0, auto_bottom |-> One \div 50,
     targetqueue |-> One, fraction |-> (8 * One) \div 10,
     mean_pktsize |-> 2, buffer_size |-> 0, qlim |-> 4,
     th_min_pkts |-> One, th_max_pkts |-> 2 * One,
     th_min |-> 4 * One, th_max |-> 4 * One, max_p_inv |-> 4 * One]

\* Every branch of the drop logic, one variation of the default each.
RedConfigs ==
    {Default,
     [Default EXCEPT !.gentle = FALSE, !.drop = "front"],
     [Default EXCEPT !.wait = FALSE, !.drop = "rand"],
     [Default EXCEPT !.use_mark_p = FALSE, !.gentle = FALSE],
     [Default EXCEPT !.use_mark_p = FALSE, !.th_min_pkts = One \div 2,
                     !.th_max_pkts = One, !.ns1_compat = TRUE],
     [Default EXCEPT !.cautious = 1, !.max_p_inv = One],
     [Default EXCEPT !.cautious = 2, !.max_p_inv = One, !.drop = "rand"],
     [Default EXCEPT !.th_min_pkts = 0, !.th_max_pkts = 0, !.qlim = 5],
     [Default EXCEPT !.qlim = 0]}

\* The queue, its limit, its thresholds and the tally measured in bytes.
ByteConfigs ==
    {[Default EXCEPT !.qib = TRUE, !.bytes = TRUE, !.qlim = 3],
     [Default EXCEPT !.qib = TRUE, !.bytes = TRUE, !.wait = FALSE, !.qlim = 2,
                     !.gentle = FALSE, !.max_p_inv = 2 * One],
     [Default EXCEPT !.qib = TRUE, !.drop = "rand", !.qlim = 2],
     [Default EXCEPT !.bytes = TRUE, !.drop = "front", !.qlim = 3]}

\* red.h's recipe for a queue that marks and does not drop.
EcnConfigs ==
    {[Default EXCEPT !.setbit = TRUE, !.mark_p = 2 * One],
     [Default EXCEPT !.setbit = TRUE, !.mark_p = 2 * One, !.wait = FALSE,
                     !.gentle = FALSE],
     [Default EXCEPT !.setbit = TRUE, !.mark_p = One \div 2, !.cautious = 2],
     [Default EXCEPT !.setbit = TRUE, !.use_mark_p = FALSE]}

AdaptiveConfigs ==
    {[Default EXCEPT !.adaptive = TRUE],
     [Default EXCEPT !.adaptive = TRUE, !.max_p_inv = (202 * One) \div 100],
     [Default EXCEPT !.adaptive = TRUE, !.max_p_inv = 50 * One, !.bottom = 2],
     [Default EXCEPT !.adaptive = TRUE, !.feng_adaptive = TRUE,
                     !.alpha = 3 * One, !.beta = 2 * One]}

\* wireless.tcl: no link, thresholds set through thresh_queue_ only.
Wireless ==
    [Default EXCEPT !.linked = FALSE, !.gentle = FALSE, !.th_min_pkts = 0,
                    !.th_max_pkts = 0, !.th_min = One, !.th_max = 4 * One,
                    !.qlim = 5, !.max_p_inv = 10 * One]
WirelessConfigs == {Wireless, [Wireless EXCEPT !.wait = FALSE, !.max_p_inv = One]}

\* wired.tcl with modified_red_ 1, scaled down; wireless.tcl likewise.
Nared ==
    [Default EXCEPT !.is_modifiedRed = TRUE, !.gentle = FALSE,
                    !.buffer_size = 4, !.th_min_pkts = One,
                    !.th_max_pkts = 3 * One, !.qlim = 5]
NaredConfigs ==
    {Nared, [Nared EXCEPT !.wait = FALSE, !.max_p_inv = 2 * One],
     [Nared EXCEPT !.linked = FALSE, !.th_min_pkts = 0, !.th_max_pkts = 0],
     [Nared EXCEPT !.buffer_size = 2, !.drop = "rand"]}

\* Every queue that is measured in packets.
PacketConfigs ==
    RedConfigs \cup EcnConfigs \cup AdaptiveConfigs \cup WirelessConfigs
    \cup NaredConfigs

MCConfigs == PacketConfigs \cup ByteConfigs
\* Sizes only matter where bytes are counted.
MCTraffic == [g \in MCConfigs |-> IF g \in ByteConfigs THEN TwoSizes ELSE OneKind]

\* NARED with a larger max_p.
NaredHalf == {[Nared EXCEPT !.max_p_inv = 2 * One]}
NaredTraffic == [g \in NaredHalf |-> OneKind]
=============================================================================

------------------------------ MODULE MCServices ------------------------------
(* The parts of the clock that owe something in the end, on small instances:   *)
(* they share no state, a behaviour shows one of them, and the others stand    *)
(* still.                                                                      *)
EXTENDS Dhcpc, UipTcp, Lcd, MainLoop

VARIABLE part

\* One DHCP server gives out two addresses, the other one.
MCServer == {1, 2}
MCPool   == <<{"a", "b"}, {"c"}>>

\* The table is too small for the peers there are, or takes them all.
MCSetup == {[UIP_CONNS |-> 1, peers |-> {"a", "b", "srv"}],
            [UIP_CONNS |-> 2, peers |-> {"a", "b"}],
            [UIP_CONNS |-> 2, peers |-> {"a", "srv"}]}

\* More text than a line takes, with the end of a line in it.
MCText == <<"a", "b", "c", "nl", "d">>
MCPage == <<"x", "nl", "y", "z">>

ServicesInit ==
    /\ part \in {"dhcp", "tcp", "display", "loop"}
    /\ DhcpcInit
    /\ TcpInit  /\ (part # "tcp" => Slot = {0} /\ hosts[Srv].phase = "stale")
    /\ LcdInit
    /\ LoopInit /\ (part # "loop" => tick = 0)

ServicesNext ==
    /\ UNCHANGED part
    /\ \/ part = "dhcp" /\ DhcpcNext /\ UNCHANGED <<tcpVars, lcdVars, loopVars>>
       \/ part = "tcp" /\ TcpNext /\ UNCHANGED <<dhcpcVars, lcdVars, loopVars>>
       \/ part = "display" /\ LcdNext /\ UNCHANGED <<dhcpcVars, tcpVars, loopVars>>
       \/ part = "loop" /\ LoopNext /\ UNCHANGED <<dhcpcVars, tcpVars, lcdVars>>

\* The fairness of each part, while it is shown.
Fairness ==
    /\ WF_dhcpcVars(part = "dhcp" /\ Begin)
    /\ SF_dhcpcVars(part = "dhcp" /\ NoAnswer)
    /\ WF_dhcpcVars(part = "dhcp" /\ \E p \in Server : \E a \in Pool[p] : Offer(p, a))
    /\ WF_dhcpcVars(part = "dhcp" /\ \E m \in net : Reply(m))
    /\ SF_dhcpcVars(part = "dhcp" /\ \E m \in Answers : m.addr \notin taken /\ Offered(m))
    /\ SF_dhcpcVars(part = "dhcp" /\ \E m \in Answers : Acknowledged(m))
    /\ WF_tcpVars(part = "tcp" /\ iss > 0 /\ uip_periodic)
    /\ WF_lcdVars(part = "display" /\ lcdMain)
    /\ WF_lcdVars(part = "display" /\ Ready)
    /\ WF_loopVars(part = "loop" /\ timer0_periodic_task)
    /\ WF_loopVars(part = "loop" /\ Turn)

ServicesSpec ==
    /\ ServicesInit
    /\ [][ServicesNext]_<<part, dhcpcVars, tcpVars, lcdVars, loopVars>>
    /\ Fairness

\* The main loop's texts come to an end, whatever the handlers leave the pins in.
TextsEnd == part = "display" => PrintReturns

\* Both timers are served for ever, if the network pauses now and then.
BothTimersRun == part = "loop" => TimersRun

\* The clock gets an address in the end, also after a refusal and a restart.
ClockGetsAddress == part = "dhcp" => GetsAddress
=============================================================================

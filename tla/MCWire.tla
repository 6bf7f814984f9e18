--------------------------------- MODULE MCWire ---------------------------------
(***************************************************************************)
(* Values for Wire: names and hellos for the gate, a configuration and edits  *)
(* of it on both sides of each of its bounds, a static table that reaches     *)
(* past a four-bit prefix, and a code whose EOS is of eight bits.             *)
(***************************************************************************)
EXTENDS Wire

HostA == Host("a", FALSE, 0)
HostARooted == Host("a", TRUE, 1)
HostB == Host("b", FALSE, 0)
Asks(host) == ServerName(<<Entry(TRUE, host)>>)
Other == [kind |-> "other", entries |-> <<>>]
MCConfigurations == {<<>>, <<HostB, HostARooted>>}
MCExtensionLists ==
    {<<>>, <<Asks(HostA)>>,
     <<Other, ServerName(<<Entry(FALSE, HostB), Entry(TRUE, HostARooted)>>)>>,
     <<ServerName(<<>>), Asks(HostA)>>,
     <<Asks(Host("c", TRUE, 0))>>, <<Asks(Host("a", TRUE, 2))>>}

MCStaticTable ==
    [i \in 1 .. 16 |-> <<<<100 + i>>, <<>>>>] \o <<<<<<116>>, <<1>>>>>>
MCCodeBits == <<2, 2, 3, 3, 4, 5, 6, 7, 8, 8>>

\* Texts are octets; 58 is the colon.
User(name, password, placeholder) ==
    [username |-> name, password |-> password, placeholder |-> placeholder]
Alice == User(<<97>>, <<98, 58, 99>>, FALSE)
MCDefault ==
    [level |-> [directive |-> FALSE, parses |-> FALSE, name |-> "info"],
     alpn |-> <<"h3">>, shutdown_grace |-> 5, udp_session_timeout |-> 180,
     connect_timeout |-> 10, max_targets_per_conn |-> 256, max_streams_bidi |-> 1024,
     max_connections |-> 256, max_idle_timeout |-> 60, keep_alive_interval |-> 20,
     initial_mtu |-> 1200, mtu_discovery |-> TRUE, mtu_upper_bound |-> Unset,
     initial_rtt_ms |-> 333, congestion_control |-> "bbr", users |-> <<Alice>>,
     denied_ports |-> {25}, expected_sni |-> <<>>, covered |-> {<<"a", "b">>},
     cert |-> "good", key |-> "good", allow_private_networks |-> FALSE,
     max_auth_failures |-> 5, keylog |-> FALSE, unanswered_packet_budget |-> 64,
     socket_recv_buffer |-> 8, socket_send_buffer |-> 8]

Level(directive, parses, name) == [directive |-> directive, parses |-> parses, name |-> name]
MCChoices ==
    [level |-> {Level(FALSE, FALSE, "loud"), Level(TRUE, TRUE, ""), Level(TRUE, FALSE, "")},
     alpn |-> {<<>>, <<"">>, <<"h3", "long">>, <<"other">>},
     shutdown_grace |-> {0, 3601}, udp_session_timeout |-> {0, 1, 3601},
     connect_timeout |-> {0, 3601}, max_targets_per_conn |-> {0, 1, 65537},
     max_streams_bidi |-> {0, 1, 65537}, max_connections |-> {0, 1},
     max_idle_timeout |-> {0, 1, 39, 40, 41, 3601}, keep_alive_interval |-> {0, 1, 29, 30},
     initial_mtu |-> {1199, 1452, 1453}, mtu_discovery |-> {FALSE},
     mtu_upper_bound |-> {1199, 1200, 1451, 1472, 1473}, initial_rtt_ms |-> {9, 10, 10001},
     congestion_control |-> {"bbr_uncapped", "cubic", "newreno"},
     users |-> {<<>>, <<Alice, Alice>>, <<Alice, User(<<98>>, <<255>>, TRUE)>>,
                <<User(<<97, 58, 98>>, <<99>>, FALSE)>>, <<User(<<>>, <<97>>, FALSE)>>,
                <<User(<<98>>, <<>>, FALSE)>>, <<User([i \in 1 .. 33 |-> 97], <<97>>, FALSE)>>},
     denied_ports |-> {{0}, {53}},
     expected_sni |-> {<<<<"a", "b">>>>, <<<<"a", "b", "">>>>, <<<<"c">>>>, <<<<"", "">>>>,
                       <<<<"a", "", "b">>>>, <<<<"*", "b">>>>, <<<<"1", "1", "1", "1", "">>>>,
                       <<<<"long">>>>, <<<<"bad">>>>},
     cert |-> {"missing", "unparsable"}, key |-> {"missing", "unparsable", "other"},
     allow_private_networks |-> {TRUE}, max_auth_failures |-> {0}, keylog |-> {TRUE},
     unanswered_packet_budget |-> {0}, socket_recv_buffer |-> {0}, socket_send_buffer |-> {0}]
===============================================================================

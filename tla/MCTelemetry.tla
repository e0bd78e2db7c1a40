---------------------------- MODULE MCTelemetry -----------------------------
(* Packets at the edges of the two parsers, and cgroup files.               *)
EXTENDS Telemetry

IPv4(ihl, upper, later, len) ==
  [tags |-> 0, ether |-> "IPv4", ihl |-> ihl, flow |-> 0, chain |-> <<>>, upper |-> upper,
   later |-> later, len |-> len]
IPv6(chain, upper, len) ==
  [IPv4(5, upper, FALSE, len) EXCEPT !.ether = "IPv6", !.chain = chain]

(* Headers of 8, 256 and 264 bytes, one with options of its own measure.    *)
Kinds == {[type |-> HOPOPTS, ext |-> 0], [type |-> DSTOPTS, ext |-> 31],
          [type |-> ROUTING, ext |-> 32], [type |-> AUTH, ext |-> 4],
          [type |-> FRAGMENT, ext |-> 0]}
Short == {[type |-> HOPOPTS, ext |-> 0], [type |-> FRAGMENT, ext |-> 0]}

(* Up to two headers of any kind, and around the eight that are walked.     *)
Chains == BoundedSeq(Kinds, 2)
          \union {[i \in 1..n |-> k] : n \in 7..9, k \in Short}

(* Cut before, in and behind each header, or not at all.                    *)
Cuts(chain) ==
  LET starts == {Start([chain |-> chain], k) : k \in 1..(Len(chain) + 1)}
  IN  {0} \union {s + d : s \in starts, d \in {-1, 0, 1, 2, 3, 4, 8}}

MCFrames ==
  {IPv4(ihl, upper, FALSE, len) :
     ihl \in {4, 5, 6, 15}, upper \in {1, PROTO_TCP, PROTO_SCTP, 47},
     len \in {19, 20, 23, 24, 27, 28, 59, 60, 63, 64}}
  \union {[IPv4(5, 17, FALSE, 28) EXCEPT !.tags = tags, !.ether = ether] :
            tags \in 0..2, ether \in {"IPv4", "ARP"}}
  \union {IPv4(5, 17, TRUE, 64)}
  \union UNION {{IPv6(chain, upper, len) : upper \in {PROTO_UDP, PROTO_ICMPV6, 50}, len \in Cuts(chain)} :
                  chain \in Chains}
  \union {[IPv6(<<>>, PROTO_UDP, 48) EXCEPT !.tags = 1]}

MCBuffers == {IPv4(5, 17, FALSE, 28), IPv6(<<>>, 6, 60)}

Id(name)             == [name |-> name, hex |-> TRUE, length |-> 64]
Segment(prefix, id)  == [prefix |-> prefix, id |-> id]
Slice                == Segment("", [name |-> "system.slice", hex |-> FALSE, length |-> 12])
Line(path)           == [parts |-> 3, path |-> path]

(* Docker by systemd; a container in a container, behind a line that names  *)
(* none; a prefix that is not known; an id too short.                       *)
MCContainers ==
  { <<>>,
    << Line(<<Slice, Segment("docker-", Id("a"))>>) >>,
    << [parts |-> 2, path |-> <<Segment("", Id("x"))>>], Line(<<Slice>>),
       Line(<<Segment("", Id("b")), Slice, Segment("cri-containerd-", Id("c")), Slice>>),
       Line(<<Segment("", Id("d"))>>) >>,
    << Line(<<Slice, Segment("libpod-", Id("e"))>>) >>,
    << Line(<<Segment("crio-", [Id("f") EXCEPT !.length = 11])>>) >> }

(* Where emit_ip_packet looks: nothing that is an IP header, or what looks  *)
(* like one.                                                                *)
MCElsewhere ==
  {[IPv4(5, 17, FALSE, 28) EXCEPT !.ether = "other"], IPv4(5, 47, FALSE, 28),
   [IPv6(<< [type |-> DSTOPTS, ext |-> 40] >>, 6, 48) EXCEPT !.flow = 6],
   IPv6(<<>>, 6, 48)}
=============================================================================

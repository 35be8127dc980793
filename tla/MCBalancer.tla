----------------------------- MODULE MCBalancer -----------------------------
(* Instances of Balancer for TLC. *)
EXTENDS Balancer, TLC

CONSTANTS t1, t2, t3, p1, p2

Setting(strategies, ns, whoPolls, cancels, k) ==
  [strategy : strategies, n : ns, pollers : whoPolls, cancel : cancels, requests : {k}]

\* Every strategy over three upstreams; over one; and one or two stats requests,
\* which may overlap, that reset the counters of two upstreams, with cancelled
\* requests.
Several ==
  Setting({"", "round-robin", "least-conn", "p2c"}, {3}, {{}}, {FALSE}, 4)
  \cup Setting({"", "p2c"}, {1}, {{}}, {FALSE}, 2)
  \cup Setting({"round-robin"}, {2}, {{p1, p2}}, {TRUE}, 3)
  \cup Setting({"round-robin"}, {2}, {{p1}, {p2}}, {TRUE}, 4)

\* Tasks and stats requests are interchangeable; upstreams are not.
Symmetry == Permutations(Tasks) \cup Permutations({p1, p2})
=============================================================================
